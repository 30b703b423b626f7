CONSTANTS
  MemLists = {m1}
  BuffSize = 4
  NumOfMemBlock = 8
SPECIFICATION Spec
INVARIANT AllFreedIsOneBlock
