SPECIFICATION UtilitiesSpec
CONSTANTS
  Heads = {h1, h2}
  Items = {n1, n2, n3, n4}
  Byte = {a, zero}
  Zero = zero
  RingCapacity = 4
  MaxRequest = 5
  MemLists = {m1, m2}
  BuffSize = 4
  NumOfMemBlock = 6
  Callers = {c1, c2}
  Worker = w
  Tasks = {t1, t2}
  NoTask = no_task
  Capacity = 2
  Port = "FreeRTOS"
  GivenAtStart = 1
  WorkerTicks = "finite"
INVARIANTS
  ListTypeOK
  WellLinked
  ListsPartitionNodes
  RingTypeOK
  IndicesAgree
  TypeOK
  BlocksDisjoint
  TaskTypeOK
  SemaphoreBalanced
PROPERTIES
  ImplementsListSeq
  ImplementsFifo
  OnlyInitLeaksHeaders
  BytesLostOnlyWithoutHeaders
  ImplementsHeap
  ImplementsWorkQueue
  QueuedTaskRuns
