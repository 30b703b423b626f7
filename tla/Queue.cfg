CONSTANTS
  Queues = {q1, q2}
  BuffSize = 6
  NumOfMemBlock = 5
  ItemSize = 1
  MaxDataSize = 2
  Payload = {p1, p2}
  Zeroed = zeroed
SPECIFICATION Spec
INVARIANTS
  TypeOK
  ItemsOwnTheirBlocks
  PayloadIntact
PROPERTY ImplementsDeque
