CONSTANTS
  Client = client
  Server = server
  Nodes <- MCNodes
  Commands = {1}
  AskedIds = {1, 2}
  Payloads <- MCPayloads
  Reply <- MCReply
  Crc <- SumCrc
  Records = 2
  TxCapacity = 1
  RxCapacity = 3
  MaxBlock = 20
  MaxRequests <- MCMaxRequests
  MaxFaults = 1
  Noise = {1}
  Misread <- MCMisread
SPECIFICATION MCSpec
INVARIANTS
  TypeOK
  ReservedAsParsed
  QueueHoldsMessages
PROPERTIES
  ImplementsLink
  FirstRequestAnswered
