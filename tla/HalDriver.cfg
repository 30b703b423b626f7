CONSTANTS
  Instances = {i1, i2}
  Drivers = {d1, d2}
  None = null
SPECIFICATION FairSpec
INVARIANTS
  TypeOK
  TransferHoldsLock
  CallHoldsLock
PROPERTIES
  CompletionReachesStarter
  TransferReleasesLock
