SPECIFICATION ServicesSpec
CONSTANTS
  Bus = bus
  Listeners = {l1, l2, l3}
  Events = {e1, e2}
  NoEvent = none
  BusCapacity = 4
  MaxSends = 4
  CliCommands <- MCCliCommands
  Lines <- MCLines
  NumOfArgument = 2
  CliSize = 13
  MarksRange = 4
  SmStates <- MCSmStates
  SmTable <- MCSmTable
  SmEvents = {1, 2}
  SmCapacity = 1
  SmMaxEvents = 2
  PointTables <- MCPointTables
  ModelBuffSize = 4
  PointBytes = {0, 1}
  IndexWidth = 3
  OsalTasks = {"task1", "task2", "task3"}
  OsalFlags = {"flag0", "flag1", "flag2"}
  MaxCount = 1
  PoolStacks = 5
  CountRange = 6
  MaxElapsed = 5
  MaxStarts = 2
INVARIANTS ServicesTypeOK CliObeys CliCanRecover SmSettles DmFindsEvery DmCleanMeansSeen
PROPERTIES BusImplementsAnnouncer BusRunEnds OsalAppEnds
CHECK_DEADLOCK FALSE
