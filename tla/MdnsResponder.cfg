SPECIFICATION Spec
CONSTANTS
  None = None
  Hosts <- TwoHosts
  Foreign <- Strangers
  MaxRecords = 2
  ProbeCount = 1
  MaxResponses = 1
  Window = 2
  MaxPresses = 3
  MaxEvents = 2
INVARIANTS
  SettlingUnderWay
  Withdrawn
  StopIsClean
  StopNeverStuck
CHECK_DEADLOCK FALSE
