SPECIFICATION FairSpec
CONSTANTS
  Datagrams = 2
  MaxSessions = 2
  MaxUnits = 2
  MaxMessages = 3
  MaxWire = 1
  MaxFaults = 1
INVARIANTS ControlIsCurrent RequestKept
PROPERTIES DatagramsInOrder StopEnds
CHECK_DEADLOCK FALSE
