SPECIFICATION FairSpec
CONSTANTS
  c1 = c1
  w1 = w1
  w2 = w2
  k1 = k1
  k2 = k2
  None = None
  Components <- OneComponent
  Windows <- OneWindow
  Contracts <- OneContract
  Capacity = 2
  NSlots = 2
  MaxEvents = 1
  MaxSessions = 1
  MaxFaults = 2
PROPERTIES
  KeepsFeeding
