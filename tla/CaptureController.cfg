SPECIFICATION FairSpec
CONSTANTS
  MaxSources = 1
  MaxLosses = 1
  MaxCalls = 3
  MaxFaults = 1
INVARIANTS
  NoDocumentLeft
  CapturingIsLive
  ReleasedAfterStop
PROPERTIES
  CallsEnd
CHECK_DEADLOCK FALSE
