SPECIFICATION FairSpec
CONSTANTS
  k1 = k1
  k2 = k2
  None = None
  Contracts <- TwoContracts
  MaxInFlight = 2
  MaxEpoch = 3
INVARIANTS
  OwnSession
  KeyframeComing
  RecoveryUnderWay
PROPERTIES
  Decodable
  KeyframeDelivered
CHECK_DEADLOCK FALSE
