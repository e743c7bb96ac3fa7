SPECIFICATION FairSpec
CONSTANTS
  s1 = s1
  s2 = s2
  k1 = k1
  k2 = k2
  None = None
  Senders <- OneSender
  Contracts <- OneContract
  MaxEpoch = 1
  MaxCodes = 2
  MaxAuthorizations = 2
  MaxFaults = 1
PROPERTIES
  AuthorizationUsedOnce
  KeepsTrust
  CaptureServed
CHECK_DEADLOCK FALSE
