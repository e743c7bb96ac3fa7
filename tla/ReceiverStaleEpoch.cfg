SPECIFICATION Spec
CONSTANTS
  s1 = s1
  s2 = s2
  k1 = k1
  k2 = k2
  None = None
  Senders <- TwoSenders
  Contracts <- OneContract
  MaxEpoch = 2
  MaxCodes = 2
  MaxAuthorizations = 2
  MaxFaults = 0
INVARIANTS
  StaleMeansNewerSource
SYMMETRY SendersInterchangeable
CHECK_DEADLOCK FALSE
