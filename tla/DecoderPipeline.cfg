SPECIFICATION Spec
CONSTANTS
  c1 = c1
  w1 = w1
  w2 = w2
  k1 = k1
  k2 = k2
  None = None
  Components <- OneComponent
  Windows <- TwoWindows
  Contracts <- TwoContracts
  Capacity = 3
  NSlots = 2
  MaxEvents = 2
  MaxSessions = 2
  MaxFaults = 1
INVARIANTS
  TypeOK
  InputInOrder
  SlotsConserved
  DecoderMatchesLifecycle
  ContractsAgree
  RequestNotForgotten
  BrokenChainUnderRepair
SYMMETRY Interchangeable
