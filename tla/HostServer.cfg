SPECIFICATION FairSpec
CONSTANTS
  c1 = c1
  c2 = c2
  Nobody = Nobody
  Clients <- TwoClients
  ResumeTicks = 1
  Fragments = 2
  MaxSessions = 2
  MaxResumes = 1
  MaxDrops = 1
INVARIANTS
  NoForeignVideo
  CodeUsedOnce
PROPERTIES
  SessionExpires
  StopEnds
CHECK_DEADLOCK FALSE
