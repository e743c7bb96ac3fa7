SPECIFICATION FairSpec
CONSTANTS
  Upgrade = 2
  MaxMessage = 4
  MaxControl = 1
  Chunk = 3
  Capacity = 2
  Lengths = {0, 4}
  MaxFrames = 4
  MaxTelemetry = 3
  None = None
PROPERTIES StreamDelivered OnlyMalformedRejected SendsInOrder HandshakeEnds
