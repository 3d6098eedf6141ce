SPECIFICATION FairSpec
CONSTANTS
  Slots = {s1, s2, s3}
  MaxRoot = 1
  LiveTail = 1
  Burst = 3
  PerTick = 1
  MaxArchive = 2
  MaxControls = 1
  MaxConns = 3
INVARIANTS
  Inv
  StreamIsWhole
PROPERTIES
  CatchesUp
