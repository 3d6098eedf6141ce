SPECIFICATION Spec
CONSTANTS
  Route <- MCRoute
  Window = 2
  Lag = 1
  MaxPulls = 2
  LiveTail = 1
  Burst = 2
  PerTick = 1
  Delay = 1
  Rollback = 1
  Buffer = 0
  MaxFrame <- MCMaxFrame
CHECK_DEADLOCK FALSE
INVARIANTS
  Inv
  ArchiveIsProven
  FrameIsThere
  SeedInPlace
PROPERTY
  LeavesNothing
