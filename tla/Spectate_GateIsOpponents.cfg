SPECIFICATION Spec
CONSTANTS
  Route <- MCRoute
  Window = 2
  Lag = 1
  MaxPulls = 2
  LiveTail = 1
  Burst = 2
  PerTick = 1
  Delay = 0
  Rollback = 1
  Buffer = 0
  MaxFrame <- MCLongRound
CHECK_DEADLOCK FALSE
PROPERTY
  GateIsOpponents
