SPECIFICATION FairSpec
CONSTANTS
  Input = {0, 1, 2}
  NumInputs = 30
  Delay = 0
  Rollback = 2
  NumStates = 2
  Margin = 1
  Attack = 1
  Presses <- OneClash
  MaxFrame = 8
INVARIANTS
  Inv
  SettledIsCommitted
  UsedOrMarked
  CorrectionIsBounded
  LeaverIsSettled
  BoundaryDelivered
  NobodyIsStuck
PROPERTIES
  RestoresBeforeTarget
  BothFinish
