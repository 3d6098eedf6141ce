SPECIFICATION FairSpec
CONSTANTS
  NumInputs = 6
  Delay = 1
  Rollback = 1
  MaxFrame = 7
INVARIANTS
  Inv
  NoHole
PROPERTY
  BothFinish
