SPECIFICATION FairSpec
CONSTANTS
  Delay = 1
  Rollback = 1
  SelectFrames = 2
  RoundFrames = 2
  Rounds = 2
  MaxIndex = 16
  FaultAt <- AllKinds
INVARIANTS
  Inv
  SameRoute
  RngAgreed
  NobodyHangs
PROPERTIES
  BothArrive
  StopTogether
CHECK_DEADLOCK FALSE
