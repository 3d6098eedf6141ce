SPECIFICATION Spec
CONSTANTS
  Input = {0, 1}
  NumInputs = 30
  Delay = 1
  Rollback = 6
  NumStates = 60
  Margin = 5
  Attack = 1
  Presses <- TwoBlows
  MaxFrame = 16
CONSTRAINT FirstOnly
INVARIANT BoundaryIsCorrected
