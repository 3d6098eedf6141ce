SPECIFICATION SpecSync
CONSTANTS
  Input = {0, 1}
  NumInputs = 30
  Delay = 0
  Rollback = 2
  NumStates = 2
  Margin = 5
  Attack = 2
  Presses <- OneSurprise
  MaxFrame = 6
  Interval = 2
INVARIANTS
  InvSync
  NoPairLost
PROPERTIES
  HashedIsFinal
  RefinesLockstep
