SPECIFICATION FairSpec
CONSTANTS
  Joiners = {g1}
  Spectators = {s1}
  Values = {v1, v2}
  Overrides = {v1}
  Pings = 2
  MaxPeers = 2
  MaxHosted = 1
CHECK_DEADLOCK FALSE
INVARIANTS
  Inv
PROPERTIES
  ConfigIsHeard
  Ends
