SPECIFICATION Spec
CONSTANTS
  Joiners = {g1}
  Spectators = {}
  Values = {v1, v2}
  Overrides = {v1}
  Pings = 5
  MaxPeers = 2
  MaxHosted = 1
CHECK_DEADLOCK FALSE
PROPERTY
  SampleIsRoundTrip
