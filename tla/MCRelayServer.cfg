SPECIFICATION FairSpec
CONSTANTS
  h1 = h1
  h2 = h2
  c1 = c1
  c2 = c2
  Hosts = {h1, h2}
  Clients = {c1, c2}
  Codes = {k}
  IdSpace = 2
  FirstIndex = 1
  Nobody = Nobody
ACTION_CONSTRAINT InOrder
INVARIANTS
  Inv
  MatchInfoFirst
PROPERTIES
  NeverAnothersRoom
  MatchCompletes
  RoomsEnd
CHECK_DEADLOCK FALSE
