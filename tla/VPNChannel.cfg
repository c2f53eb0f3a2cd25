SPECIFICATION FairSpec
CONSTANTS
  Clients = {a, b}
  Conns = {c1, c2, c3}
  MaxFaults = 1
  None = None
INVARIANTS CurrentIsServed NoConnectionLeft
PROPERTY SettlesDown
CHECK_DEADLOCK FALSE
