SPECIFICATION Spec
CONSTANTS
  Clients = {a, b}
  Conns = {c1, c2, c3}
  MaxFaults = 1
  None = None
INVARIANT GoodKeysKeepTrying
CHECK_DEADLOCK FALSE
