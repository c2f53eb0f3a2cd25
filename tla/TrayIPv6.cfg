SPECIFICATION Spec
CONSTANTS
  Clients = {c1, c2}
  Disconnects = {d1}
  Restarts = FALSE
  None = None
INVARIANT BlockedWhileConnected
CHECK_DEADLOCK FALSE
