SPECIFICATION Spec
CONSTANTS
  Clients = {c1}
  Disconnects = {d1}
  Restarts = TRUE
  None = None
INVARIANT RestartCleansUp
