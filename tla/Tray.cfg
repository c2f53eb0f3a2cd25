SPECIFICATION FairSpec
CONSTANTS
  Clients = {c1, c2}
  Disconnects = {d1}
  Restarts = TRUE
  None = None
INVARIANTS OneClient DisconnectCleansUp
PROPERTY ConnectEnds
