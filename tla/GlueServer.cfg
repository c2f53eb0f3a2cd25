SPECIFICATION Spec
CONSTANTS
  Keys = {k1, k2}
  SIDs = {i1, i2}
  Conns = {c1, c2}
  FlowIDs = {f1, f2}
  Dsts = {d1, d2}
  Sessions = {s1, s2, s3}
  Sockets = {u1, u2}
  None = None
  MaxFlowsPerSession = 1
  MaxGlueSessions = 2
  MaxSessionsPerClient = 1
  MaxPathsPerSession = 2
  MaxTotalFlows = 1
  FlowIdle = 0
  SessionIdle = 0
SYMMETRY Symmetry
INVARIANTS QuotaIsExact OpenSocketsAreReachable PathsKeepTheirSession
           PayloadsReachTheirDestination AcceptComesFirst
