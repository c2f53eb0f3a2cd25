SPECIFICATION FairSpec
CONSTANTS
  Clients = {c1, c2}
  Sessions = {s1, s2}
  Apps = {a1, a2}
  None = None
  Watched = a1
  c1 = c1
  c2 = c2
  a1 = a1
  a2 = a2
  AppsOf <- MCAppsOf
  MaxPerKey = 1
  MaxTotal = 1
  MaxActiveConns = 1
INVARIANTS CountersAreExact OneSession
PROPERTIES AppsAreAnswered StreamsEnd
