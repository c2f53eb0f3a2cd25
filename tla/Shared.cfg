SPECIFICATION SharedSpec
CONSTANTS
  Conns = {c1, c2, c3}
  MaxAuthFailures = 3
  Handshake = 1
  BanDuration = 3
  FailureMemory = 4
  Trust = 5
  Buckets = {a, b}
  Watched = a
  Sizes = {1, 2}
  Quantum = 1
  LimitBytes = 4
  MaxPacket = 1
  Target = 1
  Interval = 1
  MaxBatch = 2
  Senders = {g1, g2, g3}
  Depth = 2
  Attempts = 3
INVARIANTS BansCloseTheDoor TrustedAreNotBanned BansEndInTime
           QueuesAreConsistent NewFlowsComeFirst TheOldestGo
PROPERTIES BansNeedAStreak BansLast EverythingIsForgotten NobodyStarves
CHECK_DEADLOCK FALSE
