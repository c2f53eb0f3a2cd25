SPECIFICATION FairSpec
CONSTANTS
  Window = 2
  Laps = 2
  Paths = {p1, p2}
  MaxPathsPerSession = 3
  MaxEpoch = 2
  MaxReply = 1
  MaxPacket = 0
  MaxFaults = 2
INVARIANTS PacketsForwardedOnce OncePerAdoption NewRepliesAreHeard
PROPERTY EventuallyInStep
CHECK_DEADLOCK FALSE
