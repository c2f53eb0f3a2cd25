SPECIFICATION SequentialSpec
CONSTANTS
  Window = 3
  Laps = 2
  MaxFrame = 12
  Delays <- TwoDelays
  MaxAge = 2
  OffsetWindow = 1
  RebaselineAfter = 2
  Machines = {"server", "client"}
  MaxFailures = 1
  Keys = {k1, k2}
  FileNames = {n1, n2}
  Imported = n1
  MaxLen = 2
  NoKey = NoKey
SYMMETRY KeySymmetry
INVARIANTS NewFramesGetThrough LateRunsAreShort
           Protected NothingMissing NothingStays KeysSurvive
PROPERTY DeliversOnce
