SPECIFICATION MCSpec
CONSTANTS
  Machines = {"client"}
  MaxFailures = 0
  Keys = {k1, k2}
  FileNames = {n1, n2}
  Imported = n1
  MaxLen = 2
  NoKey = NoKey
PROPERTY WritesKeepKeys
