SPECIFICATION Spec
CONSTANTS
  Ports = {p1}
  Dsts = {d1, d2, d3}
  Owners = {"game", "absent"}
  Keys <- AllKeys
  NumIDs = 2
  UnknownWait = 1
  Idle = 0
  None = None
SYMMETRY Symmetry
INVARIANTS TablesAgree UnknownPortsAreLookedUp
PROPERTIES SendersKeepTheirChannel SendersKeepTheirID
