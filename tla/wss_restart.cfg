SPECIFICATION Spec
CONSTANTS
  p1 = p1
  d1 = d1
  Runs = {}
  Reports = {d1}
  Pings = {p1}
  OutCap = 1
  PopMax = 2
  NetCap = 1
  MaxConns = 2
  MaxBeats = 1
  MaxRestarts = 1
  StoreMayFail = FALSE
INVARIANTS
  PhaseInv
  AtMostOnce
PROPERTY
  KeepsOutbox
CHECK_DEADLOCK FALSE
