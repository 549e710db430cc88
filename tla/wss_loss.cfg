SPECIFICATION Spec
CONSTANTS
  r1 = r1
  Runs = {r1}
  Reports = {}
  Pings = {}
  OutCap = 2
  PopMax = 2
  NetCap = 1
  MaxConns = 2
  MaxBeats = 0
  MaxRestarts = 0
  StoreMayFail = FALSE
INVARIANT NoRunLost
CHECK_DEADLOCK FALSE
