SPECIFICATION FairSpec
CONSTANTS
  r1 = r1
  r2 = r2
  Runs = {r1, r2}
  Reports = {}
  Pings = {}
  OutCap = 1
  PopMax = 2
  NetCap = 1
  MaxConns = 2
  MaxBeats = 0
  MaxRestarts = 0
  StoreMayFail = FALSE
PROPERTY ReplayReturns
CHECK_DEADLOCK FALSE
