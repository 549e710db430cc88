SPECIFICATION FairSpec
CONSTANTS
  r1 = r1
  d1 = d1
  Runs = {r1}
  Reports = {d1}
  Pings = {}
  OutCap = 1
  PopMax = 2
  NetCap = 1
  MaxConns = 2
  MaxBeats = 0
  MaxRestarts = 0
  StoreMayFail = TRUE
INVARIANTS
  TypeOK
  Accounted
  NoClobberInOneProcess
  LoopsEndWithConnection
  SeqIdentifiesEnvelope
PROPERTIES
  TeardownCompletes
  HandedIsDelivered
  RunsReport
CHECK_DEADLOCK FALSE
