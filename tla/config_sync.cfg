SPECIFICATION FairSpec
CONSTANTS
  r1 = r1
  r2 = r2
  k1 = k1
  k2 = k2
  Runs = {r1, r2}
  JobIn = {1, 2, 3}
  TargetOf <- MCTargetOf
  TargetsIn <- MCTargetsIn
  AgentKeys = {k1, k2}
  MaxVersion = 3
  MaxConns = 3
  MaxRestarts = 1
  InboxCap = 2
  ServerOmits = FALSE
INVARIANTS
  TypeOK
  AdvertisedIsApplied
  RunSeesPriorConfig
PROPERTIES
  NoRegress
  Converges
CHECK_DEADLOCK FALSE
