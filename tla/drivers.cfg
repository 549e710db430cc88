SPECIFICATION FairSpec
CONSTANTS
  Work = 2
  Burst = 3
  Cap = 3
  MaxWrites = 2
  MaxNow = 3
  PollTimeout = 1
  HookedKinds = {"pg_dump", "sqlite"}
INVARIANTS
  TypeOK
  StaleOnlyIfSaving
  TailKept
PROPERTIES
  KeepsContract
  CancelHonoured
CHECK_DEADLOCK FALSE
