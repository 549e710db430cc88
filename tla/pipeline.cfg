SPECIFICATION FairSpec
CONSTANTS
  Chunks = 3
  PreHooks = 2
  PostHooks = 3
  HooksMaxCount = 2
  HooksTotalBudget = 3
  HookTimeoutMax = 2
  HookHold = 1
INVARIANTS
  TypeOK
  OnlyWholeBackups
  NothingOutlivesRun
  NoSpuriousFailure
  PostHooksAfterDump
PROPERTY RunReturns
CHECK_DEADLOCK FALSE
