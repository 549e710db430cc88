SPECIFICATION FairSpec
CONSTANTS
  Chunks = 2
  MaxItems = 4
INVARIANTS
  TypeOK
  OkMeansAll
  VerifiedIsBackup
  OnlyOpenedChunks
  OldOutputKept
  OutputSettled
PROPERTIES
  GoodFileRestored
  Returns
CHECK_DEADLOCK FALSE
