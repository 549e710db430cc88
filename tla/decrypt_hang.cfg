SPECIFICATION FairSpec
CONSTANTS
  Chunks = 2
  MaxItems = 3
PROPERTY DrainErrorReturned
CHECK_DEADLOCK FALSE
