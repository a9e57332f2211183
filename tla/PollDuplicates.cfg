SPECIFICATION FairSpec
CONSTANTS
  BatchLimit = 2
  MaxUpdates = 4
  MaxRestarts = 2
INVARIANT NoDuplicates
CHECK_DEADLOCK FALSE
