SPECIFICATION FairSpec
CONSTANTS
  BatchLimit = 2
  MaxUpdates = 4
  MaxRestarts = 2
PROPERTY DroppedIsSkipped
CHECK_DEADLOCK FALSE
