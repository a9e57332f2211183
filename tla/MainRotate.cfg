SPECIFICATION FairSpec
CONSTANTS
  MaxErrors = 5
  ErrorSleep = 5
  WatchdogSec = 60
  PollTimes <- MCPollTimes
  UpdateTimes <- MCUpdateTimes
  MaxBatch = 3
  MaxSignals = 2
INVARIANT RotateNotLost
CHECK_DEADLOCK FALSE
