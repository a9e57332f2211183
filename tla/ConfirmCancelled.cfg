SPECIFICATION Spec
CONSTANTS
  MaxToken = 1
  MaxFailedAttempts = 2
  BlockDuration = 2
  RateBurstMax = 2
  RateLimitMax = 3
  TokenTtlMax = 3
  DefaultTtl = 1
  ConfigTtls <- MCTtls
  TotpStep = 2
  TotpWindow = 0
  TotpCode <- MCTotpCode
  Args <- MCArgs
  ChangeArgs <- MCChangeArgs
  LongArgs <- MCLongArgs
  NoArgs = NoArgs
  svc = svc
  long = long
  StartTime = 1
  MaxTime = 3
  MaxAsks = 2
PROPERTY CancelledNeverRuns
CHECK_DEADLOCK FALSE
