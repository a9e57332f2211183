SPECIFICATION FairSpec
CONSTANTS
  BatchLimit = 2
  MaxUpdates = 4
  MaxRestarts = 2
INVARIANTS TypeOK NothingForgotten OncePerRun OnceAcrossRestarts LossBounded
PROPERTY UpdatesReached
CHECK_DEADLOCK FALSE
