SPECIFICATION FairSpec
CONSTANTS
  FdLimit = 3
  MaxLost = 1
  Timeout = 2
  Sizes = {0, 1, 3}
  DrainSize = 3
  MaxOutput = 3
  MaxWait = 4
  Slices = 2
  PipeCap = 2
  MaxData = 2
  MaxInterrupts = 1
  MaxLeaks = 2
INVARIANTS TypeOK VerdictTruthful OutputFaithful OverrunNamed NoChildLeft DescriptorsBalanced AnswerWhole
PROPERTIES CallsReturn CyclesEnd
CHECK_DEADLOCK FALSE
