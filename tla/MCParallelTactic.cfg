CONSTANTS
  Threads = {t1, t2}
  NumLeaves = 2
  BatchSize = 2
  MaxSimplify = 2
  MaxCalls = 1
SPECIFICATION FairSpec
INVARIANTS NothingLost AnswerRight BranchesCovered CancelledForAReason
CHECK_DEADLOCK FALSE
PROPERTIES ReturnsUnlessMissed
