CONSTANTS
  Threads = {t1, t2}
  NumLeaves = 2
  BatchSize = 2
  MaxSimplify = 2
  MaxCalls = 1
SPECIFICATION PSpec
INVARIANT FalseMeansUnsat
CHECK_DEADLOCK FALSE
