SPECIFICATION XFairSpec
INVARIANT OwedByState
PROPERTIES CallsMatchReturns ClientServed
CHECK_DEADLOCK FALSE
