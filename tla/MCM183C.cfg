SPECIFICATION FairSpec
INVARIANT IInv
PROPERTIES ImplementsMealy Responsive
CHECK_DEADLOCK FALSE
