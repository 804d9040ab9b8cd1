SPECIFICATION Spec
INVARIANT IInv
PROPERTY ImplementsMealy
CHECK_DEADLOCK FALSE
