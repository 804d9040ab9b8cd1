CONSTANTS
  NumSolvers = 2
  Size = 9
  Lengths = {2, 3, 7}
  Lits = {0, 1, 2, 4}
  NumParVars = 2
  MaxEvents = 4
SPECIFICATION Spec
INVARIANTS HeadGenuine NewestReached NoSelfDeadlock UnitsDelivered UnitsGenuine
PROPERTIES InOrder
