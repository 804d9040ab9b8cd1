CONSTANTS
  NumVars = 5
  Formulas <- MCFormulas
  Extra <- MCExtra
  Assumptions <- MCAssumptions
  Phases <- MCPhases
  MaxPushes = 1
  MaxRestarts = 1
  MaxGc = 1
SPECIFICATION Spec
INVARIANTS LemmasImplied ReasonsIntact NoMissedPropagation AnswerRight
PROPERTIES CheckEnds
CHECK_DEADLOCK FALSE
