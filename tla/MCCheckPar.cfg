CONSTANTS
  NumAux = 2
  MaxChecks = 2
  MaxInterrupts = 2
SPECIFICATION CSpec
INVARIANTS CancelReachesAll HandlerAlive UnknownForAReason
PROPERTIES Returns
CHECK_DEADLOCK FALSE
