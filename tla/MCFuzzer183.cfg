CONSTANTS
  MinLength = 1
  MaxLength = 3
  Campaign = 2
SPECIFICATION FSpec
INVARIANTS FInv RunsReproducible
PROPERTY RunsFrozen
CHECK_DEADLOCK FALSE
