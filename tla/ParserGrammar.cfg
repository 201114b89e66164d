CONSTANTS
  Scenarios <- MCBareCall
  MaxErrors = 1

SPECIFICATION Spec
INVARIANT ParsesJack
CHECK_DEADLOCK FALSE
