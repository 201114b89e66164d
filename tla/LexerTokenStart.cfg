CONSTANTS
  Alphabet = {"blank", "a", "1", "/", "("}
  MaxLength = 4
  TokenRoom = 9
  OffsetRoom = 9

SPECIFICATION Spec
INVARIANT TokensApart
CHECK_DEADLOCK FALSE
