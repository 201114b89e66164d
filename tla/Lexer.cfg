\* Every file of at most five characters over one character per class (and
\* "!", which has no token type, and a byte that is not ASCII).  The rooms are
\* reached by the longest files.
CONSTANTS
  Alphabet = {"blank", "newline", "a", "1", "quote", "/", "*", "(", "!", "#", "wide"}
  MaxLength = 5
  TokenRoom = 4
  OffsetRoom = 3

SPECIFICATION Spec
INVARIANTS
  LexemesInBounds
  LinesIndexed
  LexesAsGrammar
  AcceptsAsGrammar
  LineOfToken
\* The lexer returns.
CHECK_DEADLOCK FALSE
