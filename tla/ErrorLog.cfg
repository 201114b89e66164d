\* Room for two or three errors; a message is the largest request, as in the
\* code; three activations are enough for a report inside a report's report.
CONSTANTS
  Page = 8
  Align = 4
  Base = 16
  Pages = 6
  MessageSize = 8
  ErrorSize = 4
  OffsetSize = 2
  LineSizes = {1, 5, 8}
  Owners = {static, lexer, ast}
  Static = static
  InitialCapacity = 2
  StackDepth = 3

SPECIFICATION Spec
INVARIANTS
  InternalIsLast
  ExitShowsAll
PROPERTIES
  NeverResumed
  ReportEnds
\* The process may have ended.
CHECK_DEADLOCK FALSE
