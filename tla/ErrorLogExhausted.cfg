CONSTANTS
  Page = 8
  Align = 4
  Base = 16
  Pages = 3
  MessageSize = 8
  ErrorSize = 4
  OffsetSize = 2
  LineSizes = {1, 5}
  Owners = {static, lexer}
  Static = static
  InitialCapacity = 4
  StackDepth = 3

SPECIFICATION Spec
INVARIANT ErrorsAreReported
CHECK_DEADLOCK FALSE
