\* Two files, so that one lexer is gone while the next one works; room in
\* the logger's arena for an error and the report of its own exhaustion.
CONSTANTS
  MaxFiles = 2
  Page = 8
  Align = 4
  Base = 16
  Pages = 5
  MessageSize = 8
  ErrorSize = 4
  OffsetSize = 2
  LineSizes = {1, 5}
  InitialCapacity = 2
  StackDepth = 3

SPECIFICATION CSpec
INVARIANTS
  DoneIsComplete
  OutputsInOrder
  NamesLiveInFrontEnd
PROPERTIES
  NoCodeFromErrors
  Terminates
  ClosedLogOverflows
\* The compiler ends.
CHECK_DEADLOCK FALSE
