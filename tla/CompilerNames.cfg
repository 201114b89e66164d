CONSTANTS
  MaxFiles = 2
  Page = 8
  Align = 4
  Base = 16
  Pages = 5
  MessageSize = 8
  ErrorSize = 4
  OffsetSize = 2
  LineSizes = {1, 5}
  InitialCapacity = 2
  StackDepth = 3

SPECIFICATION CSpec
INVARIANT NamesLiveWhenPrinted
CHECK_DEADLOCK FALSE
