\* The arena: a page holds two alignment units; three pages; sizes below, at
\* and above one unit and one page.  The vector: two growths.  The ring and
\* the stack: every state of a small block.
CONSTANTS
  Page = 8
  Align = 4
  Base = 16
  Pages = 3
  Sizes = {1, 2, 4, 6, 9, 11}
  Values = {p, q}
  Unset = Unset
  InitialCapacity = 4
  MaxSize = 8
  MaxOffset = 2
  Tokens = {t, u}
  NoToken = NoToken
  RingSize = 4
  Pointers = {x, y}
  NULL = NULL
  StackCapacity = 3

SPECIFICATION AllSpec
INVARIANTS
  TypeOK
  BlocksApart
  BlocksBacked
  OvershootBounded
  InsideAllocation
PROPERTIES
  CommitIsMinimal
  StoreSpec
  ImplementsList
  ImplementsQueue
  ImplementsFifo
  ImplementsLifo
\* The process may have exited, or a container may be destroyed.
CHECK_DEADLOCK FALSE
