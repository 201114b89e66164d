\* Every level of the grammar opened in turn; one error may be logged, a
\* second one finds the logger's arena full.
CONSTANTS
  Scenarios <- MCScenarios
  MaxErrors = 1

SPECIFICATION Spec
INVARIANTS
  TypeOK
  AcceptsExactly
  IndexSafe
PROPERTY ParserStops
\* The parser returns, or the process ends.
CHECK_DEADLOCK FALSE
