\* Expressions, statements, declarations and calls, varied one at a time in
\* small programs; programs on which compiler and language differ; and
\* programs the analysis has no rule for.
CONSTANTS
  Nesting = 3
  Names <- MCNames
  Types <- MCTypes
  Library <- MCLibrary
  Programs <- MCPrograms
  Judged <- MCJudged
  Misjudged <- MCMisjudged
  Runnable <- MCRunnable
  Miscompiled <- MCMiscompiled
  MaxSteps = 400

SPECIFICATION Spec
INVARIANTS
  ScopesNest
  IndicesUnique
  ScopeHasOneSymbol
  AcceptsWellTyped
  CodeMeansProgram
  CallsLink
  JumpsLand
  StackBalanced
  DestroyFreesAll
PROPERTIES
  BuildsTables
