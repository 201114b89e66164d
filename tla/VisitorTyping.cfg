\* Well typed programs that are rejected, ill typed ones that are accepted.
CONSTANTS
  Nesting = 3
  Names <- MCNames
  Types <- MCTypes
  Library <- MCLibrary
  Programs <- MCMisjudged
  Judged <- MCJudged
  Misjudged <- MCMisjudged
  Runnable <- MCRunnable
  Miscompiled <- MCMiscompiled
  MaxSteps = 400

SPECIFICATION Spec
INVARIANT TypeChecks
