\* Accepted programs whose code stops in the middle.
CONSTANTS
  Nesting = 3
  Names <- MCNames
  Types <- MCTypes
  Library <- MCLibrary
  Programs <- MCMiscompiled
  Judged <- MCJudged
  Misjudged <- MCMisjudged
  Runnable <- MCRunnable
  Miscompiled <- MCMiscompiled
  MaxSteps = 400

SPECIFICATION Spec
INVARIANT CodeRuns
