\* The resolution of an operation is queued by both workers.
SPECIFICATION Spec
CONSTANTS
  HWCONC = 2
  MaxOps = 2
  Size = 6
  Kernel = 1
  MaxRuns = 2
  Programs <- MCTwo
  InitData <- MCInit6
INVARIANTS
  ResolvedIsSequential
