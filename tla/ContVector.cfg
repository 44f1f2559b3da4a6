\* Two workers, client programs of three operations.
SPECIFICATION Spec
CONSTANTS
  HWCONC = 2
  MaxOps = 3
  Size = 6
  Kernel = 1
  MaxRuns = 1
  Programs <- MCPrograms
  InitData <- MCInit6
INVARIANTS
  TypeOK
  ResolvedIsSequential
  TrackedStale
PROPERTIES
  Settled
