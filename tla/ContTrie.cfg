\* Two workers whose partitions share a leaf of the tries.
SPECIFICATION Spec
CONSTANTS
  HWCONC = 2
  MaxOps = 3
  BP_BITS = 1
  Size = 6
  Kernel = 1
  MaxRuns = 1
  Programs <- MCPrograms
  InitData <- MCInit6
INVARIANTS
  SnapshotsStable
  TrieResolved
