\* Four workers, vectors of 1 to 24 elements, offsets -3 to 3.
SPECIFICATION Spec
CONSTANTS
  HWCONC = 4
  MinSize = 1
  MaxSize = 24
  MaxOff = 3
INVARIANTS
  TypeOK
  PartitionExact
  ContendedComplete
  KernelCoversInterior
