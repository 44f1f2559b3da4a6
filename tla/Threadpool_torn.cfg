\* Two workers find the latch of one operation at zero and both call submitr.
SPECIFICATION Spec
CONSTANTS
  HWCONC = 2
  MaxOps = 1
  QUEUE_SZ = 3
  EarlyFinish = FALSE
INVARIANTS
  CalledWhole
