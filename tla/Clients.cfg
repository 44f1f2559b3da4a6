\* A ring of four: every slot is reused, finish() falls between the reuses.
SPECIFICATION ClientSpec
CONSTANTS
  HWCONC = 2
  MaxOps = 9
  FreeOps = 3
  Careful = TRUE
  t_store = 4
  Addr = {a1, a2, a3, a4, a5}
SYMMETRY AddrSymmetry
INVARIANTS
  NoneDangling
  TrackerFits
