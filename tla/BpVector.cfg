SPECIFICATION Spec
CONSTANTS
    BP_BITS = 1
    Handle = {u, v, w}
    src = u
    orig = v
    splt = w
    dep = v
    MaxOps = 4
    InitSizes = {2}
    EmptyShared = FALSE
    Straying = TRUE
SYMMETRY HandleSymmetry
INVARIANTS TypeOK ReadsBack SoleOwner DiffComplete
