SPECIFICATION ReattachSpec
CONSTANTS
    BP_BITS = 1
    Handle = {src, orig, splt, dep}
    src = src
    orig = orig
    splt = splt
    dep = dep
    MaxOps = 8
    InitSizes = {1, 2, 3, 4, 5, 6, 7, 8, 9}
    EmptyShared = FALSE
    Straying = FALSE
INVARIANTS ReadsBack DiffComplete
