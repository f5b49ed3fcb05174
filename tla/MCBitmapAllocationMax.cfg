CONSTANTS
    p1 = p1
    p2 = p2
    Ptrs <- MCPtrs
    NoPtr = NoPtr
    Sizes <- MCSizes
    Residue <- MCResidue
    RingCap = 3
    ActiveCap = 2
    MaxBitmaps = 3
    MaxStarts = 0
    MaxRuns = 1
SPECIFICATION Spec
CHECK_DEADLOCK FALSE
INVARIANTS
    SnapshotAtMax
