CONSTANTS
    p1 = p1
    p2 = p2
    Ptrs <- MCPtrs
    NoPtr = NoPtr
    Sizes <- MCOneSize
    Residue <- MCResidue
    RingCap = 2
    ActiveCap = 1
    MaxBitmaps = 3
    MaxStarts = 2
    MaxRuns = 2
SPECIFICATION Spec
SYMMETRY AddressSymmetry
CHECK_DEADLOCK FALSE
INVARIANTS
    LiveReported
    NoPhantoms
    SnapshotCoexisted
    ActivityAtCreation
