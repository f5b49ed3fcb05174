CONSTANTS
    p1 = p1
    p2 = p2
    NoOne = NoOne
    Pollers <- MCPollers
    RingWords = 8
    PosModulus = 16
    ValueLen = 8
    Lens <- MCLens
    StartPositions <- MCStartPositions
    MaxRecords = 4
    MaxCrashes = 1
SPECIFICATION FairSpec
INVARIANTS
    TypeOK
    ReaderInSync
    ReturnedInOrderOnce
    NoSilentLoss
PROPERTIES
    NeverPassesBusy
    EventuallyConsumed
    ImplementsQueue
