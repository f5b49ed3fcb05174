CONSTANTS
    app = app
    other = other
    AnyName = AnyName
    Names <- MCNames
    Pids <- MCPids
    Duration = 1
    RingCap = 2
    MaxStarts = 3
    MaxRuns = 2
    MaxCrashes = 1
    MaxFailures = 1
SPECIFICATION FairSpec
CHECK_DEADLOCK FALSE
INVARIANTS
    TypeOK
    FirstStart
    TimeoutMeansNone
    ResolvedInOrder
PROPERTIES
    WaitEnds
