CONSTANTS
    app = app
    other = other
    AnyName = AnyName
    Names <- MCNames
    Pids <- MCPids
    Duration = 1
    RingCap = 2
    MaxStarts = 3
    MaxRuns = 2
    MaxCrashes = 1
    MaxFailures = 1
SPECIFICATION Spec
CHECK_DEADLOCK FALSE
INVARIANTS
    StartedDuringWait
