CONSTANTS
    Objects <- MCObjects
    Source <- MCSource
    Builds <- MCBuilds
    Rejected <- MCRejected
    Kernel <- MCKernel
    PageSize = 16384
    FuseType = "unspec"
    AllowedTypes = {"kprobe"}
    MaxRuns = 2
    MaxCrashes = 1
    MaxFaults = 1
SPECIFICATION Spec
CHECK_DEADLOCK FALSE
INVARIANTS
    CriticalMustLoad
