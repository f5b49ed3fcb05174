CONSTANTS
    a = a
    b = b
    c = c
    p = p
    q = q
    Keys <- MCKeys
    Procs <- MCProcs
    Bucket <- MCBucket
    Filters <- MCFilters
    NoKey = NoKey
    BadKey = BadKey
    MaxEntries = 3
    MaxWrites = 1
    MaxFaults = 1
    MaxCalls = 1
SPECIFICATION FairSpec
CHECK_DEADLOCK FALSE
INVARIANTS
    StableSeen
    OnceUnlessDisturbed
    EmptiedByDeletion
    LostRaceOnly
PROPERTIES
    CallsEnd
