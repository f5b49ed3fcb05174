CONSTANTS
    none = none
    other = other
    unknown = unknown
    Bytes <- MCBytes
    Nul <- MCNul
    KeySize = 3
    Names <- MCNames
    Descriptors <- MCDescriptors
    Configs <- MCConfigs
    NoName = none
    AllowedPrefixes <- MCPrefixes
    Maps <- MCMaps
    Registered <- MCRegistered
    BinderRing = BinderRing
    CodeSlots = 2
    Codes <- MCCodes
    RingCap = 2
    MaxEntries = 2
    MaxRetries = 1
    UseObserverApi = TRUE
    MaxTimeout = 2
    MaxRuns = 2
    MaxCrashes = 1
    MaxFailures = 1
SPECIFICATION FairSpec
CHECK_DEADLOCK FALSE
INVARIANTS
    TypeOK
    NothingLeftBehind
    FiltersInForce
    OnlyAllowedAttached
    SuccessMeansHandled
PROPERTIES
    DrainedOnDrop
    NoForeignEvents
    RunEnds
