CONSTANTS
    none = none
    other = other
    unknown = unknown
    Bytes <- MCBytes
    Nul <- MCNul
    KeySize = 3
    Names <- MCAnyNames
    Descriptors <- MCDescriptors
    Configs <- MCBinderConfigs
    NoName = none
    AllowedPrefixes <- MCPrefixes
    Maps <- MCMaps
    Registered <- MCRegistered
    BinderRing = BinderRing
    CodeSlots = 2
    Codes <- MCCodes
    RingCap = 1
    MaxEntries = 2
    MaxRetries = 1
    UseObserverApi = TRUE
    MaxTimeout = 2
    MaxRuns = 2
    MaxCrashes = 1
    MaxFailures = 1
SPECIFICATION Spec
CHECK_DEADLOCK FALSE
PROPERTIES
    DrainedOnDrop
