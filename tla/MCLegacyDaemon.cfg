CONSTANTS
    detail = detail
    timestamp = timestamp
    signal = signal
    none = none
    Configs <- MCConfigs
    NoName = none
    AllowedPrefixes <- MCPrefixes
    Maps <- MCMaps
    Supported <- MCSupported
    Disruptive = signal
    OffsetsApi = TRUE
    MonitorDisruptive = TRUE
    IntMax = 3
    Forever = Forever
    NoOne = NoOne
    RingCap = 1
    MaxFailures = 1
SPECIFICATION BusySpec
CHECK_DEADLOCK FALSE
INVARIANTS
    PolledToTheEnd
    OnlyAllowedAttached
    AbortsOnDuplicate
PROPERTIES
    EndsWithEvents
