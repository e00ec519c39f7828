CONSTANTS
    Radios = {0, 1}
    Streams = {{0}, {1}, {0, 1}}
    RxFilters = {"c", "b"}
    TxFilters = {"b"}
    TimeSources = {"internal", "external", "gpsdo"}
    Rates = {2, 4}
    Situations <- MCSituations
    MinRate = 2
    MaxRate = 4
    InitialRate = 2
SPECIFICATION Spec
INVARIANTS
    TypeOK
    RegistersFollowState
    AcceptedClockIsSet
    MimoMatchesChains
    LiveStreamIsConnected
    RateWithinLimits
PROPERTIES
    WholeWordHeals
