CONSTANTS
    NPorts = 2
    StableReads = 2
    MaxReads = 4
    MqLimit = 2
    LateUnplug = FALSE
    MaxPlugs = 5
    MaxFaults = 1
SPECIFICATION FairSpec
INVARIANTS
    NothingStale
    OwnHub
PROPERTIES
    PortsSettle
CHECK_DEADLOCK FALSE
