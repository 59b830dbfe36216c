\* Every request, lost handshakes that USB expects a device to survive, resets at any time.
CONSTANTS
    W = 16
    Mps = 2
    ReqBuf = 5
    MaxAddr = 2
    Requests <- MCRequests
    Loss = {"setup", "dataIn", "statusOut"}
    Aborts = {}
    BusResets = TRUE
SPECIFICATION FairSpec
INVARIANTS
    ActsOnRequest
    ReadyForSetup
    StagesAgree
    AddressInStep
PROPERTIES
    EveryRequestEnds
