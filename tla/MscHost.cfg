\* Every call, errors of the medium, a transfer that times out early but in the data of a write, unplugging at any time.
CONSTANTS
    W = 64
    W16 = 16
    Mps = 4
    BlkSize = 8
    BlkNbr = 62
    BufSize = 16
    CbwLen = 3
    CswLen = 1
    RespLen <- MCRespLen
    Commands = {}
    Recoveries = {}
    Impatient = FALSE
    MediaFaults = {"read", "write"}
    Calls <- MCCalls
    ReadyTries = 2
    Timeouts = {"dataIn", "status"}
SPECIFICATION HostSpec
INVARIANTS
    SuccessIsReal
