\* Errors of the medium and a host that gives up at any point, bus reset as the recovery; two sectors per buffer.
CONSTANTS
    W = 64
    W16 = 16
    Mps = 4
    BlkSize = 8
    BlkNbr = 62
    BufSize = 16
    CbwLen = 3
    CswLen = 1
    RespLen <- MCRespLen
    Commands <- MCTransfers
    Recoveries = {"bus"}
    Impatient = TRUE
    MediaFaults = {"read", "write"}
SPECIFICATION FairSpec
INVARIANTS
    TransferFits
PROPERTIES
    ServiceResumes
