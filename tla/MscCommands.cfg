\* Every command, no error of the medium, any recovery after a stall.
CONSTANTS
    W = 64
    W16 = 16
    Mps = 4
    BlkSize = 8
    BlkNbr = 62
    BufSize = 8
    CbwLen = 3
    CswLen = 1
    RespLen <- MCRespLen
    Commands <- MCServable
    Recoveries = {"bus", "class", "config"}
    Impatient = FALSE
    MediaFaults = {}
SPECIFICATION FairSpec
INVARIANTS
    ReadyForCommand
    HonestStatus
    ReadPosition
    WritePosition
    MediaInRange
PROPERTIES
    ServiceResumes
