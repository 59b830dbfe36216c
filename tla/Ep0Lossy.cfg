\* Every handshake gets lost, every stage is called off, and the bus is reset at any time.
CONSTANTS
    W = 16
    Mps = 2
    ReqBuf = 5
    MaxAddr = 2
    Requests <- MCFewer
    Loss = {"setup", "dataIn", "lastIn", "dataOut", "statusIn", "statusOut"}
    Aborts = {"again", "dataIn", "dataOut", "resend", "statusIn", "statusOut"}
    BusResets = TRUE
SPECIFICATION Spec

    
PROPERTIES
    ImplementsPipe
