\* Lost handshakes, stalls, cleared halts and another alternate setting at any point.
CONSTANTS
    W = 8
    Mps = 2
    Reads <- MCReads
    Writes <- MCWrites
    Packets <- MCPackets
    Alts = {1}
SPECIFICATION FairSpec
INVARIANTS
    ExactlyOnce
    InOrder
    TransferFits
PROPERTIES
    PacketSettled
    WriteEnds
