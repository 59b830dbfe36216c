CONSTANTS
    Size = 4
    Wrap = 8
    BulkIn = 3
    Header = 1
    ReadLens = {1, 4}
    Numbers = 5
    SemMax = 2
    MaxFaults = 1
    MaxFresh = 2
SPECIFICATION FairSpec
INVARIANTS
    RoomForTransfers
PROPERTIES
    ImplementsStream
    BytesKeepComing
CHECK_DEADLOCK FALSE
