CONSTANTS
    Size = 2
    Wrap = 4
    Frames = {f1, f2}
    None = None
    ReadLen = 2
    BufLen = 4
    Lengths = {1, 4, 7, 10}
    Numbers = 3
    MaxConfigured = 2
SPECIFICATION FairSpec
INVARIANTS
    OnePlace
PROPERTIES
    ImplementsQueue
    FramesKeepComing
