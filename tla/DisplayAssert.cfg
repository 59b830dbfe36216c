CONSTANTS
    Size = 2
    Wrap = 4
    Frames = {f1, f2}
    None = None
    ReadLen = 2
    BufLen = 4
    Lengths = {2, 7}
    Numbers = 3
    MaxConfigured = 2
SPECIFICATION Spec
INVARIANTS
    AssertionHolds
