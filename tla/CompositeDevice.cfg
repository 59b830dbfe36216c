CONSTANTS
    Intfs = {0, 1, 2}
    Alts <- MCAlts
    OutEndpoints = {"out1", "out2"}
    InEndpoints = {"in3"}
    Listens = {"out1"}
    Reads = {"out2"}
    ConfigValue = 1
    MaxAddr = 1
    Blocks = 2
    BlockFaults = TRUE
    ReplyLoss = TRUE
    AudioIntfs = {1}
    VideoIntfs = {2}
    VolWord = 16
    VolUnit = 2
    QuietDb = 2
    FrameLens = {1, 4, 5}
    Payload = 2
    MaxFrames = 2
    Duplex = FALSE
    Wanted = {"shell", "sync"}
SPECIFICATION FairSpec
INVARIANTS
    Serves
    AnswersTruly
    AwakeWhenActive
    WholeImages
PROPERTIES
    FramesWhole
    UpdateEnds
    ChatGoesOn
