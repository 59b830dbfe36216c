CONSTANTS
    Mps = 4
    HeaderLen = 2
    RxTotal = 6
    FrameLens = {1, 2}
    Numbers = 3
    RxSize = 8
    Dummy = 2
    Ids = 2
    MaxLinkFaults = 1
SPECIFICATION FairLinkSpec
PROPERTIES
    OwnAnswer
    FramesIntact
    FramesArrive
CHECK_DEADLOCK FALSE
