SPECIFICATION FairSpec
CONSTANTS
    NumStreams = 1
    NumFiles = 1
    MaxBlocks = 1
    IntBits = 8
    MaxRetry = 0
    ReadyWaits = 1
    DoneWaits = 1
    FaultKinds = {}
    MaxFaults = 0
CHECK_DEADLOCK FALSE
PROPERTIES
    SenderFinishes
