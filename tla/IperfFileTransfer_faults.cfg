SPECIFICATION FairSpec
CONSTANTS
    NumStreams = 1
    NumFiles = 1
    MaxBlocks = 2
    IntBits = 8
    MaxRetry = 1
    ReadyWaits = 1
    DoneWaits = 1
    FaultKinds = {"nokey", "sigint", "ctrl", "denied", "connfail", "dataclosed", "senderr", "full", "open", "disk", "decompress"}
    MaxFaults = 2
CHECK_DEADLOCK FALSE
INVARIANTS
    TypeOK
    FileIntact
PROPERTIES
    InterruptEnds
