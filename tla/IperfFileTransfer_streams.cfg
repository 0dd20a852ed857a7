SPECIFICATION Spec
CONSTANTS
    NumStreams = 2
    NumFiles = 2
    MaxBlocks = 2
    IntBits = 8
    MaxRetry = 0
    ReadyWaits = 0
    DoneWaits = 1
    FaultKinds = {"full", "open", "disk"}
    MaxFaults = 1
CHECK_DEADLOCK FALSE
INVARIANTS
    FileIntact
    AllFilesReceived
    FinishedMeansAcked
PROPERTIES
    DeliverySpec
