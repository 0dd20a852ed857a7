SPECIFICATION FairSpec
CONSTANTS
    NumStreams = 1
    Protocol = 1
    MaxConnectRetry = 1
    TestTicks = 1
    IntervalTicks = 2
    ReadyWaits = 1
    DoneWaits = 1
    DyingTicks = 1
    FaultKinds = {"nokey", "sigint", "ctrl", "connfail", "dataclosed", "senderr", "server"}
    MaxFaults = 2
CHECK_DEADLOCK FALSE
INVARIANTS
    TypeOK
    NoThreadRestart
    MessageHasTest
PROPERTIES
    
    SenderTerminates
    ReceiverCleansUp
