SPECIFICATION Spec
CONSTANTS
    SendCnt = 1
    MaxQuota = 1
    MaxTimeoutCnt = 1
    MaxAttempts = 3
    EchoServer = TRUE
CHECK_DEADLOCK FALSE
INVARIANTS
    TypeOK
    ReadyWhenConnected
    HandlesNest
PROPERTIES
    ConnectionStable
    FailureIsRetried
    ClientEnds
    ServerFollowsClient
