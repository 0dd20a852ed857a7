SPECIFICATION FairSpec
CONSTANTS
    Clients = {c1, c2}
    Null = null
    c1 = c1
    c2 = c2
    IdOf <- DistinctIds
    DataPort <- OnePort
    DyingTicks = 0
    MaxInterrupted = 1
CHECK_DEADLOCK FALSE
INVARIANTS
    TypeOK
    OwnTest
    MessagesFindTheirTest
    NoWalkCut
PROPERTIES
    AbandonedTestsGo
    InterruptEndsServer
