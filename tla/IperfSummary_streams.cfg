SPECIFICATION Spec
CONSTANTS
    NumStreams = 3
    Reliable = FALSE
    Bytes = {0, 5}
    Rates = {0, 25}
    BodyWords = 9
    Behind = {0, 102}
    FirstId = 100
CHECK_DEADLOCK FALSE
INVARIANTS
    TypeOK
    ReportsInStepArrive
