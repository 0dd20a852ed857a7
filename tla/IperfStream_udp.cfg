SPECIFICATION Spec
CONSTANTS
    Protocol = 11
    Threshold = 0
    HasShaper = FALSE
    MaxDatagrams = 4
    MaxSnapshots = 2
    MaxFull = 0
    MayFail = FALSE
    PeerMayFill = FALSE
    PeerMayStop = FALSE
CHECK_DEADLOCK FALSE
PROPERTIES
    IntervalLossExact
    SummaryLossBounded
