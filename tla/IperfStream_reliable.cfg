SPECIFICATION FairSpec
CONSTANTS
    Protocol = 1
    Threshold = 0
    HasShaper = TRUE
    MaxDatagrams = 2
    MaxSnapshots = 2
    MaxFull = 1
    MayFail = TRUE
    PeerMayFill = TRUE
    PeerMayStop = TRUE
CHECK_DEADLOCK FALSE
INVARIANTS
    TypeOK
    ReliableIntervalsLoseNothing
PROPERTIES
    StopLeadsToDone
