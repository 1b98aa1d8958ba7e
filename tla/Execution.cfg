SPECIFICATION FairSpec
CONSTANTS
    Conns = {c1}
    BroadcastCap = 1
    SendCap = 1
    MaxLines = 3
    MaxFaults = 1
INVARIANTS
    TypeOK
    NoGap
    InOrder
    EndsAgree
PROPERTIES
    LogEnds
    CompleteOrClosed
CHECK_DEADLOCK FALSE
