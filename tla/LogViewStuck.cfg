SPECIFICATION ViewSpec
CONSTANTS
    Conns = {c1}
    BroadcastCap = 1
    SendCap = 1
    MaxLines = 0
    MaxFaults = 0
PROPERTY
    ViewCatchesUp
CHECK_DEADLOCK FALSE
