SPECIFICATION Spec
CONSTANTS
    Conns = {c1}
    BroadcastCap = 1
    SendCap = 1
    MaxLines = 3
    MaxFaults = 1
INVARIANT
    HubSurvivesRemoval
CHECK_DEADLOCK FALSE
