SPECIFICATION FairSpec
CONSTANTS
    Snaps = {s1}
    Jobs = {j1}
    NoSnap = NoSnap
    MaxFaults = 1
    MaxAsks = 1
PROPERTY
    PlannerRepairs
CHECK_DEADLOCK FALSE
