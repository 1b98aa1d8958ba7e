SPECIFICATION FairSpec
CONSTANTS
    Snaps = {s1, s2}
    Jobs = {j1}
    NoSnap = NoSnap
    MaxFaults = 0
    MaxAsks = 1
INVARIANT
    BackupAppears
CHECK_DEADLOCK FALSE
