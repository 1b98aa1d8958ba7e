SPECIFICATION FairSpec
CONSTANTS
    Tasks = {t1, t2}
    Maintenance = {check, prune}
    MaxEdits = 2
    MaxFaults = 2
INVARIANTS
    TypeOK
    AlwaysScheduled
PROPERTIES
    SchedulePicksUp
CHECK_DEADLOCK FALSE
