SPECIFICATION FairSpec
CONSTANTS
    Procs = {p1, p2}
    Tasks = {t1}
    NoProc = NoProc
    NoCall = NoCall
INVARIANTS
    TypeOK
    OneRunAtATime
    MarksHaveRuns
    CheckSettles
    RefusalIsFinal
PROPERTIES
    ReservationIsMutex
    RunsEnd
