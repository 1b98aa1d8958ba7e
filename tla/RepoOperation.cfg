SPECIFICATION FairSpec
CONSTANTS
    Ops = {p1, p2, p3}
    Repos = {r1}
    States = {s1, s2, s3}
    NoState = NoState
    NoCall = NoCall
    NoOp = NoOp
    Probes = {b}
    Hosts = {h}
    Dead = Dead
INVARIANTS
    TypeOK
    MutualExclusion
    NoLostWakeup
    EntryHasOwner
PROPERTIES
    RunningKeepsLock
    ImplementsMutex
    WaitersWake
