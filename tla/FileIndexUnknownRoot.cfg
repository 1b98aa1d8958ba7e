SPECIFICATION Spec
CONSTANTS
    Snaps = {s1}
    Dirs = {d1}
    Root = Root
    Readers = {r1}
    NoKey = NoKey
    PrewarmLimit = 3
    MaxFaults = 0
    MaxMarks = 1
    MaxGen = 1
INVARIANT
    UnknownRootIsStale
CHECK_DEADLOCK FALSE
