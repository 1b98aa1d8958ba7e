SPECIFICATION FairSpec
CONSTANTS
    Snaps = {s1}
    Dirs = {d1}
    Root = Root
    Readers = {r1}
    NoKey = NoKey
    PrewarmLimit = 3
    MaxFaults = 1
    MaxMarks = 1
    MaxGen = 1
INVARIANTS
    TypeOK
    RunningHasWorker
    DirGenerationMatches
PROPERTIES
    RequestsAreTaken
CHECK_DEADLOCK FALSE
