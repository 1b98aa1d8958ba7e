SPECIFICATION FairSpec
CONSTANTS
    Snaps = {s1, s2}
    Jobs = {j1}
    NoSnap = NoSnap
    MaxFaults = 1
    MaxAsks = 1
INVARIANTS
    TypeOK
    SuccessShowsListing
    SuccessHasConfig
PROPERTIES
    ImplementsCache
    LoadsEnd
    MetadataRecovers
CHECK_DEADLOCK FALSE
