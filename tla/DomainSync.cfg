SPECIFICATION Spec
CONSTANTS
    Creds = {c1, c2}
    First = c1
    Users = {u1, u2}
    MaxUpdates = 3
    MaxGen = 2
    MaxFaults = 2
INVARIANTS
    TypeOK
    SuccessShowsListing
    SuccessIsCurrent
    FailureKeepsRows
    RunningIsLoading
PROPERTY
    ImplementsCache
CHECK_DEADLOCK FALSE
SYMMETRY RequestSymmetry
