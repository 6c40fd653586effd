CONSTANTS
    u1 = u1
    u2 = u2
    p1 = p1
    p2 = p2
    Users = {u1}
    Projects = {p1}
    OwnerOf <- MCOwnerOf
    Facts = {f1}
    MaxKnacks = 0
    MaxSessions = 4
    MaxAnalyses = 1
    MaxCrashes = 1
    MaxAttempts = 2
    MaxPending = 1
    BatchSize = 1
SPECIFICATION FairSpec
INVARIANT
    BacklogBounded
PROPERTIES
    OwedRowsProgress
    EveryRowSettles
CHECK_DEADLOCK FALSE
