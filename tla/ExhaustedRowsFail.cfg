CONSTANTS
    u1 = u1
    u2 = u2
    p1 = p1
    p2 = p2
    Users = {u1}
    Projects = {p1}
    OwnerOf <- MCOwnerOf
    Facts = {f1}
    MaxKnacks = 1
    MaxSessions = 2
    MaxAnalyses = 0
    MaxCrashes = 1
    MaxAttempts = 1
    MaxPending = 1
    BatchSize = 1
SPECIFICATION Spec
INVARIANT ExhaustedRowsFail
CHECK_DEADLOCK FALSE
