CONSTANTS
    HasInstincts = TRUE
    Tick = 2
    MaxWakes = 2
    MaxRestarts = 1
    Callers = {c1}
    MaxWeek = 2
    MaxPerWeek = 2
    Notes = {n1, n2}
    MaxSecond = 3
    MaxSaves = 3
    Habits = {"habit"}
    Critics = {k1, k2}
    MaxObserved = 5
    Kinds <- MCKinds
    Consecutive = 2
    Cooldown = 2
    Interval = 2
    MaxQueue = 4
    Providers = {1}
    Priorities = {1}
    EnvProvider = TRUE
    Workers = {w1, w2}
    Retries = 2
    MaxAgain = 1
    InputRate = 1
    OutputRate = 3
    MaxBooked = 1
    Day = 8
    MaxLength = 30
    MaxWindow = 6
    MaxFull = 4
SPECIFICATION JobsSpec
INVARIANTS
    JobsTypeOK
    DigestsCoverTheirWeek
    ObservationsAreCounted
    LastNoticeIsTrue
    WindowsMatchTheClock
    WholeTextIsRead
PROPERTIES
    StopEndsIt
    RunNowIsServed
    SkippedIsCovered
    ReportsKeepTheirDistance
    EveryCallEnds
CHECK_DEADLOCK FALSE
