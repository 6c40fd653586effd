CONSTANTS
    MemoryRequests = {r1, r2, r3}
    MemoryProjects = {p1, p2}
    MemoryTeams = {tm1}
    Texts = {t1, t2}
    Tags = {g1, g2}
    VaultProjects = {"v1", "v2", "v3"}
    SlugOf <- MCSlugOf
    Readers = {vr1, vr2}
    Writers = {vw1, vw2}
    MaxChanges = 2
    Clients = {u1}
    SignIns = {s1, s2}
    MaxPerUser = 1
    MaxLoginFails = 2
    MaxSessions = 2
    People = {n1, n2}
    AccountRequests = {a1, a2}
    MaxRequests = 4
    Devices = {d1}
    Browsers = {b1, b2}
    Pollers = {q1, q2}
    MaxTokens = 2
    Folders = {fa, fb}
    Uploads = {up1}
    Inits = {in1}
    MaxProjects = 2
    MaxFiled = 3
    Transcripts = {x1, x2}
    Hooks = {h1, h2}
    MaxVersion = 2
    MinFit = 2
    MaxBatch = 2
SPECIFICATION RequestsSpec
VIEW InFocus
INVARIANTS
    RequestsTypeOK
    VectorMatchesText
    CachedVaultIsFresh
    LockoutsEnd
    SomebodyCanApprove
    GivenTokensAreKnown
    FoldersStayApart
    MarksAreEarned
    RepeatsAreSkipped
PROPERTIES
    ForeignRowsUntouched
    DisconnectKeepsAccess
CHECK_DEADLOCK FALSE
