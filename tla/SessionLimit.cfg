CONSTANTS
    Clients = {u1}
    SignIns = {s1}
    MaxPerUser = 1
    MaxLoginFails = 2
    MaxSessions = 2
SPECIFICATION WebSessionsSpec
PROPERTY SessionLimit
CHECK_DEADLOCK FALSE
