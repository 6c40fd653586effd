CONSTANTS
    HasInstincts = TRUE
    Tick = 1
    MaxWakes = 1
    MaxRestarts = 0
SPECIFICATION CuratorSpec
PROPERTY RunNowKeepsTheGates
CHECK_DEADLOCK FALSE
