CONSTANTS
    HasInstincts = TRUE
    Tick = 1
    MaxWakes = 0
    MaxRestarts = 0
SPECIFICATION CuratorSpec
PROPERTY PauseHolds
CHECK_DEADLOCK FALSE
