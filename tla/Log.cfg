SPECIFICATION Spec
CONSTANTS
    RBUFSIZE = 4
    MBUFSIZE = 8
    MAX_CALLBACKS = 2
    Levels = {0}
    Lengths = {1, 2, 5}
    Handlers = {1, 2}
    MaxLogs = 6
CHECK_DEADLOCK FALSE
INVARIANTS
    HoldsMostRecent
PROPERTIES
    GivesUpForRoom
    NobodyMissed
