CONSTANTS
    Host = {h1, h2}
    Turn = {t1, t2}
    Dead = Dead
    Nobody = Nobody
    MaxExits = 1
    MaxStalls = 0
    MaxAsks = 1
    MaxEdits = 0
    MaxStops = 1
SPECIFICATION Spec
PROPERTIES
    TurnsProgress
    QueuedRuns
CHECK_DEADLOCK FALSE
