CONSTANTS
    t1 = t1
    t2 = t2
    Turn = {t1, t2}
    Bounds <- MCBounds
SPECIFICATION Spec
INVARIANTS
    WakeKept
    RunnerSound
PROPERTIES
    ReadyTurnsDriven
CHECK_DEADLOCK FALSE
