CONSTANTS
    Host = {h1, h2}
    Turn = {t1, t2}
    Dead = Dead
    Nobody = Nobody
    MaxExits = 1
    MaxStalls = 1
    MaxAsks = 1
    MaxEdits = 1
    MaxStops = 2
SPECIFICATION Spec
INVARIANTS
    LiveOwnerTracks
    DrivesSound
    QueueWatched
SYMMETRY Symmetry
CHECK_DEADLOCK FALSE
