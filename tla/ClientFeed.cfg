CONSTANTS
    c1 = c1
    c2 = c2
    Client = {c1, c2}
    QueueLimit = 1
    MaxResends = 1
    Bounds <- MCBounds
    NoFrame = NoFrame
    Unknown = Unknown
SPECIFICATION FairSpec
INVARIANTS
    IdleShowsAll
    FeedSound
    OneFaultHealed
PROPERTIES
    KeepsPromise
    CatchesUp
CHECK_DEADLOCK FALSE
