CONSTANTS
    MaxRetries = 2
    MaxDrives = 2
    MaxBeats = 1
    Nothing = Nothing
SPECIFICATION FairSpec
INVARIANTS
    RequestSound
    AnswerNotWasted
    StrandedRaced
PROPERTIES
    KeepsPromise
    TurnMovesOn
CHECK_DEADLOCK FALSE
