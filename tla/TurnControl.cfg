CONSTANTS
    c1 = c1
    Boot = {b1, b2}
    Turn = {t1, t2}
    Conv = {c1}
    ConvOf <- OneConversation
    TTL = 2
    MaxClock = 2
SYMMETRY Symmetry
SPECIFICATION Spec
INVARIANTS
    RowsAgree
    FencesDistinct
    InterruptHonoured
PROPERTIES
    StaleStaysStale
    OwnerKept
    KeepsPromise
CHECK_DEADLOCK FALSE
