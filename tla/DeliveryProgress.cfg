SPECIFICATION Spec
CONSTANTS
    Host = {h1}
    t1 = t1  t2 = t2  t3 = t3  t4 = t4
    process = process  answer = answer
    Turn = {t1, t2}
    NoTurn = NoTurn
    First = t1
    Item = {process}
    Answer = {}
    Source <- AllFromFirst
    Continuation <- ContinuesAs
    MaxFailures = 2
    MaxThrows = 1
    MaxExits = 1
    MaxStops = 2
INVARIANTS AckKept
PROPERTY EveryResultDelivered
CHECK_DEADLOCK FALSE
