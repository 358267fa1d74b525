SPECIFICATION Spec
CONSTANTS
    Host = {h1, h2}
    t1 = t1  t2 = t2  t3 = t3  t4 = t4
    process = process  answer = answer
    Turn = {t1, t2}
    NoTurn = NoTurn
    First = t1
    Item = {process}
    Answer = {}
    Source <- AllFromFirst
    Continuation <- ContinuesAs
    MaxFailures = 1
    MaxThrows = 1
    MaxExits = 0
    MaxStops = 2
SYMMETRY Symmetry
INVARIANTS NoDeadWait FinalIsFinal
PROPERTY SettledOnce
CHECK_DEADLOCK FALSE
