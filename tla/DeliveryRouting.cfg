SPECIFICATION Spec
CONSTANTS
    Host = {h1}
    t1 = t1  t2 = t2  t3 = t3  t4 = t4
    process = process  answer = answer
    Turn = {t1, t2, t3, t4}
    NoTurn = NoTurn
    First = t1
    Item = {process, answer}
    Answer = {answer}
    Source <- AllFromFirst
    Continuation <- ContinuesAs
    MaxFailures = 1
    MaxThrows = 0
    MaxExits = 0
    MaxStops = 1
INVARIANTS InputsSound FinalReadsAll
CHECK_DEADLOCK FALSE
