SPECIFICATION FairSpec
CONSTANTS
    c1 = c1
    c2 = c2
    w1 = w1
    w2 = w2
    Conns = {c1, c2}
    NoConn = NoConn
    Workers = {w1, w2}
    Length = 3
INVARIANTS OneTaskPerSocket AnswerIsIntact
PROPERTIES PoolSide HandedOverIsClosed
CHECK_DEADLOCK FALSE
