SPECIFICATION Spec
CONSTANTS
    c1 = c1
    c2 = c2
    c3 = c3
    Conns = {c1, c2, c3}
    NoConn = NoConn
    Listener = Listener
    Chunks = 2
    MaxAccept = 2
SYMMETRY Symmetry
INVARIANTS SlotAccounting SocketHasOneOwner BacklogNotForgotten
CHECK_DEADLOCK FALSE
