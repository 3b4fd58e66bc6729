CONSTANTS
    Conn = {c1, c2}
    Addr = {a1, a2}
    Fd <- TwoFds
    Node = {n1, n2, n3, n4, n5, n6}
    Piece = {"keep", "once", "inv"}
    MaxSend = 2
    Timeout = 1
    MaxBuf = 2
    Departure = {"shut", "reset"}
    None = None
    Listen = Listen
SPECIFICATION Spec
SYMMETRY Sym
INVARIANTS
    RecordsAgree
    NothingLost
    BufferFits
PROPERTIES
    ClosedOnlyWhenIdle
CHECK_DEADLOCK FALSE
