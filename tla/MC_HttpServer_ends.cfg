CONSTANTS
    Conn = {c1, c2}
    Addr = {a1, a2}
    Fd <- OneFd
    Node = {n1, n2, n3, n4}
    Piece = {"keep", "bad", "inv"}
    MaxSend = 1
    Timeout = 1
    MaxBuf = 2
    Departure = {"shut", "reset"}
    None = None
    Listen = Listen
SPECIFICATION Spec
PROPERTIES
    EveryConnectionEnds
CHECK_DEADLOCK FALSE
