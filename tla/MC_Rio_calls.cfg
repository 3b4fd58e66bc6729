CONSTANTS
    Nl = Nl
    None = None
    Stream <- Lines
    RIO_BUF_SIZE = 2
    SndBuf = 2
    Size = {1, 4}
    Call = {"line", "n_b", "n", "write"}
    Mode = {TRUE, FALSE}
SPECIFICATION Spec
INVARIANTS
    ReadsRight
PROPERTIES
    CallsReturn
CHECK_DEADLOCK FALSE
