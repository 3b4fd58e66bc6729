CONSTANTS
    Client = {c1, c2}
    BUF_SIZE = 2
    MaxSent = 3
SPECIFICATION Spec
INVARIANT OthersGetIt
CHECK_DEADLOCK FALSE
