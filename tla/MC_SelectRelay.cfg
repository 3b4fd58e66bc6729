CONSTANTS
    Client = {c1, c2, c3}
    listenfd = 0
    LastFd = 2
    FD_SETSIZE = 3
    MaxSend = 1
    Key = {"quit", "other"}
SPECIFICATION Spec
INVARIANTS
    TableRight
    ReadsOnlyReady
    Relays
PROPERTIES
    ReadInTheEnd
CHECK_DEADLOCK FALSE
