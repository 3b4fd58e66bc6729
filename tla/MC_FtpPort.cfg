CONSTANTS
    Client = {c1, c2}
    Host <- OneHost
    Length <- ShortFiles
    Asked = {"a", "missing"}
    ListLen = 1
    Account = {"lisi"}
    Word = {"lisi"}
    NameFront <- Fronts
    PassFront <- Fronts
    LOGIN_COUNT = 1
    MaxCmd = 1
    None = None
SPECIFICATION Spec
INVARIANTS
    DataIsOwn
CHECK_DEADLOCK FALSE
