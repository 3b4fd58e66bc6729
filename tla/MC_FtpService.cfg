CONSTANTS
    c1 = c1
    c2 = c2
    Client = {c1, c2}
    Host <- OneHost
    Length <- Files
    Asked = {"a", "b", "e", "missing"}
    ListLen = 1
    Account <- Accounts
    Word <- Words
    NameFront <- Fronts
    PassFront <- Fronts
    LOGIN_COUNT = 2
    MaxCmd = 3
    None = None
SPECIFICATION MCSpec
INVARIANTS
    Synchronised
    GotWhole
PROPERTIES
    CommandEnds
    ChildEnds
CHECK_DEADLOCK FALSE
