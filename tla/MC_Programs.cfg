CONSTANTS
    None = None
    Best = {0, 20}
    Charset = {"x", "blank", "quote", "high", "eof"}
    ConfLine <- ConfLines
    ConfFile <- Confs
    BUF_LEN = 8
    EchoClient = {"a", "b"}
    EchoChar <- EchoChars
    EchoLine <- EchoLines
    MAX_LINE = 5
    MaxLine = 2
    COL = 3
    ROW = 3
    MaxLen = 6
    ROWS = 5
    COLS = 10
    STEP = 5
    WIDTH = 2
    WALLS = 3
    Height <- Heights
    WallGap <- Gaps
    Ticker = 1
    MinY <- Highest
    FileBlocks = 2
    MaxCall = 3
    Length <- Lengths
    Asked <- Names
    ListLen = 2
    MaxCmd = 3
    MaxOther = 1

SPECIFICATION Spec

INVARIANTS
    GameSound
    AnswersMatch
    RootKept
    SortsAll
    KeepsAll
    WellFormed
    Compact
    EchoOwn
    OnePiece
    FliesFree
    TellsTrue
    TransfersRight
