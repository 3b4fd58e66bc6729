---------------------------- MODULE MC_Programs -----------------------------
(***************************************************************************)
(* The smaller programs of the repository, and the parts of the HTTP       *)
(* server that work without the others, each on a small instance.  A       *)
(* behaviour is one of one program.                                        *)
(***************************************************************************)
EXTENDS Integers, Sequences

CONSTANTS
    None,     \* nothing: no number, no character, no command
    Best,     \* 2048: what the file of the best score may hold
    Charset,  \* the JSON formatter: characters
    ConfLine, ConfFile, BUF_LEN,               \* the start of the HTTP server
    EchoClient, EchoChar, EchoLine, MAX_LINE, MaxLine, \* the echo server
    COL, ROW, MaxLen,                          \* the snake
    ROWS, COLS, STEP, WIDTH, WALLS, Height, WallGap, Ticker, MinY, \* the bird
    FileBlocks, MaxCall,                       \* the FTP library
    Length, Asked, ListLen, MaxCmd, MaxOther   \* the FTP sample

\* the sequences of at most n members of S
UpTo(n, S) == UNION {[1..k -> S] : k \in 0..n}

\* a uri with a dot, one without, another, a long one
Uris ==
    LET uri(path, dot, long) == [path |-> path, slash |-> FALSE, dot |-> dot, long |-> long]
    IN [a |-> uri("a", TRUE, FALSE), d |-> uri("d", FALSE, FALSE),
        b |-> uri("b", TRUE, FALSE), l |-> uri("x", TRUE, TRUE)]

Requests ==
    LET field(k, v, crlf) == [key |-> k, value |-> v, crlf |-> crlf]
        alive == field("Connection", "keep-alive", TRUE)
        ask(u, line, heads) == [uri |-> u, line |-> line, heads |-> heads]
    IN {ask("a", "good", << >>), ask("a", "good", <<alive>>), ask("b", "good", <<alive>>),
        ask("l", "good", <<alive>>), ask("a", "bad", <<alive>>), ask("a", "method", <<alive>>),
        ask("a", "lf", <<field("If-Modified-Since", "mtime", TRUE), alive>>),
        ask("a", "good", <<field("Connection", "keep-alive", FALSE), field("Host", "", TRUE)>>),
        ask("d", "good", <<field("Host", "h", TRUE)>>)}

\* the lines of a configuration, each with its length; one key is not known
ConfLines ==
    LET line(k, v, n) == [key |-> k, value |-> v, size |-> n]
    IN {line("root", "r1", 2), line("root", "r2", 3), line("port", "p", 2),
        line("thread_num", "t", 1), line("threadnum", "t", 2), line(None, "x", 1)}

Confs == UpTo(4, ConfLines)

\* arrays of numbers, one of them with a bucket for each of three threads
Low == -1
Numbers == UpTo(2, Low..3) \cup [1..5 -> 0..1] \cup {<<2, 0, 1, 2, 1, 0, 0, 2, 1>>}

EchoChars == EchoClient \cup {"\n"}

\* what fgets may return: with and without the end of a line, as long as it may be
EchoLines ==
    [c \in EchoClient |-> {<<"\n">>, <<c>>, <<c, "\n">>, <<c, c, "\n">>, <<c, c, c>>,
                           <<c, c, c, "\n">>, <<c, c, c, c>>}]

\* a file of two blocks and an empty one
Lengths == [f \in {"f", "e"} |-> IF f = "e" THEN 0 ELSE 2]

\* and one that is not there
Names == {"f", "e", "x"}

Heights == {1, 2}
Gaps == {2}
Highest == -2

ASSUME ProgramsAssumption ==
    /\ ConfFile \subseteq Seq(ConfLine) /\ BUF_LEN \in Nat
    /\ \A l \in ConfLine : l.size \in Nat
    /\ MAX_LINE \in Nat /\ MAX_LINE > 2 /\ None \notin EchoClient \cup EchoChar
    /\ \A c \in EchoClient : \A s \in EchoLine[c] :
           /\ s \in Seq(EchoChar) /\ Len(s) < MAX_LINE
           /\ \A i \in 1..(Len(s) - 1) : s[i] # "\n"
    /\ ListLen \in Nat /\ \A f \in DOMAIN Length : Length[f] \in Nat

VARIABLES
    program, \* the one that runs, and its variables in their order
    m1, m2, m3, m4, m5, m6, m7, m8, m9, m10, m11, m12, m13, m14, m15, m16, m17

Game == INSTANCE Game2048 WITH
    ROW <- 2, COL <- 2, m_winFlag <- 8, m_map <- m1, m_empty <- m2,
    m_score <- m3, m_bestScore <- m4, m_maxNumber <- m5, m_old_row <- m6,
    gameOverFlag <- m7, main <- m8, thread <- m9, file <- m10, record <- m11,
    faults <- m12, caught <- m13

Row == INSTANCE Game2048 WITH
    ROW <- 1, COL <- 4, m_winFlag <- 8, m_map <- m1, m_empty <- m2,
    m_score <- m3, m_bestScore <- m4, m_maxNumber <- m5, m_old_row <- m6,
    gameOverFlag <- m7, main <- m8, thread <- m9, file <- m10, record <- m11,
    faults <- m12, caught <- m13

Http == INSTANCE HttpParse WITH
    Target <- Uris, Request <- Requests, MaxReq <- 2, asked <- m1,
    stream <- m2, last <- m3, pos <- m4, state <- m5, list <- m6, pc <- m7,
    p <- m8, s <- m9, key <- m10, value <- m11, answers <- m12, uri <- m13,
    cut <- m14

Start == INSTANCE ServerStart WITH
    File <- ConfFile, pc <- m1, file <- m2, conf_buf <- m3, current_pos <- m4,
    cf <- m5, listen_fd <- m6, read <- m7

Bucket == INSTANCE BucketSort WITH
    File <- Numbers, Number <- Low..3, MaxThreads <- 3, LOWER_INFINITE <- Low,
    UPPER_INFINITE <- 2, pc <- m1, k <- m2, arr <- m3, final_splitter <- m4,
    elements_in_bucket <- m5, thread <- m6, sorted <- m7

Fixed == INSTANCE FixedBuckets WITH
    File <- UpTo(4, (Low..5) \cup {None}), Number <- Low..5, BUCKET_NUM <- 3,
    BUCKET_SIZE <- 2, threads <- m1, pc <- m2, arr <- m3, given <- m4,
    buckets <- m5, param <- m6, sorted <- m7

Writer == INSTANCE JsonWriter WITH
    Str <- {<< >>, <<"newline", "quote">>}, MaxCall <- 6, MaxDepth <- 2,
    out <- m1, depth <- m2, conf <- m3, caller <- m4, calls <- m5, raw <- m6

Formatter == INSTANCE JsonFormatter WITH
    Text <- UpTo(5, Charset), program <- m1, pc <- m2, src <- m3, ptr <- m4,
    token <- m5, markFlag <- m6, result <- m7

Echo == INSTANCE EchoServer WITH
    Client <- EchoClient, Line <- EchoLine,
    version <- m1, at <- m2, first <- m3, lines <- m4, in <- m5, out <- m6,
    answer <- m7, ended <- m8, buffer <- m9, listen <- m10, conn <- m11,
    n <- m12

Snake == INSTANCE SmartSnake WITH
    pc <- m1, dir <- m2, coor <- m3, food <- m4, isEat <- m5

Flappy == INSTANCE FlappyBird WITH
    pc <- m1, cursor <- m2, screen <- m3, bird_y <- m4, reg <- m5, walls <- m6,
    ticker <- m7, timer <- m8, stray <- m9, Gap <- WallGap

Library == INSTANCE FtpLibrary WITH
    Blocks <- FileBlocks,
    pc <- m1, fn <- m2, calls <- m3, cmd <- m4, asked <- m5, answered <- m6,
    result <- m7, returned <- m8, todo <- m9, replies <- m10, server <- m11,
    served <- m12, data <- m13, put <- m14, got <- m15, lost <- m16, short <- m17

Ftp == INSTANCE FtpSample WITH
    client <- m1, child <- m2, toChild <- m3, cmd <- m4, toClient <- m5,
    user <- m6, typed <- m7, listens <- m8, dataOpen <- m9, dataEnd <- m10,
    pos <- m11, served <- m12, data <- m13, reply <- m14, got <- m15, ahead <- m16, foreign <- m17

\* a variable that the program does not have is 0
Init ==
    \/ program = "2048" /\ Game!Init /\ m14 = 0 /\ m15 = 0 /\ m16 = 0 /\ m17 = 0
    \/ program = "row" /\ Row!Init /\ m14 = 0 /\ m15 = 0 /\ m16 = 0 /\ m17 = 0
    \/ program = "http" /\ Http!Init /\ m15 = 0 /\ m16 = 0 /\ m17 = 0
    \/ program = "start" /\ Start!Init /\ m8 = 0 /\ m9 = 0 /\ m10 = 0 /\ m11 = 0 /\ m12 = 0 /\ m13 = 0 /\ m14 = 0 /\ m15 = 0 /\ m16 = 0 /\ m17 = 0
    \/ program = "bucket" /\ Bucket!Init /\ m8 = 0 /\ m9 = 0 /\ m10 = 0 /\ m11 = 0 /\ m12 = 0 /\ m13 = 0 /\ m14 = 0 /\ m15 = 0 /\ m16 = 0 /\ m17 = 0
    \/ program = "fixed" /\ Fixed!Init /\ m8 = 0 /\ m9 = 0 /\ m10 = 0 /\ m11 = 0 /\ m12 = 0 /\ m13 = 0 /\ m14 = 0 /\ m15 = 0 /\ m16 = 0 /\ m17 = 0
    \/ program = "writer" /\ Writer!Init /\ m7 = 0 /\ m8 = 0 /\ m9 = 0 /\ m10 = 0 /\ m11 = 0 /\ m12 = 0 /\ m13 = 0 /\ m14 = 0 /\ m15 = 0 /\ m16 = 0 /\ m17 = 0
    \/ program = "formatter" /\ Formatter!Init /\ m8 = 0 /\ m9 = 0 /\ m10 = 0 /\ m11 = 0 /\ m12 = 0 /\ m13 = 0 /\ m14 = 0 /\ m15 = 0 /\ m16 = 0 /\ m17 = 0
    \/ program = "echo" /\ Echo!Init /\ m13 = 0 /\ m14 = 0 /\ m15 = 0 /\ m16 = 0 /\ m17 = 0
    \/ program = "snake" /\ Snake!Init /\ m6 = 0 /\ m7 = 0 /\ m8 = 0 /\ m9 = 0 /\ m10 = 0 /\ m11 = 0 /\ m12 = 0 /\ m13 = 0 /\ m14 = 0 /\ m15 = 0 /\ m16 = 0 /\ m17 = 0
    \/ program = "bird" /\ Flappy!Init /\ m10 = 0 /\ m11 = 0 /\ m12 = 0 /\ m13 = 0 /\ m14 = 0 /\ m15 = 0 /\ m16 = 0 /\ m17 = 0
    \/ program = "library" /\ Library!Init
    \/ program = "ftp" /\ Ftp!Init

Next ==
    \/ program = "2048" /\ Game!Next /\ UNCHANGED <<program, m14, m15, m16, m17>>
    \/ program = "row" /\ Row!Next /\ UNCHANGED <<program, m14, m15, m16, m17>>
    \/ program = "http" /\ Http!Next /\ UNCHANGED <<program, m15, m16, m17>>
    \/ /\ program = "start" /\ Start!Next
       /\ UNCHANGED <<program, m8, m9, m10, m11, m12, m13, m14, m15, m16, m17>>
    \/ /\ program = "bucket" /\ Bucket!Next
       /\ UNCHANGED <<program, m8, m9, m10, m11, m12, m13, m14, m15, m16, m17>>
    \/ /\ program = "fixed" /\ Fixed!Next
       /\ UNCHANGED <<program, m8, m9, m10, m11, m12, m13, m14, m15, m16, m17>>
    \/ /\ program = "writer" /\ Writer!Next
       /\ UNCHANGED <<program, m7, m8, m9, m10, m11, m12, m13, m14, m15, m16, m17>>
    \/ /\ program = "formatter" /\ Formatter!Next
       /\ UNCHANGED <<program, m8, m9, m10, m11, m12, m13, m14, m15, m16, m17>>
    \/ program = "echo" /\ Echo!Next /\ UNCHANGED <<program, m13, m14, m15, m16, m17>>
    \/ /\ program = "snake" /\ Snake!Next
       /\ UNCHANGED <<program, m6, m7, m8, m9, m10, m11, m12, m13, m14, m15, m16, m17>>
    \/ /\ program = "bird" /\ Flappy!Next
       /\ UNCHANGED <<program, m10, m11, m12, m13, m14, m15, m16, m17>>
    \/ program = "library" /\ Library!Next /\ UNCHANGED program
    \/ program = "ftp" /\ Ftp!Next /\ UNCHANGED program

vars == <<program, m1, m2, m3, m4, m5, m6, m7, m8, m9, m10, m11, m12, m13, m14, m15,
            m16, m17>>

Spec == Init /\ [][Next]_vars


-----------------------------------------------------------------------------
\* m_empty counts the free cells, no cell passes the number that wins, and a
\* game does not lose the best score, unless it is stopped or read while it is
\* written (2048 game.c:184, client.c:96).
GameSound ==
    /\ program = "2048" => Game!GameSound
    /\ program = "row" => Row!GameSound

\* Every request of a client that is kept has its answer, and from its own headers,
\* but for one after a request that was refused, and on connections where a read
\* has ended within headers (http_request.c:71, http_parse.c:378); one that came in
\* one piece with the request before it may lie unanswered (http.c:57).
AnswersMatch == program = "http" => Http!AnswersMatch

\* root points to the value of its last line (util.c:95).
RootKept == program = "start" => Start!RootKept

\* The places counted for a thread are those it fills
\* (multi_thread_bucket_sort_new.c:141).
SortsAll == program = "bucket" => Bucket!SortsAll

\* The buckets give back every number, in order, unless one was too small
\* (multi_thread_bucket_sort.c:82).
KeepsAll == program = "fixed" => Fixed!KeepsAll

\* What is written is the beginning of a JSON text, if every int8_t, uint8_t,
\* infinity and nan in it is taken for a number (json_writer.cpp:58, .hpp:136).
WellFormed == program = "writer" => Writer!WellFormed

\* The blanks outside of strings are gone, all else is there
\* (getStringSecond.c:52).
Compact == program = "formatter" => Formatter!Compact

\* A client is sent its own line, though one buffer serves all
\* (echo_server.c:68).
EchoOwn == program = "echo" => Echo!EchoOwn

\* The snake is one piece and bites itself nowhere while it moves
\* (snake.c:65).
OnePiece == program = "snake" => Snake!OnePiece

\* The bird that flies on is in no wall but in its last column, wherever in main drop
\* has run, unless something was written beside the bird's place (func.c:23).
FliesFree == program = "bird" => Flappy!FliesFree

\* The library takes each reply for what it answers, unless one is lost or comes in
\* pieces, and a transfer that succeeded is whole, unless its loop was ended by an
\* error (THFTPAPI.c:84, :382 and :447).
TellsTrue == program = "library" => Library!TellsTrue

\* Client and child are at the same command, and a client that has read 226 over its
\* own child's connection has the whole file (ftclient.c:109, ftserve.c:83 and :156).
TransfersRight == program = "ftp" => Ftp!TransfersRight
=============================================================================
