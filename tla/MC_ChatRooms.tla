---------------------------- MODULE MC_ChatRooms ----------------------------
(***************************************************************************)
(* The programs of the chat rooms, each on a small instance: the server    *)
(* and the client of the threaded room, the epoll, the select and the      *)
(* linux_client room.  A behaviour is one of one program.                  *)
(***************************************************************************)
EXTENDS Integers, FiniteSets, TLC

CONSTANTS
    Client, FewClients, \* connections
    UserName, User,     \* users
    Ulist, Main, Nil, Admin,
    Course,                    \* of the threaded room: what its clients do
    MaxPut, Shown,             \* of the threaded room's client,
    BUF_SIZE, MaxSent,         \* the epoll room,
    FD_SETSIZE,                \* the select and the linux_client room,
    MaxCame, MaxLines, Usage   \* and what the users of the latter do

\* three clients of which two leave the full room, three that talk, three of which
\* one may leave at any time, and two that leave and talk more
Courses ==
    {[comes |-> Client, said |-> 0, left |-> 2, orderly |-> TRUE],
     [comes |-> Client, said |-> 1, left |-> 0, orderly |-> FALSE],
     [comes |-> Client, said |-> 0, left |-> 1, orderly |-> FALSE]}
        \cup {[comes |-> S, said |-> 2, left |-> 2, orderly |-> FALSE]
                  : S \in {T \in SUBSET Client : Cardinality(T) = 2}}

\* three clients with all commands, and two that mute each other and talk more
Usages ==
    {[comes |-> Client, commands |-> {0, 1, 2, 31, 4, 71, 72, 44, 5, 6}, sent |-> 3, left |-> 1]}
        \cup {[comes |-> S, commands |-> {1, 4, 5}, sent |-> 4, left |-> 1]
                  : S \in {T \in SUBSET Client : Cardinality(T) = 2}}

ASSUME RoomsAssumption ==
    /\ IsFiniteSet(Client) /\ Nil \notin Client \cup Int
    /\ Ulist \notin Client \cup {Nil} /\ Main \notin Client
    /\ \A k \in Course : k.comes \subseteq Client
    /\ Admin # Nil /\ User \cap {Admin, Nil} = {}
    /\ FD_SETSIZE \in Nat /\ BUF_SIZE \in Nat /\ MaxPut \in Nat
    /\ "listenfd" \notin FewClients

VARIABLES
    program, \* the one that runs, and its variables in their order
    m1, m2, m3, m4, m5, m6, m7, m8, m9, m10, m11, m12, m13, m14, m15, m16, m17

Server == INSTANCE ThreadChat WITH
    Name <- UserName, pc <- m1, fd <- m2, next <- m3,
    crossed <- m4, alive <- m5, who <- m6, inbox <- m7, said <- m8,
    registered <- m9, useinfo <- m10, client_fd <- m11, databuf <- m12,
    freed <- m13, walk <- m14, course <- m15, cut <- m16

Cl == INSTANCE ChatClient WITH
    phase <- m1, input <- m2, next <- m3, crossed <- m4, insetflag <- m5,
    desnum <- m6, typed <- m7, last <- m8, arrived <- m9, mlist <- m10, rear <- m11,
    datum <- m12, gone <- m13, put <- m14, get <- m15, taken <- m16, entered <- m17

Epoll == INSTANCE EpollChat WITH
    Client <- FewClients, server <- m1, sock <- m2, unread <- m3, over <- m4,
    ready <- m5, events <- m6, clients_list <- m7, backlog <- m8, missed <- m9,
    sent <- m10, burst <- m11, parent <- m12, child <- m13, pipe <- m14

Select == INSTANCE SelectChat WITH
    None <- Nil, pc <- m1, fd <- m2, toServer <- m6, toClient <- m7, backlog <- m8,
    missed <- m9, up <- m10, clientSockets <- m11, currentClients <- m12,
    maxfd <- m13, allset <- m14, rset <- m15, quits <- m16, lines <- m17

Linux == INSTANCE LinuxChat WITH
    None <- Nil, pc <- m1, accounts <- m2, client <- m3, suser_mes <- m4, alive <- m5,
    toServer <- m6, toClient <- m7, msg <- m8, draft <- m9, sent <- m10,
    loaded <- m11, misled <- m12, overheard <- m13, usage <- m14

\* a variable that the program does not have is 0
Init ==
    \/ program = "server" /\ Server!Init /\ m17 = 0
    \/ program = "client" /\ Cl!Init
    \/ program = "epoll" /\ Epoll!Init /\ m15 = 0 /\ m16 = 0 /\ m17 = 0
    \/ program = "select" /\ Select!Init /\ m3 = 0 /\ m4 = 0 /\ m5 = 0
    \/ program = "linux" /\ Linux!Init /\ m15 = 0 /\ m16 = 0 /\ m17 = 0

Next ==
    \/ program = "server" /\ Server!Next /\ UNCHANGED <<program, m17>>
    \/ program = "client" /\ Cl!Next /\ UNCHANGED program
    \/ program = "epoll" /\ Epoll!Next /\ UNCHANGED <<program, m15, m16, m17>>
    \/ program = "select" /\ Select!Next /\ UNCHANGED <<program, m3, m4, m5>>
    \/ program = "linux" /\ Linux!Next /\ UNCHANGED <<program, m15, m16, m17>>

vars == <<program, m1, m2, m3, m4, m5, m6, m7, m8, m9, m10, m11, m12, m13, m14, m15,
            m16, m17>>

Spec == Init /\ [][Next]_vars

Symmetry ==
    Permutations(Client) \cup Permutations(User)

-----------------------------------------------------------------------------
\* Data for all reaches every user its sender counted, though others come and
\* go while the server walks its list (chat/server.c:164).
WalksReach == program = "server" => Server!WalksReach

\* Who is logged in is in the list, with a thread that reads its connection,
\* unless one of the races it names has happened (chat/server.c:79 and :394).
UsersKept == program = "server" => Server!UsersKept

\* The queues of the client hand over what they were given, complete and in
\* order, unless producer and consumer met in the last node (chat/client.c:81).
InOrder == program = "client" => Cl!InOrder

\* Nothing stays unread for an event that is not reported again, unless more
\* came for one event than the server takes (server.cpp:44).
NothingStranded == program = "epoll" => Epoll!NothingStranded

\* What one client sends reaches all others, whoever left in between
\* (chat_select/server.c:143).
EveryoneGetsIt == program = "select" => Select!EveryoneGetsIt

\* What is addressed to a user reaches that user, and a message names the one
\* who sent it, unless its sender was misled; muted clients
\* are not heard (linux_client/server_fun.h:120 and :298).
RightNames == program = "linux" => Linux!RightNames
=============================================================================
