----------------------------- MODULE SelectChat -----------------------------
(***************************************************************************)
(* The select chat room (chatroom/chat_select): a server with a table of   *)
(* its clients, which passes what one client sends on to the others, and   *)
(* the client, which waits for its user and the server at once.            *)
(*                                                                         *)
(* currentClients counts the clients that came and is never decremented,   *)
(* since it bounds the loop over the table.  When it has passed FD_SETSIZE *)
(* the loop reads beyond the table, which may end the server.              *)
(*                                                                         *)
(* A definition named X_y is a wrong form of the definition X after it, on *)
(* which the properties are seen to fail.                                  *)
(***************************************************************************)
EXTENDS Integers, SequencesExt, FiniteSetsExt

CONSTANTS Client,     \* connections, one after the other
          FD_SETSIZE, \* slots of the table
          MaxCame,    \* bound: clients that come
          MaxLines,   \* bound: lines typed
          None

Slot == 0..FD_SETSIZE - 1
ListenFd == 3
Fd == 4..ListenFd + Cardinality(Client)

VARIABLES
    pc,            \* the server: select, stdin, ended, or handle with a slot
    fd,            \* per client: the descriptor of its connection, None before
                   \* it is accepted and after it is closed
    backlog,       \* the connections to accept
    toServer,      \* per client: lines the server has not read
    toClient,      \* per client: lines the client has not read
    up,            \* clients that run
    clientSockets, \* the table
    currentClients, maxfd,
    allset, rset,  \* the clients select watches; those it has reported
    quits,         \* q was typed at the server
    lines,         \* lines typed so far
    missed         \* clients that were connected and not written to

table == <<clientSockets, currentClients, maxfd, allset>>
net == <<fd, backlog, toServer, toClient, up, lines>>
vars == <<pc, net, table, rset, quits, missed>>

Init ==
    /\ pc = "select" /\ backlog = << >> /\ up = {} /\ lines = 0
    /\ fd = [c \in Client |-> None]
    /\ toServer = [c \in Client |-> 0] /\ toClient = [c \in Client |-> 0]
    /\ clientSockets = [i \in Slot |-> None] /\ currentClients = 0
    /\ maxfd = ListenFd /\ allset = {} /\ rset = {}
    /\ quits = FALSE /\ missed = {}

Running == pc # "ended"

Readable(c) == fd[c] # None /\ (toServer[c] > 0 \/ c \notin up)

\* the lowest descriptor that is free, which is what accept returns
NextFd == Min(Fd \ {fd[c] : c \in Client})

-----------------------------------------------------------------------------
(***************************************************************************)
(* The server.                                                             *)
(***************************************************************************)
\* select reports what can be read; a new client enters the first free slot,
\* and is refused when there is none
Select ==
    LET ready == {c \in allset : Readable(c)}
        free == {i \in Slot : clientSockets[i] = None}
        c == Head(backlog) IN
    /\ pc = "select" /\ (ready # {} \/ backlog # << >> \/ quits)
    /\ rset' = ready
    /\ IF backlog = << >>
       THEN pc' = "stdin" /\ UNCHANGED <<table, fd, backlog, up>>
       ELSE /\ backlog' = Tail(backlog)
            /\ IF free = {}
               THEN pc' = "select" /\ up' = up \ {c} /\ UNCHANGED <<table, fd>>
               ELSE /\ clientSockets' = [clientSockets EXCEPT ![Min(free)] = c]
                    /\ currentClients' = currentClients + 1
                    /\ fd' = [fd EXCEPT ![c] = NextFd]
                    /\ maxfd' = IF NextFd > maxfd THEN NextFd ELSE maxfd
                    /\ allset' = allset \cup {c}
                    /\ pc' = IF ready = {} /\ ~quits THEN "select" ELSE "stdin"
                    /\ UNCHANGED up
    /\ UNCHANGED <<toServer, toClient, lines, quits, missed>>

\* q ends the server: closeFds
Stdin ==
    /\ pc = "stdin"
    /\ IF quits
       THEN /\ pc' = "ended" /\ fd' = [c \in Client |-> None]
            /\ UNCHANGED <<clientSockets, rset>>
       ELSE pc' = "handle" /\ UNCHANGED <<fd, clientSockets, rset>>
    /\ UNCHANGED <<backlog, toServer, toClient, up, lines, currentClients, maxfd, allset,
                   quits, missed>>

Close_counting(c, i) ==
    /\ clientSockets' = [clientSockets EXCEPT ![i] = None]
    /\ fd' = [fd EXCEPT ![c] = None] /\ allset' = allset \ {c}
    /\ currentClients' = currentClients - 1
    /\ UNCHANGED maxfd

\* a client that has ended leaves its slot; the count stays
Close(c, i) ==
    /\ clientSockets' = [clientSockets EXCEPT ![i] = None]
    /\ fd' = [fd EXCEPT ![c] = None] /\ allset' = allset \ {c}
    /\ UNCHANGED <<currentClients, maxfd>>

\* what client c has sent is written to the other clients of the first slots
Others(c) == {clientSockets[j] : j \in {i \in Slot : i < currentClients}} \ {c, None}

Relay(c) ==
    LET others == Others(c) IN
    /\ toServer' = [toServer EXCEPT ![c] = 0]
    /\ toClient' = [d \in Client |->
           toClient[d] + IF d \in others THEN toServer[c] ELSE 0]
    /\ missed' = missed \cup ({d \in Client \ {c} : fd[d] # None} \ others)

\* handle: the slots below maxfd whose clients were reported, one by one; one
\* written to after its end may end the server (SIGPIPE)
Scanned == {i \in Slot : i < maxfd /\ clientSockets[i] \in rset}

Handle ==
    LET i == Min(Scanned)  c == clientSockets[i] IN
    /\ pc = "handle" /\ Scanned # {} /\ rset' = rset \ {c}
    /\ IF toServer[c] > 0
       THEN /\ Relay(c) /\ UNCHANGED <<table, fd>>
            /\ pc' \in {"handle"} \cup
                      IF currentClients > FD_SETSIZE \/ Others(c) \ up # {}
                      THEN {"ended"} ELSE {}
       ELSE Close(c, i) /\ UNCHANGED <<pc, toServer, toClient, missed>>
    /\ UNCHANGED <<backlog, up, lines, quits>>

HandleEnds ==
    /\ pc = "handle" /\ Scanned = {} /\ pc' = "select" /\ rset' = {}
    /\ UNCHANGED <<net, table, quits, missed>>

TypesQ ==
    /\ pc = "select" /\ ~quits /\ quits' = TRUE
    /\ UNCHANGED <<pc, net, table, rset, missed>>

-----------------------------------------------------------------------------
(***************************************************************************)
(* The clients.                                                            *)
(***************************************************************************)
Connect(c) ==
    /\ Running /\ c \notin up \cup ToSet(backlog) /\ fd[c] = None
    /\ Len(backlog) + currentClients < MaxCame
    /\ up' = up \cup {c} /\ backlog' = Append(backlog, c)
    /\ toServer' = [toServer EXCEPT ![c] = 0] /\ toClient' = [toClient EXCEPT ![c] = 0]
    /\ UNCHANGED <<pc, fd, lines, table, rset, quits, missed>>

\* its handle: what the server sends is shown, a line is sent
Shows(c) ==
    /\ c \in up /\ toClient[c] > 0 /\ toClient' = [toClient EXCEPT ![c] = 0]
    /\ UNCHANGED <<pc, fd, backlog, toServer, up, lines, table, rset, quits, missed>>

Types(c) ==
    /\ Running /\ c \in up /\ lines < MaxLines /\ lines' = lines + 1
    /\ toServer' = [toServer EXCEPT ![c] = @ + 1]
    /\ UNCHANGED <<pc, fd, backlog, toClient, up, table, rset, quits, missed>>

\* the client ends, at the end of its input or with the server
Ends(c) ==
    /\ c \in up /\ up' = up \ {c}
    /\ UNCHANGED <<pc, fd, backlog, toServer, toClient, lines, table, rset, quits, missed>>

Next ==
    \/ Select \/ Stdin \/ Handle \/ HandleEnds \/ TypesQ
    \/ \E c \in Client : Connect(c) \/ Shows(c) \/ Types(c) \/ Ends(c)

Spec == Init /\ [][Next]_vars

-----------------------------------------------------------------------------
\* Whatever a client sends goes to every other connected client, whoever left
\* in between: the count that bounds the loop always covers the used slots,
\* and so does maxfd, which bounds the loop that reads them.
EveryoneGetsIt ==
    /\ missed = {}
    /\ \A i \in Slot : clientSockets[i] # None => i < currentClients /\ i < maxfd
=============================================================================
