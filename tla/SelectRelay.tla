----------------------------- MODULE SelectRelay ----------------------------
(***************************************************************************)
(* The relay server of the 2048 game (version_1_4/src/server.c): a select  *)
(* loop over a table of slots that passes what one client sends to all the *)
(* others, with the kernel's descriptors and the clients.                  *)
(*                                                                         *)
(* The descriptor limit is at most FD_SETSIZE, its usual value.  Then the  *)
(* table always has a free slot (TableHasRoom), and the branch for too     *)
(* many connections, lines 50-54, is never taken.  Writes find room: a     *)
(* client reads what it is sent.                                           *)
(*                                                                         *)
(* A definition named X_y is a wrong form of the definition X after it, on *)
(* which the properties are seen to fail.                                  *)
(***************************************************************************)
EXTENDS Integers, Sequences, FiniteSetsExt

CONSTANTS Client,      \* connections: a client that comes again is another
          FD_SETSIZE,  \* slots of the table
          listenfd,    \* the listening socket's number
          LastFd,      \* the largest number the process may have
          MaxSend,     \* bound: messages from one client
          Key          \* what may be typed at the server's terminal

ASSUME NumbersAssumption ==
    /\ listenfd \in Nat /\ LastFd \in Nat /\ FD_SETSIZE \in Nat
    /\ listenfd < LastFd /\ LastFd < FD_SETSIZE
    /\ MaxSend \in Nat /\ Key \subseteq {"quit", "other"}
    /\ IsFiniteSet(Client)

Fd == listenfd + 1 .. LastFd
Slot == 0 .. FD_SETSIZE - 1

VARIABLES
    state,    \* per client: new, backlog, open or gone
    sent,     \* per client: messages sent
    pend,     \* per client: messages not yet read by the server
    fin,      \* per client: it has closed its side
    rst,      \* per client: its reset has arrived
    inbox,    \* per client: the senders of the messages it was written
    joined,   \* per client: how long log was when it was accepted
    log,      \* the senders of the messages the server has read
    fdt,      \* the descriptor table: whose connection a number is
    typed,    \* a key waiting on stdin
    clientSockets, currentClients, clientIndex, maxfd, allset, rset, nready,
    i,        \* handle's loop
    pc        \* where the server is

clients == <<state, sent, pend, fin, rst, inbox, joined, log>>
table == <<clientSockets, currentClients, clientIndex, maxfd, allset>>
vars == <<clients, fdt, typed, table, rset, nready, i, pc>>

Nobody == "nobody"
Listen == -2
Stdin == -3
Free == [id |-> -1, connectFd |-> -1]

Init ==
    /\ state = [c \in Client |-> "new"]
    /\ sent = [c \in Client |-> 0] /\ pend = [c \in Client |-> 0]
    /\ fin = [c \in Client |-> FALSE] /\ rst = [c \in Client |-> FALSE]
    /\ inbox = [c \in Client |-> << >>] /\ joined = [c \in Client |-> 0]
    /\ log = << >>
    /\ fdt = [f \in Fd |-> {}]
    /\ typed = {}
    /\ clientSockets = [s \in Slot |-> Free]
    /\ currentClients = 0 /\ clientIndex = -1 /\ maxfd = listenfd
    /\ allset = {} /\ rset = {} /\ nready = 0
    /\ i = 0 /\ pc = "select"

Up == pc \notin {"exit", "quit", "killed", "undefined"}

-----------------------------------------------------------------------------
(***************************************************************************)
(* The clients and the operator.                                           *)
(***************************************************************************)
Connect(c) ==
    /\ Up /\ state[c] = "new"
    /\ state' = [state EXCEPT ![c] = "backlog"]
    /\ UNCHANGED <<sent, pend, fin, rst, inbox, joined, log, fdt, typed, table,
                   rset, nready, i, pc>>

Send(c) ==
    /\ Up /\ state[c] \in {"backlog", "open"} /\ ~fin[c] /\ sent[c] < MaxSend
    /\ sent' = [sent EXCEPT ![c] = @ + 1]
    /\ pend' = [pend EXCEPT ![c] = @ + 1]
    /\ UNCHANGED <<state, fin, rst, inbox, joined, log, fdt, typed, table, rset, nready, i, pc>>

Leave(c) ==
    /\ Up /\ state[c] \in {"backlog", "open"} /\ ~fin[c]
    /\ fin' = [fin EXCEPT ![c] = TRUE]
    /\ UNCHANGED <<state, sent, pend, rst, inbox, joined, log, fdt, typed, table,
                   rset, nready, i, pc>>

Type(k) ==
    /\ Up /\ typed = {}
    /\ typed' = {k}
    /\ UNCHANGED <<clients, fdt, table, rset, nready, i, pc>>

-----------------------------------------------------------------------------
Peer(f) == CHOOSE c \in Client : fdt[f] = {c}

Readable(f) == \E c \in fdt[f] : pend[c] > 0 \/ fin[c] \/ rst[c]

Ready == {f \in allset : Readable(f)}
             \cup {f \in {Listen} : \E c \in Client : state[c] = "backlog"}
             \cup {f \in {Stdin} : typed # {}}

Reported_stale == Ready \cup rset

\* rset = allset; select
Reported == Ready

Select ==
    /\ pc = "select" /\ Ready # {}
    /\ rset' = Reported
    /\ nready' = Cardinality(Ready)
    /\ pc' = IF Listen \in Ready THEN "accept" ELSE "stdin"
    /\ UNCHANGED <<clients, fdt, typed, table, i>>

FreeFds == {f \in Fd : fdt[f] = {}}

FreeSlots == {s \in Slot : clientSockets[s].connectFd < 0}

FreeSlot_last == Max(FreeSlots)

\* the first free slot
FreeSlot == Min(FreeSlots)

NewMax(f) == IF f > maxfd THEN f ELSE maxfd

Accept ==
    /\ pc = "accept" /\ FreeFds # {} /\ FreeSlots # {}
    /\ \E c \in Client :
         LET f == Min(FreeFds) IN
         /\ state[c] = "backlog"
         /\ state' = [state EXCEPT ![c] = "open"]
         /\ joined' = [joined EXCEPT ![c] = Len(log)]
         /\ fdt' = [fdt EXCEPT ![f] = {c}]
         /\ clientSockets' = [clientSockets EXCEPT
                                ![FreeSlot] = [id |-> clientIndex + 1, connectFd |-> f]]
         /\ maxfd' = NewMax(f)
         /\ allset' = allset \cup {f}
    /\ clientIndex' = clientIndex + 1
    /\ currentClients' = currentClients + 1
    /\ nready' = nready - 1
    /\ pc' = IF nready' <= 0 THEN "select" ELSE "stdin"
    /\ UNCHANGED <<sent, pend, fin, rst, inbox, log, typed, rset, i>>

\* EMFILE: the connection stays, and nobody else is looked at in this round
AcceptFails ==
    /\ pc = "accept" /\ FreeFds = {}
    /\ pc' = "select"
    /\ UNCHANGED <<clients, fdt, typed, table, rset, nready, i>>

\* a key is read, if there is one; q ends the server
Terminal ==
    /\ pc = "stdin"
    /\ typed' = IF Stdin \in rset THEN {} ELSE typed
    /\ pc' = IF Stdin \in rset /\ "quit" \in typed THEN "quit" ELSE "handle"
    /\ i' = 0
    /\ UNCHANGED <<clients, fdt, table, rset, nready>>

-----------------------------------------------------------------------------
(***************************************************************************)
(* handle: one slot at a time.                                             *)
(***************************************************************************)
Here == clientSockets[i].connectFd

InLoop == pc = "handle" /\ i < maxfd

\* the slot is empty, or has nothing to read
Skip ==
    /\ InLoop
    /\ Here = -1 \/ Here \notin rset
    /\ i' = i + 1
    /\ UNCHANGED <<clients, fdt, typed, table, rset, nready, pc>>

Watched_stale == allset

\* FD_CLR
Watched == allset \ {Here}

\* what is left of the slot
Emptied == Free

\* end of file, or an error after a reset, which may come before what is pending
Drop ==
    /\ InLoop /\ Here # -1 /\ Here \in rset
    /\ LET c == Peer(Here) IN
         /\ rst[c] \/ (pend[c] = 0 /\ fin[c])
         /\ state' = [state EXCEPT ![c] = "gone"]
    /\ fdt' = [fdt EXCEPT ![Here] = {}]
    /\ allset' = Watched
    /\ clientSockets' = [clientSockets EXCEPT ![i] = Emptied]
    /\ i' = i + 1
    /\ UNCHANGED <<sent, pend, fin, rst, inbox, joined, log, typed, currentClients,
                   clientIndex, maxfd, rset, nready, pc>>

\* the slots that the loops up to currentClients visit
Reached == {s \in Slot : s < currentClients}

Others_all == {s \in Reached : clientSockets[s].connectFd # -1}

\* the open numbers handle writes to: a write to -1 fails and is ignored
Others == {s \in Reached : clientSockets[s].connectFd # -1
                               /\ clientSockets[s].id # clientSockets[i].id}

Receivers == {Peer(clientSockets[s].connectFd) : s \in Others}

\* some messages come in one read and go out in as many writes; a loop that runs
\* past the table is undefined, a write to a reset connection raises SIGPIPE
Relay ==
    /\ InLoop /\ Here # -1 /\ Here \in rset
    /\ LET c == Peer(Here) IN
       \E k \in 1 .. pend[c] :
         LET chunk == [m \in 1 .. k |-> c] IN
         /\ pend' = [pend EXCEPT ![c] = @ - k]
         /\ log' = log \o chunk
         /\ inbox' = [d \in Client |-> IF d \in Receivers THEN inbox[d] \o chunk ELSE inbox[d]]
         /\ pc' = IF currentClients > FD_SETSIZE THEN "undefined"
                  ELSE IF \E d \in Receivers : rst[d] THEN "killed" ELSE pc
    /\ i' = i + 1
    /\ UNCHANGED <<state, sent, fin, rst, joined, fdt, typed, table, rset, nready>>

\* the client had closed before it read all it was written
ResetArrives(c) ==
    /\ Up /\ state[c] = "open" /\ fin[c] /\ ~rst[c] /\ inbox[c] # << >>
    /\ rst' = [rst EXCEPT ![c] = TRUE]
    /\ UNCHANGED <<state, sent, pend, fin, inbox, joined, log, fdt, typed, table,
                   rset, nready, i, pc>>

AllClosed == \A s \in Reached : clientSockets[s].connectFd = -1

\* isAllClientsClosed ends the server, after a look past the table if clients
\* were many
HandleDone ==
    /\ pc = "handle" /\ i >= maxfd
    /\ pc' = IF ~AllClosed THEN "select"
             ELSE IF currentClients > FD_SETSIZE THEN "undefined" ELSE "exit"
    /\ UNCHANGED <<clients, fdt, typed, table, rset, nready, i>>

-----------------------------------------------------------------------------
Server == \/ Select \/ Accept \/ AcceptFails \/ Terminal
          \/ Skip \/ Drop \/ Relay \/ HandleDone

Next == \/ \E c \in Client : Connect(c) \/ Send(c) \/ Leave(c) \/ ResetArrives(c)
        \/ \E k \in Key : Type(k)
        \/ Server

\* the server's one thread runs; clients and the operator promise nothing
Spec == Init /\ [][Next]_vars /\ WF_vars(Server)

-----------------------------------------------------------------------------
Taken(s) == clientSockets[s].connectFd # -1

\* Every client is within the loops that write: a taken slot is below
\* currentClients, in whatever order clients come and go.  The server keeps this
\* by never lowering the counter.
SlotsCounted == \A s \in Slot : Taken(s) => s < currentClients

\* Every client is within the loop that reads, which runs up to maxfd, a number of
\* another kind: a descriptor, not a slot.
SlotsScanned == \A s \in Slot : Taken(s) => s < maxfd

\* While a number is free so is a slot: the branch for too many connections, which
\* would leave the table and the watched set apart, is never needed.
TableHasRoom == FreeFds # {} => FreeSlots # {}

\* Each open descriptor has one slot, the set that select watches is that of the
\* slots, and no two clients have the same id, by which handle tells the sender.
OneSlotEach ==
    /\ allset = {clientSockets[s].connectFd : s \in {t \in Slot : Taken(t)}}
    /\ allset = {f \in Fd : fdt[f] # {}}
    /\ \A s, t \in Slot : (s # t /\ Taken(s)) =>
          /\ clientSockets[s].connectFd # clientSockets[t].connectFd
          /\ clientSockets[s].id # clientSockets[t].id

\* handle never blocks in read: a number that is closed, and taken again by a new
\* connection, is not among those the last select reported.
ReadsOnlyReady ==
    (InLoop /\ Here # -1 /\ Here \in rset) => Readable(Here)

\* The messages up to the m-th that are for client c: those the server read from
\* others since c was accepted.
For(c, m) == {l \in joined[c] + 1 .. m : log[l] # c}

\* Every client has been written what the server read from the others since it
\* was accepted, all of it, once and in order, for as long as the server is up: the
\* message that is the n-th for it is the n-th it was written, and there is no more.
RelayedToAll ==
    Up => \A c \in Client : state[c] = "open" =>
             /\ Len(inbox[c]) = Cardinality(For(c, Len(log)))
             /\ \A m \in For(c, Len(log)) : inbox[c][Cardinality(For(c, m))] = log[m]

\* The server ends by itself only when no client is connected, and runs into
\* undefined behaviour only after more clients than the table has slots.
EndsRightly ==
    /\ pc = "exit" => \A c \in Client : state[c] # "open"
    /\ pc = "undefined" => clientIndex >= FD_SETSIZE

\* The table, the counter, maxfd, the watched set and the open descriptors fit
\* together through every order of accepting, reading and closing.
TableRight == SlotsCounted /\ SlotsScanned /\ OneSlotEach /\ TableHasRoom

\* The server relays everything for as long as anybody is there.
Relays == RelayedToAll /\ EndsRightly

\* Somebody waits to be accepted and no number is free: accept fails, the round
\* starts again at once, and no number will be freed.
Starved == FreeFds = {} /\ \E c \in Client : state[c] = "backlog"

\* What a client sends is read in the end, unless the server goes down or one
\* connection too many starves everybody.
ReadInTheEnd ==
    \A c \in Client : (state[c] = "open" /\ pend[c] > 0)
                          ~> (pend[c] = 0 \/ rst[c] \/ ~Up \/ Starved)
=============================================================================
