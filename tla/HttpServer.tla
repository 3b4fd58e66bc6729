----------------------------- MODULE HttpServer -----------------------------
(***************************************************************************)
(* The event loop of simple_http_server: server.c's main loop, do_request  *)
(* of http.c, st_http_close_conn of http_request.c and the timers of       *)
(* timer.c, with the kernel's sockets and epoll instance they run on.      *)
(*                                                                         *)
(* One thread executes the loop; clients and the clock move between any    *)
(* two of its steps.  A request structure is an address of the heap that   *)
(* malloc hands out and free takes back, so that a pointer kept too long   *)
(* is visible: the first use of freed memory sets crash, after which C     *)
(* defines nothing and the model claims nothing (glibc aborts the process  *)
(* at the second free that follows each of these uses).                    *)
(*                                                                         *)
(* A definition named X_y is a wrong form of the definition X after it, on *)
(* which the properties are seen to fail.                                  *)
(***************************************************************************)
EXTENDS Naturals, Sequences, FiniteSets, FiniteSetsExt

CONSTANTS Conn,      \* the clients' connections
          Addr,      \* heap addresses of request structures
          Fd,        \* descriptor numbers open to connections
          Node,      \* heap addresses of timer nodes
          Piece,     \* what a client may send at a time, see Pieces
          MaxSend,   \* bound: pieces sent by one client
          Timeout,   \* TIMEOUT_DEFAULT, in ticks
          MaxBuf,    \* MAX_BUF, in pieces
          Departure, \* the ways clients may leave: shut, reset
          None,      \* no connection, no pointer
          Listen     \* the listening socket

(***************************************************************************)
(* part: bytes that leave the request line unfinished.  keep, once, miss:  *)
(* bytes that finish a request, of a file with Connection: keep-alive, of  *)
(* a file without it, of no readable file.  bad: bytes refused as          *)
(* INVALID_METHOD or INVALID_HEADER.  inv: bytes refused as                *)
(* INVALID_REQUEST, whose code, 11, is also ST_AGAIN's.                    *)
(***************************************************************************)
Pieces == {"part", "keep", "once", "miss", "bad", "inv"}

\* the places of a first undefined behaviour
Undefined == {"stale", "timer", "eof", "read", "parse", "close"}

ASSUME BoundsAssumption ==
    /\ Piece \subseteq Pieces /\ Fd \subseteq Nat
    /\ MaxSend \in Nat /\ Timeout \in Nat \ {0} /\ MaxBuf \in Nat \ {0}
    /\ Departure \subseteq {"shut", "reset"}
    /\ None \notin Conn \cup Addr \cup Fd \cup Node /\ None \notin Undefined
    /\ Listen \notin Addr \cup Fd

VARIABLES
    sock,     \* per connection: none, backlog, open or closed
    in,       \* per connection: pieces arrived and not read
    sent,     \* per connection: pieces sent
    fin,      \* per connection: the client has closed its side
    rst,      \* per connection: the client has reset it
    fdt,      \* the descriptor table: whose connection each number is
    reg,      \* epoll: the pointer registered for each number, and armed
    ready,    \* epoll: the numbers on the ready list, or Listen
    rq,       \* the request structures in the heap
    node,     \* the timer nodes in the heap, all of them in the heap's queue
    events,   \* what epoll_wait filled in and the loop has not yet taken
    pc,       \* where the loop is
    cur,      \* the request do_request runs for
    crash     \* the first undefined behaviour, or None

client == <<sent, fin, rst>>
vars == <<sock, in, sent, fin, rst, fdt, reg, ready, rq, node, events, pc, cur, crash>>

-----------------------------------------------------------------------------
NoReg == [ptr |-> None, armed |-> FALSE]
NoNode == [rq |-> None, left |-> 0, deleted |-> TRUE]
NoRq == [live |-> FALSE, fd |-> None, timer |-> None, buf |-> << >>]

Init ==
    /\ sock = [c \in Conn |-> "none"]
    /\ in = [c \in Conn |-> << >>]
    /\ sent = [c \in Conn |-> 0]
    /\ fin = [c \in Conn |-> FALSE]
    /\ rst = [c \in Conn |-> FALSE]
    /\ fdt = [f \in Fd |-> None]
    /\ reg = [f \in Fd |-> NoReg]
    /\ ready = {}
    /\ rq = [a \in Addr |-> NoRq]
    /\ node = [n \in Node |-> NoNode]
    /\ events = {}
    /\ pc = "find"
    /\ cur = None
    /\ crash = None

\* where the loop is; nothing is said of what follows an undefined behaviour
At(p) == crash = None /\ pc = p

FdsOf(c) == {f \in Fd : fdt[f] = c}

\* a read on the connection would not block
Readable(c) == in[c] # << >> \/ fin[c] \/ rst[c]

\* epoll puts the armed numbers of a connection on the ready list at an arrival
Notify(c) == ready' = ready \cup {f \in FdsOf(c) : reg[f].armed}

-----------------------------------------------------------------------------
(***************************************************************************)
(* The clients.                                                            *)
(***************************************************************************)
Connect(c) ==
    /\ crash = None /\ sock[c] = "none"
    /\ sock' = [sock EXCEPT ![c] = "backlog"]
    /\ ready' = ready \cup {Listen}
    /\ UNCHANGED <<in, client, fdt, reg, rq, node, events, pc, cur, crash>>

MaySend(c) == crash = None /\ sock[c] \in {"backlog", "open"} /\ ~fin[c] /\ ~rst[c]

Send(c, p) ==
    /\ MaySend(c)
    /\ sent[c] < MaxSend
    /\ sent' = [sent EXCEPT ![c] = @ + 1]
    /\ in' = [in EXCEPT ![c] = Append(@, p)]
    /\ Notify(c)
    /\ UNCHANGED <<sock, fin, rst, fdt, reg, rq, node, events, pc, cur, crash>>

Shut(c) ==
    /\ "shut" \in Departure
    /\ MaySend(c)
    /\ fin' = [fin EXCEPT ![c] = TRUE]
    /\ Notify(c)
    /\ UNCHANGED <<sock, in, sent, rst, fdt, reg, rq, node, events, pc, cur, crash>>

\* what had arrived and was not read is lost
Reset(c) ==
    /\ "reset" \in Departure
    /\ crash = None /\ sock[c] = "open" /\ ~rst[c]
    /\ rst' = [rst EXCEPT ![c] = TRUE]
    /\ in' = [in EXCEPT ![c] = << >>]
    /\ Notify(c)
    /\ UNCHANGED <<sock, sent, fin, fdt, reg, rq, node, events, pc, cur, crash>>

\* a clock tick: every timer is one tick nearer to its key
Tick ==
    /\ crash = None
    /\ \E n \in Node : node[n].left > 0
    /\ node' = [n \in Node |-> [node[n] EXCEPT !.left = IF @ > 0 THEN @ - 1 ELSE 0]]
    /\ UNCHANGED <<sock, in, client, fdt, reg, ready, rq, events, pc, cur, crash>>

-----------------------------------------------------------------------------
(***************************************************************************)
(* Timers: the queue is an ordered pool (module OrderedPool), whose root   *)
(* is any node of least key.                                               *)
(***************************************************************************)
Queued == {n \in Node : node[n].rq # None}
Roots == {n \in Queued : \A m \in Queued : node[n].left <= node[m].left}
Expired(n) == node[n].left = 0

TimerDue_never == FALSE

\* the time st_find_timer gave epoll_wait is up
TimerDue == \E n \in Roots : Expired(n)

\* an address malloc may return; Accept and ReadAgain are taken only while there
\* is one (bound: Node)
FreeNode == CHOOSE n \in Node \ Queued : TRUE

\* st_add_timer: the node it takes; rq->timer points to it
Armed(a) == [rq |-> a, left |-> Timeout, deleted |-> FALSE]

Unarmed_not(n) == node

\* st_del_timer marks the node and leaves it in the queue
Unarmed(n) == [node EXCEPT ![n].deleted = TRUE]

\* the pops of deleted nodes in st_find_timer and st_handle_expire_timers
PopDeleted ==
    /\ crash = None /\ pc \in {"find", "expire"}
    /\ \E n \in Roots : node[n].deleted /\ node' = [node EXCEPT ![n] = NoNode]
    /\ UNCHANGED <<sock, in, client, fdt, reg, ready, rq, events, pc, cur, crash>>

\* st_find_timer returns: a live node is at the root, or the queue is empty
FindDone ==
    /\ At("find")
    /\ Queued = {} \/ \E n \in Roots : ~node[n].deleted
    /\ pc' = "wait"
    /\ UNCHANGED <<sock, in, client, fdt, reg, ready, rq, node, events, cur, crash>>

\* close(2): the number leaves the table and every epoll set
Close(f) ==
    /\ fdt' = [fdt EXCEPT ![f] = None]
    /\ reg' = [reg EXCEPT ![f] = NoReg]
    /\ ready' = ready \ {f}
    /\ sock' = [c \in Conn |-> IF fdt[f] = c THEN "closed" ELSE sock[c]]

CloseConn_free(a) ==
    /\ rq' = [rq EXCEPT ![a] = NoRq]
    /\ UNCHANGED <<fdt, reg, ready, sock>>

\* st_http_close_conn closes the number the request holds, whoever has that
\* number now, and frees the request
CloseConn(a) ==
    /\ Close(rq[a].fd)
    /\ rq' = [rq EXCEPT ![a] = NoRq]

\* a due timer calls it
Fire ==
    /\ At("expire")
    /\ \E n \in Roots :
         LET a == node[n].rq IN
         /\ ~node[n].deleted /\ Expired(n)
         /\ IF rq[a].live
            THEN CloseConn(a) /\ crash' = crash
            ELSE /\ crash' = "timer"
                 /\ UNCHANGED <<fdt, reg, ready, sock, rq>>
         /\ node' = [node EXCEPT ![n] = NoNode]
    /\ UNCHANGED <<in, client, events, pc, cur>>

ExpireDone ==
    /\ At("expire")
    /\ Queued = {} \/ \E n \in Roots : ~node[n].deleted /\ ~Expired(n)
    /\ pc' = "events"
    /\ UNCHANGED <<sock, in, client, fdt, reg, ready, rq, node, events, cur, crash>>

-----------------------------------------------------------------------------
(***************************************************************************)
(* epoll_wait: it returns the ready list, if any, else when the first      *)
(* timer is due.  Edge-triggered numbers leave the list and ONESHOT ones   *)
(* are disarmed.  EPOLLERR and EPOLLHUP are reported of a reset peer.      *)
(***************************************************************************)
Wait ==
    /\ At("wait")
    /\ ready # {} \/ TimerDue
    /\ events' = { IF f = Listen THEN [ptr |-> Listen, err |-> FALSE]
                   ELSE [ptr |-> reg[f].ptr, err |-> rst[fdt[f]]] : f \in ready }
    /\ reg' = [f \in Fd |-> [reg[f] EXCEPT !.armed = @ /\ f \notin ready]]
    /\ ready' = {}
    /\ pc' = "expire"
    /\ UNCHANGED <<sock, in, client, fdt, rq, node, cur, crash>>

\* the events are all taken: the next iteration
LoopDone ==
    /\ At("events")
    /\ events = {}
    /\ pc' = "find"
    /\ UNCHANGED <<sock, in, client, fdt, reg, ready, rq, node, events, cur, crash>>

EventListen ==
    /\ At("events")
    /\ \E e \in events : e.ptr = Listen /\ events' = events \ {e}
    /\ pc' = "accept"
    /\ UNCHANGED <<sock, in, client, fdt, reg, ready, rq, node, cur, crash>>

\* the event's request has been freed since epoll_wait returned
EventStale ==
    /\ At("events")
    /\ \E e \in events : e.ptr # Listen /\ ~rq[e.ptr].live
    /\ crash' = "stale"
    /\ UNCHANGED <<sock, in, client, fdt, reg, ready, rq, node, events, pc, cur>>

\* an error on the socket: only the number is closed, nothing else is undone
EventError ==
    /\ At("events")
    /\ \E e \in events :
         /\ e.ptr # Listen /\ rq[e.ptr].live /\ e.err
         /\ Close(rq[e.ptr].fd)
         /\ events' = events \ {e}
    /\ UNCHANGED <<in, client, rq, node, pc, cur, crash>>

\* do_request is entered: st_del_timer
EventRead ==
    /\ At("events")
    /\ \E e \in events :
         /\ e.ptr # Listen /\ rq[e.ptr].live /\ ~e.err
         /\ node' = Unarmed(rq[e.ptr].timer)
         /\ cur' = e.ptr
         /\ events' = events \ {e}
    /\ pc' = "request"
    /\ UNCHANGED <<sock, in, client, fdt, reg, ready, rq, crash>>

-----------------------------------------------------------------------------
Watch_not(f, a) == UNCHANGED <<reg, ready>>

\* epoll_ctl ADD and MOD look at the socket at once
Watch(f, a) ==
    /\ reg' = [reg EXCEPT ![f] = [ptr |-> a, armed |-> TRUE]]
    /\ ready' = IF Readable(fdt'[f]) THEN ready \cup {f} ELSE ready

\* one turn of the accept loop; the kernel gives the lowest free number
Accept ==
    /\ At("accept")
    /\ \E c \in Conn, a \in Addr :
         LET f == Min({g \in Fd : fdt[g] = None})
             n == FreeNode IN
         /\ sock[c] = "backlog" /\ ~rq[a].live
         /\ \E g \in Fd : fdt[g] = None
         /\ Queued # Node
         /\ sock' = [sock EXCEPT ![c] = "open"]
         /\ fdt' = [fdt EXCEPT ![f] = c]
         /\ rq' = [rq EXCEPT ![a] = [live |-> TRUE, fd |-> f, timer |-> n, buf |-> << >>]]
         /\ Watch(f, a)
         /\ node' = [node EXCEPT ![n] = Armed(a)]
    /\ UNCHANGED <<in, client, events, pc, cur, crash>>

\* EAGAIN, or EMFILE with connections left behind
AcceptDone ==
    /\ At("accept")
    /\ (\A c \in Conn : sock[c] # "backlog") \/ (\A g \in Fd : fdt[g] # None)
    /\ pc' = "events"
    /\ UNCHANGED <<sock, in, client, fdt, reg, ready, rq, node, events, cur, crash>>

-----------------------------------------------------------------------------
(***************************************************************************)
(* do_request, one turn of its loop at a time.                             *)
(***************************************************************************)
Room_all(a) == MaxBuf - Len(rq[a].buf)

Room(a) == MaxBuf - Len(rq[a].buf) - 1

Peer == fdt[rq[cur].fd]

\* where the first request in the bytes b ends or is refused
Ends(b) == {i \in 1 .. Len(b) : b[i] # "part"}

\* the bytes left unparsed in the buffer once b has been parsed; a request
\* refused with ST_AGAIN's code leaves pos where it was
Unparsed(b) ==
    IF Ends(b) = {} THEN << >>
    ELSE IF b[Min(Ends(b))] = "inv" THEN b
    ELSE SubSeq(b, Min(Ends(b)) + 1, Len(b))

\* the verdict of st_http_parse_request_line and _body on b
Verdict(b) == IF Ends(b) = {} THEN "part" ELSE b[Min(Ends(b))]

\* read returned bytes: the first request among them is parsed and answered
Read ==
    /\ At("request")
    /\ Peer # None
    /\ in[Peer] # << >> /\ Room(cur) > 0
    /\ \E k \in 1 .. Min({Len(in[Peer]), Room(cur)}) :
         LET b == rq[cur].buf \o SubSeq(in[Peer], 1, k) IN
         /\ in' = [in EXCEPT ![Peer] = SubSeq(@, k + 1, Len(@))]
         /\ rq' = [rq EXCEPT ![cur].buf = Unparsed(b)]
         \* the request is closed and freed, then used or freed again
         /\ crash' = CASE Verdict(b) = "bad" -> "parse"
                       [] Verdict(b) = "once" -> "close"
                       [] OTHER -> None
    /\ UNCHANGED <<sock, client, fdt, reg, ready, node, events, pc, cur>>

\* read returned 0: end of file, or no room was left; the request is freed and
\* the loop goes on with it
ReadEof ==
    /\ At("request")
    /\ Peer # None /\ ~rst[Peer]
    /\ Room(cur) = 0 \/ (in[Peer] = << >> /\ fin[Peer])
    /\ crash' = "eof"
    /\ UNCHANGED <<sock, in, client, fdt, reg, ready, rq, node, events, pc, cur>>

\* read failed: the request is freed, then registered again
ReadError ==
    /\ At("request")
    /\ Peer # None => rst[Peer]
    /\ crash' = "read"
    /\ UNCHANGED <<sock, in, client, fdt, reg, ready, rq, node, events, pc, cur>>

\* EAGAIN: the number is armed again and a new timer started
ReadAgain ==
    /\ At("request")
    /\ Peer # None /\ ~Readable(Peer) /\ Room(cur) > 0
    /\ Queued # Node
    /\ fdt' = fdt
    /\ Watch(rq[cur].fd, cur)
    /\ rq' = [rq EXCEPT ![cur].timer = FreeNode]
    /\ node' = [node EXCEPT ![FreeNode] = Armed(cur)]
    /\ cur' = None
    /\ pc' = "events"
    /\ UNCHANGED <<sock, in, client, events, crash>>

-----------------------------------------------------------------------------
Clients == \E c \in Conn : \/ Connect(c) \/ Shut(c) \/ Reset(c)
                           \/ \E p \in Piece : Send(c, p)

Server == \/ PopDeleted \/ FindDone \/ Wait
          \/ Fire \/ ExpireDone
          \/ EventListen \/ EventStale \/ EventError \/ EventRead \/ LoopDone
          \/ Accept \/ AcceptDone
          \/ Read \/ ReadEof \/ ReadError \/ ReadAgain

Next == Clients \/ Server \/ Tick

\* the thread is scheduled and time passes; clients promise nothing
Fairness == WF_vars(Server) /\ WF_vars(Tick)

Spec == Init /\ [][Next]_vars /\ Fairness

-----------------------------------------------------------------------------
\* The kernel's tables and the server's structures hold values of their kinds; a timer
\* never has more than TIMEOUT_DEFAULT left.
TypeOK ==
    /\ sock \in [Conn -> {"none", "backlog", "open", "closed"}]
    /\ in \in [Conn -> Seq(Piece)]
    /\ sent \in [Conn -> 0 .. MaxSend]
    /\ fin \in [Conn -> BOOLEAN]
    /\ rst \in [Conn -> BOOLEAN]
    /\ fdt \in [Fd -> Conn \cup {None}]
    /\ reg \in [Fd -> [ptr : Addr \cup {None}, armed : BOOLEAN]]
    /\ ready \subseteq Fd \cup {Listen}
    /\ rq \in [Addr -> [live : BOOLEAN, fd : Fd \cup {None},
                        timer : Node \cup {None}, buf : Seq(Piece)]]
    /\ node \in [Node -> [rq : Addr \cup {None}, left : 0 .. Timeout, deleted : BOOLEAN]]
    /\ events \subseteq [ptr : Addr \cup {Listen}, err : BOOLEAN]
    /\ pc \in {"find", "wait", "expire", "events", "accept", "request"}
    /\ cur \in Addr \cup {None}
    /\ crash \in Undefined \cup {None}

\* the number is open and registered for the request
Owns(a, f) == fdt[f] # None /\ rq[a].fd = f /\ reg[f].ptr = a

InUse(a) == rq[a].live /\ ~(pc = "request" /\ cur = a)

\* Every request the loop is not working on has its timer: the node it points
\* to is queued, not deleted and points back, and no other live node names it.
\* A request without one would never be freed, one with two would be freed
\* twice; the lazy deletion of timer.c makes both easy.
OneTimerEach ==
    crash = None => \A a \in Addr :
        {n \in Queued : node[n].rq = a /\ ~node[n].deleted}
            = IF InUse(a) THEN {rq[a].timer} ELSE {}

\* What epoll holds for an open number is a request that has not been freed, so
\* that an event that epoll_wait reports never names freed memory by itself.
RegisteredAreLive ==
    crash = None => \A f \in Fd : reg[f].ptr # None => rq[reg[f].ptr].live

\* When the loop goes to sleep nothing readable is left behind: an open
\* connection with unread input, end of file or error is on the ready list.
\* Edge-triggered ONESHOT registrations lose it if do_request stops reading
\* early or arms the number again before the last read.
NoLostInput ==
    (crash = None /\ pc = "wait") =>
        \A f \in Fd : (fdt[f] # None /\ Readable(fdt[f])) => f \in ready

NumbersSuffice ==
    IsFiniteSet(Conn) /\ IsFiniteSet(Fd) /\ Cardinality(Conn) <= Cardinality(Fd)

\* The same of connections to accept, while numbers are to be had: the listening
\* socket is edge-triggered too, so accept must be called until EAGAIN.
NoLostConnection ==
    (NumbersSuffice /\ crash = None /\ pc = "wait" /\ \E c \in Conn : sock[c] = "backlog")
        => Listen \in ready

\* check(rq->last - rq->pos < MAX_BUF): the request buffer never overflows, not
\* even when refused bytes stay in it for ever.
BufferFits == \A a \in Addr : Len(rq[a].buf) < MaxBuf

NoResets == \A c \in Conn : ~rst[c]

\* As long as no client has reset, each open connection has one request of its own
\* and no request another's number: no event, read or close reaches a stranger.
Isolation ==
    (crash = None /\ NoResets) =>
        /\ \A a \in Addr : rq[a].live => Owns(a, rq[a].fd)
        /\ \A c \in Conn : sock[c] = "open" =>
              Cardinality({a \in Addr : rq[a].live /\ fdt[rq[a].fd] = c}) = 1

\* No timer fires for a request that is freed; and as long as no client has reset,
\* do_request reads from no number that is closed: after a timer has fired only
\* the events of the same round are stale.
TimersFindLive == crash # "timer" /\ (NoResets => crash # "read")

\* The server's records agree with each other and with the kernel's tables, at
\* every step, through stale events, lazily deleted timers and reused numbers.
RecordsAgree ==
    TypeOK /\ OneTimerEach /\ RegisteredAreLive /\ Isolation /\ TimersFindLive

\* What clients send and who connects is reported until the server has seen it.
NothingLost == NoLostInput /\ NoLostConnection

\* As long as no client has reset, the clock closes only a connection whose own
\* current timer ran out: not one that was read from since the timer was set.
ClosedOnlyWhenIdle ==
    [][NoResets => \A c \in Conn, f \in Fd :
         (pc = "expire" /\ fdt[f] = c /\ fdt'[f] # c) =>
            \E a \in Addr : Owns(a, f) /\ Expired(rq[a].timer)]_vars

\* Every connection accepted is closed in the end, whatever its client does or
\* fails to do, unless the server goes down first.
EveryConnectionEnds ==
    \A c \in Conn : sock[c] = "open" ~> (sock[c] = "closed" \/ crash # None)
=============================================================================
