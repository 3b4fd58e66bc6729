-------------------------- MODULE HttpServer_proofs -------------------------
(***************************************************************************)
(* The event loop, for any number of clients, descriptors and addresses    *)
(* and whatever the clients send: its records agree with each other and    *)
(* with the kernel's tables, its buffers fit, and no input is left behind. *)
(*                                                                         *)
(* The inductive invariant has two parts: what holds for ever, and Sound,  *)
(* which holds until the first use of freed memory.  A request keeps the   *)
(* number it was accepted with, also after that number was closed under it *)
(* and given to another; so what epoll holds for a number always names the *)
(* request last armed on it, and never a freed one.                        *)
(***************************************************************************)
EXTENDS HttpServer, TLAPS, FiniteSetTheorems, NaturalsInduction, SequenceTheorems

\* a request in the heap has a number and a timer; a freed one has nothing
HeapRight ==
    \A a \in Addr : IF rq[a].live THEN rq[a].fd \in Fd /\ rq[a].timer \in Node
                                  ELSE rq[a] = NoRq

\* do_request runs for a request in the heap
CurLive == pc = "request" => cur \in Addr /\ rq[cur].live

\* what epoll holds for a number is of an open connection, and of a request
\* that has that number
RegMatches ==
    \A f \in Fd :
        /\ reg[f].ptr # None => /\ fdt[f] # None
                                /\ rq[reg[f].ptr].live /\ rq[reg[f].ptr].fd = f
        /\ reg[f].armed => reg[f].ptr # None

ReadyOpen == \A f \in ready : f # Listen => reg[f].ptr # None

\* a connection has at most one number, and is open as long as it has one
TableMatches ==
    /\ \A f \in Fd : fdt[f] # None => sock[fdt[f]] = "open"
    /\ \A f, g \in Fd : fdt[f] # None /\ fdt[f] = fdt[g] => f = g

\* the events of a round are all taken before the next one
EventsTaken ==
    /\ pc \in {"find", "wait"} => events = {}
    /\ \A e \in events : e.err => ~NoResets

\* the loop will read from the number, or reads from it now
Attended(f) ==
    \/ f \in ready
    \/ \E e \in events : e.ptr # Listen /\ rq[e.ptr].fd = f
    \/ pc = "request" /\ rq[cur].fd = f

\* a number the loop will not come to by itself is armed, with nothing to read
InputSeen ==
    \A f \in Fd : fdt[f] # None =>
        Attended(f) \/ (reg[f].armed /\ ~Readable(fdt[f]))

\* the same of the listening socket
ConnectionsSeen ==
    (NumbersSuffice /\ \E c \in Conn : sock[c] = "backlog") =>
        \/ Listen \in ready
        \/ \E e \in events : e.ptr = Listen
        \/ pc = "accept"

\* without resets requests and open connections belong to each other
Paired ==
    NoResets =>
        /\ \A a \in Addr : rq[a].live => Owns(a, rq[a].fd)
        /\ \A c \in Conn : sock[c] = "open" =>
              \E a \in Addr : rq[a].live /\ fdt[rq[a].fd] = c

Sound ==
    /\ HeapRight /\ CurLive /\ OneTimerEach
    /\ RegMatches /\ ReadyOpen /\ TableMatches /\ EventsTaken
    /\ InputSeen /\ ConnectionsSeen /\ Paired

Inv ==
    /\ TypeOK /\ BufferFits /\ TimersFindLive
    /\ crash = None => Sound

-----------------------------------------------------------------------------
\* Numbers have least elements.
LEMMA MinFacts ==
    ASSUME NEW S \in SUBSET Nat, S # {}
    PROVE  Min(S) \in S /\ \A y \in S : Min(S) <= y
<1>1. PICK m \in S : \A y \in S : ~(<<y, m>> \in OpToRel(<, Nat))
  BY NatLessThanWellFounded, WFMin
<1>2. ASSUME NEW y \in S, y < m PROVE FALSE
  <2>1. <<y, m>> \in OpToRel(<, Nat)
    BY <1>2 DEF OpToRel
  <2> QED
    BY <2>1, <1>1
<1>3. \A y \in S : m <= y
  BY <1>2
<1> QED
  BY <1>3 DEF Min

LEMMA InvInit ==
    ASSUME Init
    PROVE  Inv
<1> USE BoundsAssumption DEF Init, NoRq, NoReg, NoNode
<1>1. TypeOK /\ BufferFits /\ TimersFindLive
  BY DEF TypeOK, BufferFits, TimersFindLive, Undefined
<1>2. HeapRight /\ CurLive /\ RegMatches /\ ReadyOpen /\ TableMatches /\ EventsTaken
  BY DEF HeapRight, CurLive, RegMatches, ReadyOpen, TableMatches, EventsTaken
<1>3. OneTimerEach
  BY DEF OneTimerEach, InUse, Queued
<1>4. InputSeen /\ ConnectionsSeen /\ Paired
  BY DEF InputSeen, ConnectionsSeen, Paired
<1> QED
  BY <1>1, <1>2, <1>3, <1>4 DEF Inv, Sound

-----------------------------------------------------------------------------
(***************************************************************************)
(* The clients and the clock.                                              *)
(***************************************************************************)
\* What arrives on a number that is armed is on the ready list.
LEMMA NotifySuffices ==
    ASSUME RegMatches, ReadyOpen, InputSeen, NEW c \in Conn, Notify(c),
           UNCHANGED <<fdt, reg, rq, events, pc, cur>>,
           \A d \in Conn \ {c} : Readable(d)' <=> Readable(d),
           fdt \in [Fd -> Conn \cup {None}]
    PROVE  ReadyOpen' /\ InputSeen'
<1>1. ReadyOpen'
  BY DEF ReadyOpen, RegMatches, Notify, FdsOf
<1>2. ASSUME NEW f \in Fd, fdt[f] # None
      PROVE  Attended(f)' \/ (reg'[f].armed /\ ~Readable(fdt[f])')
  <2>1. CASE Attended(f)
    BY <2>1 DEF Attended, Notify
  <2>2. CASE reg[f].armed /\ ~Readable(fdt[f]) /\ fdt[f] = c
    BY <2>2 DEF Attended, Notify, FdsOf
  <2>3. CASE reg[f].armed /\ ~Readable(fdt[f]) /\ fdt[f] # c
    BY <2>3, <1>2
  <2> QED
    BY <2>1, <2>2, <2>3, <1>2 DEF InputSeen
<1>3. InputSeen'
  BY <1>2 DEF InputSeen
<1> QED
  BY <1>1, <1>3

LEMMA ConnectKeeps ==
    ASSUME Inv, NEW c \in Conn, Connect(c)
    PROVE  Inv'
<1> USE BoundsAssumption DEF Connect, client
<1>1. TypeOK /\ BufferFits /\ TimersFindLive /\ Sound /\ crash = None
  BY DEF Inv
<1>2. TypeOK' /\ BufferFits' /\ TimersFindLive'
  BY <1>1 DEF TypeOK, BufferFits, TimersFindLive, NoResets
<1>3. HeapRight' /\ CurLive' /\ RegMatches' /\ ReadyOpen' /\ EventsTaken'
  BY <1>1 DEF Sound, HeapRight, CurLive, RegMatches, ReadyOpen, EventsTaken, NoResets
<1>4. OneTimerEach'
  BY <1>1 DEF Sound, OneTimerEach, InUse, Queued
<1>5. TableMatches'
  BY <1>1 DEF Sound, TableMatches, TypeOK
<1>6. InputSeen'
  BY <1>1 DEF Sound, InputSeen, Attended, Readable
<1>7. ConnectionsSeen'
  BY DEF ConnectionsSeen
<1>8. Paired'
  BY <1>1 DEF Sound, Paired, NoResets, Owns, TypeOK
<1> QED
  BY <1>2, <1>3, <1>4, <1>5, <1>6, <1>7, <1>8 DEF Inv, Sound

\* What a client does to its own connection disturbs only what is seen of it.
LEMMA ArrivalKeeps ==
    ASSUME Inv, crash = None, NEW c \in Conn, TypeOK', Notify(c),
           UNCHANGED <<sock, fdt, reg, rq, node, events, pc, cur, crash>>,
           \A d \in Conn \ {c} : Readable(d)' <=> Readable(d), NoResets' => NoResets
    PROVE  Inv'
<1>1. TypeOK /\ BufferFits /\ TimersFindLive /\ Sound
  BY DEF Inv
<1>2. BufferFits' /\ TimersFindLive'
  BY <1>1 DEF BufferFits, TimersFindLive
<1>3. HeapRight' /\ CurLive' /\ RegMatches' /\ EventsTaken' /\ TableMatches'
  BY <1>1 DEF Sound, HeapRight, CurLive, RegMatches, EventsTaken, TableMatches
<1>4. OneTimerEach'
  BY <1>1 DEF Sound, OneTimerEach, InUse, Queued
<1>5. ReadyOpen' /\ InputSeen'
  BY <1>1, NotifySuffices DEF Sound, TypeOK
<1>6. ConnectionsSeen' /\ Paired'
  BY <1>1 DEF Sound, ConnectionsSeen, Paired, Owns, Notify
<1> QED
  BY <1>2, <1>3, <1>4, <1>5, <1>6 DEF Inv, Sound

LEMMA SendKeeps ==
    ASSUME Inv, NEW c \in Conn, NEW p \in Piece, Send(c, p)
    PROVE  Inv'
<1> USE BoundsAssumption DEF Send, MaySend
<1>1. TypeOK'
  <2>1. sent' \in [Conn -> 0 .. MaxSend]
    BY DEF Inv, TypeOK
  <2>2. in' \in [Conn -> Seq(Piece)]
    BY DEF Inv, TypeOK
  <2> QED
    BY <2>1, <2>2 DEF Inv, TypeOK, Notify, FdsOf
<1>2. \A d \in Conn \ {c} : Readable(d)' <=> Readable(d)
  BY DEF Inv, TypeOK, Readable
<1> QED
  BY <1>1, <1>2, ArrivalKeeps DEF NoResets

LEMMA ShutKeeps ==
    ASSUME Inv, NEW c \in Conn, Shut(c)
    PROVE  Inv'
<1> USE BoundsAssumption DEF Shut, MaySend
<1>1. TypeOK'
  BY DEF Inv, TypeOK, Notify, FdsOf
<1>2. \A d \in Conn \ {c} : Readable(d)' <=> Readable(d)
  BY DEF Inv, TypeOK, Readable
<1> QED
  BY <1>1, <1>2, ArrivalKeeps DEF NoResets

LEMMA ResetKeeps ==
    ASSUME Inv, NEW c \in Conn, Reset(c)
    PROVE  Inv'
<1> USE BoundsAssumption DEF Reset
<1>1. TypeOK'
  <2>1. in' \in [Conn -> Seq(Piece)]
    BY DEF Inv, TypeOK
  <2> QED
    BY <2>1 DEF Inv, TypeOK, Notify, FdsOf
<1>2. \A d \in Conn \ {c} : Readable(d)' <=> Readable(d)
  BY DEF Inv, TypeOK, Readable
<1>3. NoResets' => NoResets
  BY DEF Inv, TypeOK, NoResets
<1> QED
  BY <1>1, <1>2, <1>3, ArrivalKeeps

LEMMA TickKeeps ==
    ASSUME Inv, Tick
    PROVE  Inv'
<1> USE BoundsAssumption DEF Tick, client
<1>1. TypeOK /\ BufferFits /\ TimersFindLive /\ Sound /\ crash = None
  BY DEF Inv
<1>2. TypeOK'
  <2>1. ASSUME NEW n \in Node
        PROVE  node'[n] \in [rq : Addr \cup {None}, left : 0 .. Timeout, deleted : BOOLEAN]
    <3>1. node[n] \in [rq : Addr \cup {None}, left : 0 .. Timeout, deleted : BOOLEAN]
      BY <1>1 DEF TypeOK
    <3> QED
      BY <3>1
  <2>2. node' \in [Node -> [rq : Addr \cup {None}, left : 0 .. Timeout, deleted : BOOLEAN]]
    BY <2>1
  <2> QED
    BY <2>2, <1>1 DEF TypeOK
<1>3. \A n \in Node : node'[n].rq = node[n].rq /\ node'[n].deleted = node[n].deleted
  BY <1>1 DEF TypeOK
<1>4. OneTimerEach'
  BY <1>1, <1>3 DEF Sound, OneTimerEach, InUse, Queued
<1>5. BufferFits' /\ TimersFindLive'
  BY <1>1 DEF BufferFits, TimersFindLive, NoResets
<1>6. HeapRight' /\ CurLive' /\ RegMatches' /\ ReadyOpen' /\ EventsTaken' /\ TableMatches'
  BY <1>1 DEF Sound, HeapRight, CurLive, RegMatches, ReadyOpen, EventsTaken, NoResets,
              TableMatches
<1>7. InputSeen' /\ ConnectionsSeen' /\ Paired'
  BY <1>1 DEF Sound, InputSeen, Attended, Readable, ConnectionsSeen, Paired, NoResets, Owns
<1> QED
  BY <1>2, <1>4, <1>5, <1>6, <1>7 DEF Inv, Sound

-----------------------------------------------------------------------------
(***************************************************************************)
(* The loop: the steps that only move it on.                               *)
(***************************************************************************)
LEMMA ControlKeeps ==
    ASSUME Inv, crash = None, pc # "request",
           UNCHANGED <<sock, in, client, fdt, reg, ready, rq, node, cur, crash>>,
           pc' \in {"find", "wait", "expire", "events", "accept"},
           events' \subseteq events, \A e \in events : e.ptr # Listen => e \in events',
           pc' \in {"find", "wait"} => events' = {}, ConnectionsSeen'
    PROVE  Inv'
<1> USE DEF client
<1>1. TypeOK /\ BufferFits /\ TimersFindLive /\ Sound
  BY DEF Inv
<1>2. TypeOK' /\ BufferFits' /\ TimersFindLive'
  BY <1>1 DEF TypeOK, BufferFits, TimersFindLive, NoResets
<1>3. HeapRight' /\ CurLive' /\ RegMatches' /\ ReadyOpen' /\ EventsTaken' /\ TableMatches'
  BY <1>1 DEF Sound, HeapRight, CurLive, RegMatches, ReadyOpen, EventsTaken, NoResets,
              TableMatches
<1>4. OneTimerEach'
  BY <1>1 DEF Sound, OneTimerEach, InUse, Queued
<1>5. InputSeen' /\ Paired'
  BY <1>1 DEF Sound, InputSeen, Attended, Readable, Paired, NoResets, Owns
<1> QED
  BY <1>2, <1>3, <1>4, <1>5 DEF Inv, Sound

LEMMA MovesKeep ==
    ASSUME Inv, FindDone \/ ExpireDone \/ LoopDone \/ EventListen
    PROVE  Inv'
<1>1. Sound /\ crash = None
  BY DEF Inv, At, FindDone, ExpireDone, LoopDone, EventListen
<1>2. ConnectionsSeen'
  BY <1>1 DEF Sound, EventsTaken, ConnectionsSeen, At, FindDone, ExpireDone, LoopDone,
              EventListen
<1>3. CASE FindDone \/ ExpireDone \/ LoopDone
  <2>1. pc # "request" /\ pc' \in {"find", "wait", "expire", "events", "accept"}
        /\ events' = events /\ (pc' \in {"find", "wait"} => events' = {})
    BY <1>1, <1>3 DEF Sound, EventsTaken, At, FindDone, ExpireDone, LoopDone
  <2>2. UNCHANGED <<sock, in, client, fdt, reg, ready, rq, node, cur, crash>>
    BY <1>3 DEF At, FindDone, ExpireDone, LoopDone
  <2> QED
    BY <1>1, <1>2, <2>1, <2>2, ControlKeeps
<1>4. CASE EventListen
  BY <1>1, <1>2, <1>4, ControlKeeps DEF EventListen, At
<1> QED
  BY <1>3, <1>4

\* While somebody waits to be accepted the others do not use all numbers.
LEMMA NumberLeft ==
    ASSUME TypeOK, TableMatches, NumbersSuffice, NEW c \in Conn, sock[c] = "backlog"
    PROVE  \E g \in Fd : fdt[g] = None
<1> SUFFICES ASSUME \A g \in Fd : fdt[g] # None
             PROVE  FALSE
  OBVIOUS
<1>1. \A g \in Fd : fdt[g] \in Conn \ {c}
  BY DEF TypeOK, TableMatches
<1>2. fdt \in Injection(Fd, Conn \ {c})
  BY <1>1 DEF TypeOK, TableMatches, Injection, IsInjective
<1>3. IsFiniteSet(Conn \ {c}) /\ Cardinality(Conn \ {c}) = Cardinality(Conn) - 1
  BY FS_RemoveElement DEF NumbersSuffice
<1>4. Cardinality(Fd) <= Cardinality(Conn \ {c})
  BY <1>2, <1>3, FS_Injection
<1>5. Cardinality(Fd) \in Nat /\ Cardinality(Conn) \in Nat
  BY FS_CardinalityType DEF NumbersSuffice
<1> QED
  BY <1>3, <1>4, <1>5 DEF NumbersSuffice

LEMMA AcceptDoneKeeps ==
    ASSUME Inv, AcceptDone
    PROVE  Inv'
<1> USE DEF AcceptDone, At
<1>1. TypeOK /\ TableMatches
  BY DEF Inv, Sound
<1>2. ConnectionsSeen'
  <2>1. NumbersSuffice => \A c \in Conn : sock[c] # "backlog"
    BY <1>1, NumberLeft
  <2> QED
    BY <2>1 DEF ConnectionsSeen
<1> QED
  BY <1>2, ControlKeeps

\* The steps on which freed memory is used.
LEMMA CrashKeeps ==
    ASSUME Inv, EventStale \/ ReadEof \/ ReadError
    PROVE  Inv'
<1> USE BoundsAssumption DEF EventStale, ReadEof, ReadError, At, client, Undefined
<1>1. TypeOK /\ BufferFits /\ TimersFindLive /\ Sound
  BY DEF Inv
<1>2. UNCHANGED <<sock, in, client, fdt, reg, ready, rq, node, events, pc, cur>>
      /\ crash' \in {"stale", "eof", "read"} /\ crash' # None
  OBVIOUS
<1>3. TypeOK' /\ BufferFits'
  BY <1>1, <1>2 DEF TypeOK, BufferFits
<1>4. ASSUME ReadError, NoResets PROVE FALSE
  <2>1. cur \in Addr /\ rq[cur].live /\ rq[cur].fd \in Fd
    BY <1>1, <1>4 DEF Sound, CurLive, HeapRight
  <2>2. Peer # None
    BY <1>1, <1>4, <2>1 DEF Sound, Paired, Owns, Peer
  <2>3. Peer \in Conn
    BY <1>1, <2>1, <2>2 DEF Peer, TypeOK
  <2> QED
    BY <2>3, <1>4 DEF NoResets
<1>5. TimersFindLive'
  BY <1>2, <1>4 DEF TimersFindLive, NoResets
<1> QED
  BY <1>2, <1>3, <1>5 DEF Inv

-----------------------------------------------------------------------------
(***************************************************************************)
(* The loop: timers.                                                       *)
(***************************************************************************)
\* A node that is deleted is not one OneTimerEach counts.
LEMMA PopDeletedKeeps ==
    ASSUME Inv, PopDeleted
    PROVE  Inv'
<1> USE BoundsAssumption DEF client
<1>1. TypeOK /\ BufferFits /\ TimersFindLive /\ Sound
  BY DEF Inv, PopDeleted
<1>2. PICK n \in Node : node[n].deleted /\ node' = [node EXCEPT ![n] = NoNode]
  BY DEF PopDeleted, Roots, Queued
<1>3. UNCHANGED <<sock, in, client, fdt, reg, ready, rq, events, pc, cur, crash>>
  BY DEF PopDeleted
<1>4. NoNode \in [rq : Addr \cup {None}, left : 0 .. Timeout, deleted : BOOLEAN]
  BY DEF NoNode
<1>5. node' \in [Node -> [rq : Addr \cup {None}, left : 0 .. Timeout, deleted : BOOLEAN]]
  BY <1>1, <1>2, <1>4 DEF TypeOK
<1>6. TypeOK' /\ BufferFits' /\ TimersFindLive'
  BY <1>1, <1>3, <1>5 DEF TypeOK, BufferFits, TimersFindLive, NoResets
<1>7. ASSUME OneTimerEach PROVE OneTimerEach'
  <2>1. \A a \in Addr : {m \in Queued : node[m].rq = a /\ ~node[m].deleted}'
                            = {m \in Queued : node[m].rq = a /\ ~node[m].deleted}
    BY <1>1, <1>2 DEF TypeOK, Queued, NoNode
  <2> QED
    BY <2>1, <1>3, <1>7 DEF OneTimerEach, InUse
<1>8. HeapRight' /\ CurLive' /\ RegMatches' /\ ReadyOpen' /\ EventsTaken' /\ TableMatches'
  BY <1>1, <1>3 DEF Sound, HeapRight, CurLive, RegMatches, ReadyOpen, EventsTaken, NoResets,
                    TableMatches
<1>9. InputSeen' /\ ConnectionsSeen' /\ Paired'
  BY <1>1, <1>3 DEF Sound, InputSeen, Attended, Readable, ConnectionsSeen, Paired, NoResets,
                    Owns
<1> QED
  BY <1>1, <1>3, <1>6, <1>7, <1>8, <1>9 DEF Inv, Sound

\* close(2) keeps the kernel's tables in order.
LEMMA CloseFacts ==
    ASSUME TypeOK, TableMatches, NEW f \in Fd, Close(f)
    PROVE  /\ sock' \in [Conn -> {"none", "backlog", "open", "closed"}]
           /\ fdt' \in [Fd -> Conn \cup {None}]
           /\ reg' \in [Fd -> [ptr : Addr \cup {None}, armed : BOOLEAN]]
           /\ ready' \subseteq Fd \cup {Listen}
           /\ TableMatches'
           /\ fdt'[f] = None /\ reg'[f] = NoReg
           /\ \A g \in Fd \ {f} : fdt'[g] = fdt[g] /\ reg'[g] = reg[g]
           /\ \A c \in Conn : sock'[c] = IF fdt[f] = c THEN "closed" ELSE sock[c]
<1> USE BoundsAssumption DEF Close
<1>1. NoReg \in [ptr : Addr \cup {None}, armed : BOOLEAN]
  BY DEF NoReg
<1>2. /\ sock' \in [Conn -> {"none", "backlog", "open", "closed"}]
      /\ fdt' \in [Fd -> Conn \cup {None}]
      /\ ready' \subseteq Fd \cup {Listen}
  BY DEF TypeOK
<1>3. reg' \in [Fd -> [ptr : Addr \cup {None}, armed : BOOLEAN]]
  BY <1>1 DEF TypeOK
<1>4. /\ fdt'[f] = None /\ reg'[f] = NoReg
      /\ \A g \in Fd \ {f} : fdt'[g] = fdt[g] /\ reg'[g] = reg[g]
      /\ \A c \in Conn : sock'[c] = IF fdt[f] = c THEN "closed" ELSE sock[c]
  BY DEF TypeOK
<1>5. TableMatches'
  <2>1. ASSUME NEW g \in Fd, fdt'[g] # None PROVE sock'[fdt'[g]] = "open"
    <3>1. g # f /\ fdt[g] \in Conn /\ fdt'[g] = fdt[g] /\ fdt[g] # fdt[f]
      BY <2>1, <1>4 DEF TypeOK, TableMatches
    <3> QED
      BY <3>1, <1>4 DEF TableMatches
  <2>2. \A g, h \in Fd : fdt'[g] # None /\ fdt'[g] = fdt'[h] => g = h
    BY <1>4 DEF TableMatches
  <2> QED
    BY <2>1, <2>2 DEF TableMatches
<1> QED
  BY <1>2, <1>3, <1>4, <1>5

\* The timer that fires is its request's own.
LEMMA FireIsOwn ==
    ASSUME TypeOK, OneTimerEach, crash = None, pc = "expire",
           NEW n \in Roots, ~node[n].deleted
    PROVE  /\ n \in Node /\ node[n].rq \in Addr
           /\ rq[node[n].rq].live /\ rq[node[n].rq].timer = n
<1>1. n \in Queued /\ n \in Node /\ node[n].rq \in Addr
  BY DEF Roots, Queued, TypeOK
<1> DEFINE a == node[n].rq
<1>2. n \in {m \in Queued : node[m].rq = a /\ ~node[m].deleted}
  BY <1>1
<1>3. n \in (IF InUse(a) THEN {rq[a].timer} ELSE {})
  BY <1>1, <1>2 DEF OneTimerEach
<1> QED
  BY <1>1, <1>3 DEF InUse

\* Its end frees the request and closes the number, for which nobody else is
\* registered.
LEMMA FireKeeps ==
    ASSUME Inv, Fire
    PROVE  Inv'
<1> USE BoundsAssumption
<1>1. TypeOK /\ BufferFits /\ TimersFindLive /\ Sound /\ crash = None /\ pc = "expire"
  BY DEF Inv, Fire, At
<1>2. PICK n \in Roots :
         /\ ~node[n].deleted
         /\ rq[node[n].rq].live => CloseConn(node[n].rq) /\ crash' = crash
         /\ node' = [node EXCEPT ![n] = NoNode]
  BY DEF Fire
<1> DEFINE a == node[n].rq
           f == rq[a].fd
<1>3. n \in Node /\ a \in Addr /\ rq[a].live /\ rq[a].timer = n
  BY <1>1, <1>2, FireIsOwn DEF Sound
<1>4. /\ Close(f) /\ rq' = [rq EXCEPT ![a] = NoRq] /\ crash' = None
      /\ UNCHANGED <<in, client, events, pc, cur>>
  BY <1>1, <1>2, <1>3 DEF CloseConn, Fire
<1>5. f \in Fd
  BY <1>1, <1>3 DEF Sound, HeapRight
<1> HIDE DEF a, f
<1>6. /\ sock' \in [Conn -> {"none", "backlog", "open", "closed"}]
      /\ fdt' \in [Fd -> Conn \cup {None}]
      /\ reg' \in [Fd -> [ptr : Addr \cup {None}, armed : BOOLEAN]]
      /\ ready' \subseteq Fd \cup {Listen} /\ TableMatches'
      /\ fdt'[f] = None /\ reg'[f] = NoReg
      /\ \A g \in Fd \ {f} : fdt'[g] = fdt[g] /\ reg'[g] = reg[g]
      /\ \A c \in Conn : sock'[c] = IF fdt[f] = c THEN "closed" ELSE sock[c]
  BY <1>1, <1>4, <1>5, CloseFacts DEF Sound
<1>7. /\ node' \in [Node -> [rq : Addr \cup {None}, left : 0 .. Timeout, deleted : BOOLEAN]]
      /\ node'[n].rq = None /\ \A m \in Node \ {n} : node'[m] = node[m]
  <2>1. NoNode \in [rq : Addr \cup {None}, left : 0 .. Timeout, deleted : BOOLEAN]
    BY DEF NoNode
  <2> QED
    BY <1>1, <1>2, <1>3, <2>1 DEF TypeOK, NoNode
<1>8. /\ rq' \in [Addr -> [live : BOOLEAN, fd : Fd \cup {None},
                           timer : Node \cup {None}, buf : Seq(Piece)]]
      /\ rq'[a] = NoRq /\ \A b \in Addr \ {a} : rq'[b] = rq[b]
  <2>1. NoRq \in [live : BOOLEAN, fd : Fd \cup {None}, timer : Node \cup {None},
                  buf : Seq(Piece)]
    BY DEF NoRq
  <2> QED
    BY <1>1, <1>3, <1>4, <2>1 DEF TypeOK
<1>9. TypeOK'
  BY <1>1, <1>4, <1>6, <1>7, <1>8 DEF TypeOK, client
<1>10. BufferFits' /\ TimersFindLive'
  <2>1. ASSUME NEW b \in Addr PROVE Len(rq'[b].buf) < MaxBuf
    BY <1>1, <1>8 DEF BufferFits, NoRq
  <2> QED
    BY <2>1, <1>4 DEF BufferFits, TimersFindLive, Undefined
<1>11. HeapRight' /\ CurLive'
  BY <1>1, <1>4, <1>8 DEF Sound, HeapRight, CurLive, NoRq
<1>12. OneTimerEach'
  <2> SUFFICES ASSUME NEW b \in Addr
               PROVE  {m \in Queued : node[m].rq = b /\ ~node[m].deleted}'
                          = IF InUse(b)' THEN {rq'[b].timer} ELSE {}
    BY DEF OneTimerEach
  <2>1. {m \in Queued : node[m].rq = b /\ ~node[m].deleted}
            = IF InUse(b) THEN {rq[b].timer} ELSE {}
    BY <1>1 DEF Sound, OneTimerEach
  <2>2. CASE b = a
    <3>1. \A m \in Node : node[m].rq = a /\ ~node[m].deleted /\ node[m].rq # None => m = n
      BY <2>1, <2>2, <1>3 DEF Queued
    <3> QED
      BY <3>1, <2>2, <1>7, <1>8 DEF Queued, InUse, NoRq
  <2>3. CASE b # a
    <3>1. {m \in Queued : node[m].rq = b /\ ~node[m].deleted}'
              = {m \in Queued : node[m].rq = b /\ ~node[m].deleted}
      BY <2>3, <1>3, <1>7 DEF Queued, a
    <3> QED
      BY <3>1, <2>1, <2>3, <1>4, <1>8 DEF InUse
  <2> QED
    BY <2>2, <2>3
<1>13. \A g \in Fd : reg'[g].ptr # None =>
           /\ g # f /\ reg[g].ptr # None /\ reg'[g].ptr = reg[g].ptr
           /\ reg[g].ptr \in Addr \ {a}
  BY <1>1, <1>6 DEF Sound, RegMatches, NoReg, TypeOK, f
<1>14. RegMatches'
  <2> SUFFICES ASSUME NEW g \in Fd
               PROVE  /\ reg'[g].ptr # None => /\ fdt'[g] # None
                                               /\ rq'[reg'[g].ptr].live
                                               /\ rq'[reg'[g].ptr].fd = g
                      /\ reg'[g].armed => reg'[g].ptr # None
    BY DEF RegMatches
  <2>1. CASE g = f
    BY <2>1, <1>6 DEF NoReg
  <2>2. CASE g # f
    BY <2>2, <1>1, <1>6, <1>8, <1>13 DEF Sound, RegMatches
  <2> QED
    BY <2>1, <2>2
<1>15. ready' = ready \ {f}
  BY <1>4 DEF Close
<1>16. ReadyOpen' /\ EventsTaken'
  BY <1>1, <1>4, <1>6, <1>15 DEF Sound, ReadyOpen, EventsTaken, NoResets, TypeOK, client
<1>17. InputSeen'
  <2> SUFFICES ASSUME NEW g \in Fd, fdt'[g] # None
               PROVE  Attended(g)' \/ (reg'[g].armed /\ ~Readable(fdt[g])')
    BY DEF InputSeen
  <2>1. g # f /\ fdt'[g] = fdt[g] /\ fdt[g] # None /\ reg'[g] = reg[g]
    BY <1>6
  <2>2. CASE Attended(g)
    <3>1. ASSUME NEW e \in events, e.ptr # Listen, rq[e.ptr].fd = g
          PROVE  rq'[e.ptr].fd = g
      BY <3>1, <2>1, <1>1, <1>8 DEF TypeOK, f
    <3> QED
      BY <3>1, <2>1, <2>2, <1>1, <1>4, <1>15 DEF Attended
  <2>3. CASE reg[g].armed /\ ~Readable(fdt[g])
    BY <2>1, <2>3, <1>4 DEF Readable, client
  <2> QED
    BY <2>1, <2>2, <2>3, <1>1 DEF Sound, InputSeen
<1>18. ConnectionsSeen'
  BY <1>1, <1>4, <1>5, <1>6, <1>15 DEF Sound, ConnectionsSeen, NumbersSuffice
<1>19. Paired'
  <2> SUFFICES ASSUME NoResets
               PROVE  /\ \A b \in Addr : rq'[b].live => Owns(b, rq[b].fd)'
                      /\ \A c \in Conn : sock'[c] = "open" =>
                            \E b \in Addr : rq'[b].live /\ fdt'[rq'[b].fd] = c
    BY <1>4 DEF Paired, NoResets, client
  <2>1. /\ \A b \in Addr : rq[b].live => Owns(b, rq[b].fd)
        /\ \A c \in Conn : sock[c] = "open" =>
              \E b \in Addr : rq[b].live /\ fdt[rq[b].fd] = c
    BY <1>1 DEF Sound, Paired
  <2>2. ASSUME NEW b \in Addr \ {a}, rq[b].live PROVE rq[b].fd \in Fd \ {f}
    BY <2>1, <2>2, <1>1, <1>3 DEF Owns, Sound, HeapRight, f
  <2>3. ASSUME NEW b \in Addr, rq'[b].live PROVE Owns(b, rq[b].fd)'
    <3>1. b # a
      BY <2>3, <1>8 DEF NoRq
    <3>2. rq'[b] = rq[b] /\ rq[b].live /\ rq[b].fd \in Fd \ {f} /\ Owns(b, rq[b].fd)
      BY <3>1, <2>1, <2>2, <2>3, <1>8
    <3>3. fdt'[rq[b].fd] = fdt[rq[b].fd] /\ reg'[rq[b].fd] = reg[rq[b].fd]
      BY <3>2, <1>6
    <3> QED
      BY <3>2, <3>3 DEF Owns
  <2>4. ASSUME NEW c \in Conn, sock'[c] = "open"
        PROVE  \E b \in Addr : rq'[b].live /\ fdt'[rq'[b].fd] = c
    <3>1. sock[c] = "open" /\ fdt[f] # c
      BY <2>4, <1>6
    <3>2. PICK b \in Addr : rq[b].live /\ fdt[rq[b].fd] = c
      BY <2>1, <3>1
    <3>3. b # a
      BY <3>1, <3>2 DEF f
    <3> QED
      BY <2>2, <3>2, <3>3, <1>6, <1>8
  <2> QED
    BY <2>3, <2>4
<1> QED
  BY <1>6, <1>9, <1>10, <1>11, <1>12, <1>14, <1>16, <1>17, <1>18, <1>19 DEF Inv, Sound

-----------------------------------------------------------------------------
(***************************************************************************)
(* The loop: epoll_wait and its events.                                    *)
(***************************************************************************)
LEMMA WaitKeeps ==
    ASSUME Inv, Wait
    PROVE  Inv'
<1> USE BoundsAssumption DEF Wait, At, client
<1>1. TypeOK /\ BufferFits /\ TimersFindLive /\ Sound /\ crash = None /\ pc = "wait"
  BY DEF Inv
<1>2. events = {}
  BY <1>1 DEF Sound, EventsTaken
<1>3. \A f \in ready \ {Listen} : f \in Fd /\ reg[f].ptr \in Addr /\ fdt[f] \in Conn
  BY <1>1 DEF Sound, ReadyOpen, RegMatches, TypeOK
<1>4. \A f \in Fd : reg'[f].ptr = reg[f].ptr /\ reg'[f].armed = (reg[f].armed /\ f \notin ready)
  BY <1>1 DEF TypeOK
<1>5. TypeOK'
  <2>1. events' \subseteq [ptr : Addr \cup {Listen}, err : BOOLEAN]
    <3>1. rst \in [Conn -> BOOLEAN]
      BY <1>1 DEF TypeOK
    <3>2. \A f \in ready \ {Listen} : rst[fdt[f]] \in BOOLEAN
      BY <3>1, <1>3
    <3> DEFINE E(f) == IF f = Listen THEN [ptr |-> Listen, err |-> FALSE]
                       ELSE [ptr |-> reg[f].ptr, err |-> rst[fdt[f]]]
    <3>3. ASSUME NEW f \in ready
          PROVE  E(f) \in [ptr : Addr \cup {Listen}, err : BOOLEAN]
      <4>1. CASE f = Listen
        BY <4>1
      <4>2. CASE f # Listen
        BY <4>2, <3>2, <1>3
      <4> QED
        BY <4>1, <4>2
    <3>4. events' = {E(f) : f \in ready}
      OBVIOUS
    <3> HIDE DEF E
    <3> QED
      BY <3>3, <3>4
  <2>2. reg' \in [Fd -> [ptr : Addr \cup {None}, armed : BOOLEAN]]
    <3>1. \A f \in Fd : reg[f] \in [ptr : Addr \cup {None}, armed : BOOLEAN]
      BY <1>1 DEF TypeOK
    <3>2. \A f \in Fd : (reg[f].armed /\ f \notin ready) \in BOOLEAN
      OBVIOUS
    <3> QED
      BY <3>1, <3>2
  <2> QED
    BY <2>1, <2>2, <1>1 DEF TypeOK
<1>6. BufferFits' /\ TimersFindLive'
  BY <1>1 DEF BufferFits, TimersFindLive, NoResets
<1>7. HeapRight' /\ CurLive' /\ ReadyOpen' /\ TableMatches'
  BY <1>1 DEF Sound, HeapRight, CurLive, ReadyOpen, TableMatches
<1>8. RegMatches'
  BY <1>1, <1>4 DEF Sound, RegMatches
<1>9. OneTimerEach'
  BY <1>1 DEF Sound, OneTimerEach, InUse, Queued
<1>10. EventsTaken'
  BY <1>3 DEF EventsTaken, NoResets
<1>11. InputSeen'
  <2> SUFFICES ASSUME NEW f \in Fd, fdt[f] # None
               PROVE  Attended(f)' \/ (reg'[f].armed /\ ~Readable(fdt[f])')
    BY DEF InputSeen
  <2>1. CASE f \in ready
    <3>1. f # Listen /\ reg[f].ptr \in Addr /\ rq[reg[f].ptr].fd = f
      BY <2>1, <1>1, <1>3 DEF Sound, RegMatches
    <3>2. [ptr |-> reg[f].ptr, err |-> rst[fdt[f]]] \in events'
      BY <2>1, <3>1
    <3>3. \E e \in events' : e.ptr # Listen /\ rq'[e.ptr].fd = f
      BY <3>1, <3>2
    <3> QED
      BY <3>3 DEF Attended
  <2>2. CASE f \notin ready
    BY <2>2, <1>1, <1>2, <1>4 DEF Sound, InputSeen, Attended, Readable
  <2> QED
    BY <2>1, <2>2
<1>12. ConnectionsSeen'
  <2>1. CASE Listen \in ready
    <3>1. [ptr |-> Listen, err |-> FALSE] \in events'
      BY <2>1
    <3> QED
      BY <3>1 DEF ConnectionsSeen
  <2>2. CASE Listen \notin ready
    BY <2>2, <1>1, <1>2 DEF Sound, ConnectionsSeen
  <2> QED
    BY <2>1, <2>2
<1>13. Paired'
  BY <1>1, <1>4 DEF Sound, Paired, Owns, NoResets, HeapRight
<1> QED
  BY <1>5, <1>6, <1>7, <1>8, <1>9, <1>10, <1>11, <1>12, <1>13 DEF Inv, Sound

\* A number is closed only after a reset, of which no more is claimed.
LEMMA EventErrorKeeps ==
    ASSUME Inv, EventError
    PROVE  Inv'
<1> USE BoundsAssumption
<1>1. TypeOK /\ BufferFits /\ TimersFindLive /\ Sound /\ crash = None /\ pc = "events"
  BY DEF Inv, EventError, At
<1>2. PICK e \in events : /\ e.ptr # Listen /\ rq[e.ptr].live /\ e.err
                          /\ Close(rq[e.ptr].fd) /\ events' = events \ {e}
  BY DEF EventError
<1>3. UNCHANGED <<in, client, rq, node, pc, cur, crash>>
  BY DEF EventError
<1> DEFINE a == e.ptr
           f == rq[a].fd
<1>4. a \in Addr /\ f \in Fd /\ ~NoResets
  BY <1>1, <1>2 DEF TypeOK, Sound, HeapRight, EventsTaken
<1> HIDE DEF f
<1>5. /\ sock' \in [Conn -> {"none", "backlog", "open", "closed"}]
      /\ fdt' \in [Fd -> Conn \cup {None}]
      /\ reg' \in [Fd -> [ptr : Addr \cup {None}, armed : BOOLEAN]]
      /\ ready' \subseteq Fd \cup {Listen} /\ TableMatches'
      /\ fdt'[f] = None /\ reg'[f] = NoReg
      /\ \A g \in Fd \ {f} : fdt'[g] = fdt[g] /\ reg'[g] = reg[g]
      /\ \A c \in Conn : sock'[c] = IF fdt[f] = c THEN "closed" ELSE sock[c]
  BY <1>1, <1>2, <1>4, CloseFacts DEF Sound, f
<1>6. ready' = ready \ {f}
  BY <1>2 DEF Close, f
<1>7. TypeOK'
  BY <1>1, <1>2, <1>3, <1>5 DEF TypeOK, client
<1>8. BufferFits' /\ TimersFindLive' /\ HeapRight' /\ CurLive'
  BY <1>1, <1>3 DEF BufferFits, TimersFindLive, Sound, HeapRight, CurLive, NoResets, client
<1>9. OneTimerEach'
  BY <1>1, <1>3 DEF Sound, OneTimerEach, InUse, Queued
<1>10. RegMatches'
  <2> SUFFICES ASSUME NEW g \in Fd
               PROVE  /\ reg'[g].ptr # None => /\ fdt'[g] # None
                                               /\ rq'[reg'[g].ptr].live
                                               /\ rq'[reg'[g].ptr].fd = g
                      /\ reg'[g].armed => reg'[g].ptr # None
    BY DEF RegMatches
  <2>1. CASE g = f
    BY <2>1, <1>5 DEF NoReg
  <2>2. CASE g # f
    BY <2>2, <1>1, <1>3, <1>5 DEF Sound, RegMatches
  <2> QED
    BY <2>1, <2>2
<1>11. ReadyOpen' /\ EventsTaken'
  BY <1>1, <1>2, <1>3, <1>5, <1>6 DEF Sound, ReadyOpen, EventsTaken, NoResets, TypeOK, client
<1>12. InputSeen'
  <2> SUFFICES ASSUME NEW g \in Fd, fdt'[g] # None
               PROVE  Attended(g)' \/ (reg'[g].armed /\ ~Readable(fdt[g])')
    BY DEF InputSeen
  <2>1. g # f /\ fdt'[g] = fdt[g] /\ fdt[g] # None /\ reg'[g] = reg[g]
    BY <1>5
  <2>2. CASE Attended(g)
    <3>1. ASSUME NEW d \in events, d.ptr # Listen, rq[d.ptr].fd = g
          PROVE  d \in events'
      BY <3>1, <2>1, <1>2 DEF f
    <3> QED
      BY <3>1, <2>1, <2>2, <1>1, <1>3, <1>6 DEF Attended
  <2>3. CASE reg[g].armed /\ ~Readable(fdt[g])
    BY <2>1, <2>3, <1>3 DEF Readable, client
  <2> QED
    BY <2>1, <2>2, <2>3, <1>1 DEF Sound, InputSeen
<1>13. ConnectionsSeen'
  BY <1>1, <1>2, <1>3, <1>4, <1>5, <1>6 DEF Sound, ConnectionsSeen, NumbersSuffice
<1>14. Paired'
  BY <1>3, <1>4 DEF Paired, NoResets, client
<1> QED
  BY <1>5, <1>7, <1>8, <1>9, <1>10, <1>11, <1>12, <1>13, <1>14 DEF Inv, Sound

\* The request's timer is deleted while do_request runs for it.
LEMMA EventReadKeeps ==
    ASSUME Inv, EventRead
    PROVE  Inv'
<1> USE BoundsAssumption DEF client
<1>1. TypeOK /\ BufferFits /\ TimersFindLive /\ Sound /\ crash = None /\ pc = "events"
  BY DEF Inv, EventRead, At
<1>2. PICK e \in events : /\ e.ptr # Listen /\ rq[e.ptr].live
                          /\ node' = Unarmed(rq[e.ptr].timer) /\ cur' = e.ptr
                          /\ events' = events \ {e}
  BY DEF EventRead
<1>3. UNCHANGED <<sock, in, client, fdt, reg, ready, rq, crash>> /\ pc' = "request"
  BY DEF EventRead
<1> DEFINE a == e.ptr
           n == rq[a].timer
<1>4. a \in Addr /\ n \in Node
  BY <1>1, <1>2 DEF TypeOK, Sound, HeapRight
<1>5. node[n].rq = a /\ \A m \in Queued : node[m].rq = a /\ ~node[m].deleted => m = n
  <2>1. {m \in Queued : node[m].rq = a /\ ~node[m].deleted} = {n}
    BY <1>1, <1>2, <1>4 DEF Sound, OneTimerEach, InUse
  <2> QED
    BY <2>1
<1> HIDE DEF n
<1>6. /\ node' \in [Node -> [rq : Addr \cup {None}, left : 0 .. Timeout, deleted : BOOLEAN]]
      /\ \A m \in Node : node'[m].rq = node[m].rq
      /\ \A m \in Node : node'[m].deleted <=> (node[m].deleted \/ m = n)
  <2>1. node' = [node EXCEPT ![n].deleted = TRUE]
    BY <1>2 DEF Unarmed, n
  <2>2. node \in [Node -> [rq : Addr \cup {None}, left : 0 .. Timeout, deleted : BOOLEAN]]
    BY <1>1 DEF TypeOK
  <2> QED
    BY <2>1, <2>2, <1>4
<1>7. TypeOK' /\ BufferFits' /\ TimersFindLive'
  BY <1>1, <1>2, <1>3, <1>4, <1>6 DEF TypeOK, BufferFits, TimersFindLive, NoResets
<1>8. OneTimerEach'
  <2> SUFFICES ASSUME NEW b \in Addr
               PROVE  {m \in Queued : node[m].rq = b /\ ~node[m].deleted}'
                          = IF InUse(b)' THEN {rq'[b].timer} ELSE {}
    BY DEF OneTimerEach
  <2>1. {m \in Queued : node[m].rq = b /\ ~node[m].deleted}
            = IF InUse(b) THEN {rq[b].timer} ELSE {}
    BY <1>1 DEF Sound, OneTimerEach
  <2>2. Queued' = Queued
    BY <1>6 DEF Queued
  <2>3. CASE b = a
    <3>1. ~InUse(b)'
      BY <2>3, <1>2, <1>3 DEF InUse
    <3> QED
      BY <3>1, <2>2, <2>3, <1>5, <1>6 DEF Queued
  <2>4. CASE b # a
    <3>1. {m \in Queued : node[m].rq = b /\ ~node[m].deleted}'
              = {m \in Queued : node[m].rq = b /\ ~node[m].deleted}
      BY <2>2, <2>4, <1>5, <1>6 DEF Queued
    <3>2. InUse(b)' <=> InUse(b)
      BY <2>4, <1>1, <1>2, <1>3 DEF InUse
    <3> QED
      BY <3>1, <3>2, <2>1, <1>3
  <2> QED
    BY <2>3, <2>4
<1>9. HeapRight' /\ CurLive' /\ RegMatches' /\ ReadyOpen' /\ TableMatches' /\ EventsTaken'
  BY <1>1, <1>2, <1>3, <1>4 DEF Sound, HeapRight, CurLive, RegMatches, ReadyOpen, NoResets,
                                TableMatches, EventsTaken
<1>10. InputSeen'
  <2>1. ASSUME NEW f \in Fd, Attended(f) PROVE Attended(f)'
    BY <2>1, <1>1, <1>2, <1>3 DEF Attended
  <2> QED
    BY <2>1, <1>1, <1>3 DEF Sound, InputSeen, Readable
<1>11. ConnectionsSeen' /\ Paired'
  BY <1>1, <1>2, <1>3 DEF Sound, ConnectionsSeen, Paired, NoResets, Owns
<1> QED
  BY <1>7, <1>8, <1>9, <1>10, <1>11 DEF Inv, Sound

-----------------------------------------------------------------------------
(***************************************************************************)
(* The loop: accepting and reading.                                        *)
(***************************************************************************)
LEMMA FreeNodeFacts ==
    ASSUME TypeOK, Queued # Node
    PROVE  FreeNode \in Node /\ node[FreeNode].rq = None
<1>1. Node \ Queued # {}
  BY DEF Queued
<1>2. FreeNode \in Node \ Queued
  BY <1>1 DEF FreeNode
<1> QED
  BY <1>2 DEF Queued

\* A node that is added is its request's own, which had none before.
LEMMA ArmedIsOwn ==
    ASSUME TypeOK, OneTimerEach, crash = None, crash' = None, NEW a \in Addr, ~InUse(a),
           NEW n \in Node, node[n].rq = None,
           node' = [node EXCEPT ![n] = Armed(a)], InUse(a)', rq'[a].timer = n,
           \A b \in Addr \ {a} : rq'[b].timer = rq[b].timer /\ (InUse(b)' <=> InUse(b))
    PROVE  /\ OneTimerEach'
           /\ node' \in [Node -> [rq : Addr \cup {None}, left : 0 .. Timeout,
                                  deleted : BOOLEAN]]
<1> USE BoundsAssumption
<1>1. Armed(a) \in [rq : Addr \cup {None}, left : 0 .. Timeout, deleted : BOOLEAN]
      /\ Armed(a).rq = a /\ ~Armed(a).deleted
  BY DEF Armed
<1>2. node \in [Node -> [rq : Addr \cup {None}, left : 0 .. Timeout, deleted : BOOLEAN]]
  BY DEF TypeOK
<1>3. node' \in [Node -> [rq : Addr \cup {None}, left : 0 .. Timeout, deleted : BOOLEAN]]
  BY <1>1, <1>2
<1>4. node'[n].rq = a /\ ~node'[n].deleted /\ \A m \in Node \ {n} : node'[m] = node[m]
  BY <1>1, <1>2
<1>5. ASSUME NEW b \in Addr
      PROVE  {m \in Queued : node[m].rq = b /\ ~node[m].deleted}'
                 = IF InUse(b)' THEN {rq'[b].timer} ELSE {}
  <2>1. {m \in Queued : node[m].rq = b /\ ~node[m].deleted}
            = IF InUse(b) THEN {rq[b].timer} ELSE {}
    BY DEF OneTimerEach
  <2>2. CASE b = a
    <3>1. \A m \in Node : ~(node[m].rq = a /\ ~node[m].deleted)
      BY <2>1, <2>2 DEF Queued
    <3> QED
      BY <3>1, <2>2, <1>4 DEF Queued
  <2>3. CASE b # a
    <3>1. {m \in Queued : node[m].rq = b /\ ~node[m].deleted}'
              = {m \in Queued : node[m].rq = b /\ ~node[m].deleted}
      BY <2>3, <1>4 DEF Queued
    <3> QED
      BY <3>1, <2>1, <2>3
  <2> QED
    BY <2>2, <2>3
<1> QED
  BY <1>3, <1>5 DEF OneTimerEach

LEMMA AcceptKeeps ==
    ASSUME Inv, Accept
    PROVE  Inv'
<1> USE BoundsAssumption
<1>1. TypeOK /\ BufferFits /\ TimersFindLive /\ Sound /\ crash = None /\ pc = "accept"
  BY DEF Inv, Accept, At
<1>2. PICK c \in Conn, a \in Addr :
         LET f == Min({g \in Fd : fdt[g] = None})
             n == FreeNode IN
         /\ sock[c] = "backlog" /\ ~rq[a].live
         /\ \E g \in Fd : fdt[g] = None
         /\ Queued # Node
         /\ sock' = [sock EXCEPT ![c] = "open"]
         /\ fdt' = [fdt EXCEPT ![f] = c]
         /\ rq' = [rq EXCEPT ![a] = [live |-> TRUE, fd |-> f, timer |-> n, buf |-> << >>]]
         /\ Watch(f, a)
         /\ node' = [node EXCEPT ![n] = Armed(a)]
  BY DEF Accept
<1>3. UNCHANGED <<in, client, events, pc, cur, crash>>
  BY DEF Accept
<1> DEFINE f == Min({g \in Fd : fdt[g] = None})
           n == FreeNode
           r == [live |-> TRUE, fd |-> f, timer |-> n, buf |-> << >>]
<1>4. f \in Fd /\ fdt[f] = None
  <2>1. {g \in Fd : fdt[g] = None} \in SUBSET Nat /\ {g \in Fd : fdt[g] = None} # {}
    BY <1>2
  <2> QED
    BY <2>1, MinFacts
<1>5. n \in Node /\ node[n].rq = None
  BY <1>1, <1>2, FreeNodeFacts
<1> HIDE DEF f, n
<1>6. /\ sock' = [sock EXCEPT ![c] = "open"] /\ fdt' = [fdt EXCEPT ![f] = c]
      /\ rq' = [rq EXCEPT ![a] = r] /\ reg' = [reg EXCEPT ![f] = [ptr |-> a, armed |-> TRUE]]
      /\ node' = [node EXCEPT ![n] = Armed(a)]
      /\ ready' = IF Readable(fdt'[f]) THEN ready \cup {f} ELSE ready
      /\ sock[c] = "backlog" /\ ~rq[a].live
  BY <1>2 DEF Watch, f, n
<1>7. r \in [live : BOOLEAN, fd : Fd \cup {None}, timer : Node \cup {None}, buf : Seq(Piece)]
      /\ r.live /\ r.fd = f /\ r.timer = n /\ r.buf = << >>
  BY <1>4, <1>5
<1> HIDE DEF r
<1>8. /\ rq' \in [Addr -> [live : BOOLEAN, fd : Fd \cup {None},
                           timer : Node \cup {None}, buf : Seq(Piece)]]
      /\ rq'[a] = r /\ \A b \in Addr \ {a} : rq'[b] = rq[b]
  BY <1>1, <1>6, <1>7 DEF TypeOK
<1>9. /\ reg' \in [Fd -> [ptr : Addr \cup {None}, armed : BOOLEAN]]
      /\ reg'[f].ptr = a /\ reg'[f].armed /\ \A g \in Fd \ {f} : reg'[g] = reg[g]
  <2>1. reg \in [Fd -> [ptr : Addr \cup {None}, armed : BOOLEAN]]
    BY <1>1 DEF TypeOK
  <2> QED
    BY <2>1, <1>4, <1>6
<1>10. /\ sock' \in [Conn -> {"none", "backlog", "open", "closed"}]
       /\ fdt' \in [Fd -> Conn \cup {None}]
       /\ fdt'[f] = c /\ \A g \in Fd \ {f} : fdt'[g] = fdt[g]
       /\ sock'[c] = "open" /\ \A d \in Conn \ {c} : sock'[d] = sock[d]
  BY <1>1, <1>4, <1>6 DEF TypeOK
<1>11. OneTimerEach'
       /\ node' \in [Node -> [rq : Addr \cup {None}, left : 0 .. Timeout, deleted : BOOLEAN]]
  <2>1. ~InUse(a) /\ InUse(a)' /\ rq'[a].timer = n
    BY <1>1, <1>3, <1>6, <1>7, <1>8 DEF InUse
  <2>2. \A b \in Addr \ {a} : rq'[b].timer = rq[b].timer /\ (InUse(b)' <=> InUse(b))
    BY <1>3, <1>8 DEF InUse
  <2> QED
    BY <2>1, <2>2, <1>1, <1>3, <1>5, <1>6, ArmedIsOwn DEF Sound
<1>12. TypeOK'
  <2>1. ready' \subseteq Fd \cup {Listen}
    BY <1>1, <1>4, <1>6 DEF TypeOK
  <2> QED
    BY <2>1, <1>1, <1>3, <1>8, <1>9, <1>10, <1>11 DEF TypeOK, client
<1>13. BufferFits' /\ TimersFindLive'
  <2>1. ASSUME NEW b \in Addr PROVE Len(rq'[b].buf) < MaxBuf
    BY <1>1, <1>7, <1>8 DEF BufferFits
  <2> QED
    BY <2>1, <1>1, <1>3 DEF BufferFits, TimersFindLive, NoResets, client
<1>14. HeapRight' /\ CurLive' /\ EventsTaken'
  <2>1. ASSUME NEW b \in Addr
        PROVE  IF rq'[b].live THEN rq'[b].fd \in Fd /\ rq'[b].timer \in Node
                              ELSE rq'[b] = NoRq
    <3>1. CASE b = a
      BY <3>1, <1>4, <1>5, <1>7, <1>8
    <3>2. CASE b # a
      BY <3>2, <1>1, <1>8 DEF Sound, HeapRight
    <3> QED
      BY <3>1, <3>2
  <2> QED
    BY <2>1, <1>1, <1>3 DEF Sound, HeapRight, CurLive, EventsTaken, NoResets, client
<1>15. RegMatches'
  <2> SUFFICES ASSUME NEW g \in Fd
               PROVE  /\ reg'[g].ptr # None => /\ fdt'[g] # None
                                               /\ rq'[reg'[g].ptr].live
                                               /\ rq'[reg'[g].ptr].fd = g
                      /\ reg'[g].armed => reg'[g].ptr # None
    BY DEF RegMatches
  <2>1. CASE g = f
    BY <2>1, <1>7, <1>8, <1>9, <1>10
  <2>2. CASE g # f
    <3>1. reg'[g] = reg[g] /\ fdt'[g] = fdt[g] /\ reg[g].ptr \in Addr \cup {None}
      BY <2>2, <1>1, <1>9, <1>10 DEF TypeOK
    <3> QED
      BY <3>1, <1>1, <1>6, <1>8 DEF Sound, RegMatches
  <2> QED
    BY <2>1, <2>2
<1>16. ReadyOpen'
  BY <1>1, <1>6, <1>9 DEF Sound, ReadyOpen, TypeOK
<1>17. TableMatches'
  BY <1>1, <1>4, <1>6, <1>10 DEF Sound, TableMatches, TypeOK
<1>18. InputSeen'
  <2> SUFFICES ASSUME NEW g \in Fd, fdt'[g] # None
               PROVE  Attended(g)' \/ (reg'[g].armed /\ ~Readable(fdt[g])')
    BY DEF InputSeen
  <2>1. CASE g = f
    <3>1. Readable(fdt[g])' <=> Readable(fdt'[g])
      BY <1>3 DEF Readable, client
    <3> QED
      BY <3>1, <2>1, <1>6, <1>9 DEF Attended
  <2>2. CASE g # f /\ Attended(g)
    <3>1. ASSUME NEW e \in events, e.ptr # Listen, rq[e.ptr].fd = g
          PROVE  rq'[e.ptr].fd = g
      BY <3>1, <1>1, <1>6, <1>8 DEF TypeOK, Sound, HeapRight, NoRq
    <3> QED
      BY <3>1, <2>2, <1>1, <1>3, <1>6 DEF Attended
  <2>3. CASE g # f /\ reg[g].armed /\ ~Readable(fdt[g])
    BY <2>3, <1>3, <1>9, <1>10 DEF Readable, client
  <2> QED
    BY <2>1, <2>2, <2>3, <1>1, <1>10 DEF Sound, InputSeen
<1>19. ConnectionsSeen'
  BY <1>1, <1>3 DEF ConnectionsSeen
<1>20. Paired'
  <2> SUFFICES ASSUME NoResets
               PROVE  /\ \A b \in Addr : rq'[b].live => Owns(b, rq[b].fd)'
                      /\ \A d \in Conn : sock'[d] = "open" =>
                            \E b \in Addr : rq'[b].live /\ fdt'[rq'[b].fd] = d
    BY <1>3 DEF Paired, NoResets, client
  <2>1. /\ \A b \in Addr : rq[b].live => Owns(b, rq[b].fd)
        /\ \A d \in Conn : sock[d] = "open" =>
              \E b \in Addr : rq[b].live /\ fdt[rq[b].fd] = d
    BY <1>1 DEF Sound, Paired
  <2>2. ASSUME NEW b \in Addr, rq[b].live
        PROVE  b # a /\ rq'[b] = rq[b] /\ rq[b].fd \in Fd \ {f}
    <3>1. rq[b].fd \in Fd /\ fdt[rq[b].fd] # None
      BY <2>1, <2>2, <1>1 DEF Sound, HeapRight, Owns
    <3> QED
      BY <3>1, <2>2, <1>4, <1>6, <1>8
  <2>3. ASSUME NEW b \in Addr, rq'[b].live PROVE Owns(b, rq[b].fd)'
    <3>1. CASE b = a
      BY <3>1, <1>7, <1>8, <1>9, <1>10 DEF Owns
    <3>2. CASE b # a
      <4>1. rq[b].live /\ rq'[b] = rq[b] /\ rq[b].fd \in Fd \ {f} /\ Owns(b, rq[b].fd)
        BY <3>2, <2>1, <2>2, <2>3, <1>8
      <4>2. fdt'[rq[b].fd] = fdt[rq[b].fd] /\ reg'[rq[b].fd] = reg[rq[b].fd]
        BY <4>1, <1>9, <1>10
      <4> QED
        BY <4>1, <4>2 DEF Owns
    <3> QED
      BY <3>1, <3>2
  <2>4. ASSUME NEW d \in Conn, sock'[d] = "open"
        PROVE  \E b \in Addr : rq'[b].live /\ fdt'[rq'[b].fd] = d
    <3>1. CASE d = c
      BY <3>1, <1>7, <1>8, <1>10
    <3>2. CASE d # c
      <4>1. PICK b \in Addr : rq[b].live /\ fdt[rq[b].fd] = d
        BY <2>1, <2>4, <3>2, <1>10
      <4> QED
        BY <4>1, <2>2, <1>10
    <3> QED
      BY <3>1, <3>2
  <2> QED
    BY <2>3, <2>4
<1> QED
  BY <1>11, <1>12, <1>13, <1>14, <1>15, <1>16, <1>17, <1>18, <1>19, <1>20 DEF Inv, Sound

\* What is left unparsed is no longer than what there was.
LEMMA UnparsedFits ==
    ASSUME NEW b \in Seq(Piece)
    PROVE  Unparsed(b) \in Seq(Piece) /\ Len(Unparsed(b)) <= Len(b)
<1>1. CASE Ends(b) = {}
  BY <1>1 DEF Unparsed
<1>2. CASE Ends(b) # {}
  <2>1. Ends(b) \in SUBSET Nat
    BY DEF Ends
  <2>2. Min(Ends(b)) \in Ends(b)
    BY <2>1, <1>2, MinFacts
  <2> DEFINE i == Min(Ends(b))
  <2> HIDE DEF i
  <2>3. i \in 1 .. Len(b)
    BY <2>2 DEF Ends, i
  <2>4. SubSeq(b, i + 1, Len(b)) \in Seq(Piece) /\ Len(SubSeq(b, i + 1, Len(b))) <= Len(b)
    BY <2>3
  <2> QED
    BY <2>4, <1>2 DEF Unparsed, i
<1> QED
  BY <1>1, <1>2

\* A read takes no more than there is room for, from its own number.
LEMMA ReadKeeps ==
    ASSUME Inv, Read
    PROVE  Inv'
<1> USE BoundsAssumption
<1>1. TypeOK /\ BufferFits /\ TimersFindLive /\ Sound /\ crash = None /\ pc = "request"
  BY DEF Inv, Read, At
<1>2. UNCHANGED <<sock, client, fdt, reg, ready, node, events, pc, cur>>
  BY DEF Read
<1>3. cur \in Addr /\ rq[cur].live /\ rq[cur].fd \in Fd /\ rq[cur].buf \in Seq(Piece)
  BY <1>1 DEF Sound, CurLive, HeapRight, TypeOK
<1>4. Peer \in Conn /\ in[Peer] \in Seq(Piece) /\ in[Peer] # << >> /\ Room(cur) > 0
  BY <1>1, <1>3 DEF Read, Peer, TypeOK
<1>5. PICK k \in 1 .. Min({Len(in[Peer]), Room(cur)}) :
         LET b == rq[cur].buf \o SubSeq(in[Peer], 1, k) IN
         /\ in' = [in EXCEPT ![Peer] = SubSeq(@, k + 1, Len(@))]
         /\ rq' = [rq EXCEPT ![cur].buf = Unparsed(b)]
         /\ crash' = CASE Verdict(b) = "bad" -> "parse"
                       [] Verdict(b) = "once" -> "close"
                       [] OTHER -> None
  BY DEF Read
<1> DEFINE b == rq[cur].buf \o SubSeq(in[Peer], 1, k)
           u == Unparsed(b)
<1>6. k \in Nat /\ k <= Len(in[Peer]) /\ k <= Room(cur) /\ Room(cur) \in Nat
  <2>1. Len(rq[cur].buf) \in Nat /\ Room(cur) \in Nat /\ Len(in[Peer]) \in Nat
    BY <1>3, <1>4 DEF Room
  <2>2. {Len(in[Peer]), Room(cur)} \in SUBSET Nat /\ {Len(in[Peer]), Room(cur)} # {}
    BY <2>1
  <2>3. Min({Len(in[Peer]), Room(cur)}) \in {Len(in[Peer]), Room(cur)}
        /\ \A y \in {Len(in[Peer]), Room(cur)} : Min({Len(in[Peer]), Room(cur)}) <= y
    BY <2>2, MinFacts
  <2> DEFINE low == Min({Len(in[Peer]), Room(cur)})
  <2>4. low \in Nat /\ low <= Len(in[Peer]) /\ low <= Room(cur) /\ k \in 1 .. low
    BY <2>1, <2>3
  <2> HIDE DEF low
  <2> QED
    BY <2>1, <2>4
<1>7. u \in Seq(Piece) /\ Len(u) < MaxBuf
  <2>1. SubSeq(in[Peer], 1, k) \in Seq(Piece) /\ Len(SubSeq(in[Peer], 1, k)) = k
    BY <1>4, <1>6
  <2>2. b \in Seq(Piece) /\ Len(b) = Len(rq[cur].buf) + k
    BY <2>1, <1>3, ConcatProperties
  <2>3. u \in Seq(Piece) /\ Len(u) <= Len(b)
    BY <2>2, UnparsedFits
  <2> HIDE DEF u, b
  <2> QED
    BY <2>2, <2>3, <1>3, <1>6 DEF Room
<1>8. crash' \in {None, "parse", "close"}
  <2> HIDE DEF b
  <2> QED
    BY <1>5 DEF b
<1>9. rq' = [rq EXCEPT ![cur].buf = u] /\ in' = [in EXCEPT ![Peer] = SubSeq(@, k + 1, Len(@))]
  BY <1>5
<1> HIDE DEF u
<1>10. /\ rq' \in [Addr -> [live : BOOLEAN, fd : Fd \cup {None},
                            timer : Node \cup {None}, buf : Seq(Piece)]]
       /\ rq'[cur].buf = u /\ \A a \in Addr \ {cur} : rq'[a] = rq[a]
       /\ \A a \in Addr : rq'[a].live = rq[a].live /\ rq'[a].fd = rq[a].fd
                          /\ rq'[a].timer = rq[a].timer
  <2>1. rq \in [Addr -> [live : BOOLEAN, fd : Fd \cup {None},
                         timer : Node \cup {None}, buf : Seq(Piece)]]
    BY <1>1 DEF TypeOK
  <2> QED
    BY <2>1, <1>3, <1>7, <1>9
<1>11. /\ in' \in [Conn -> Seq(Piece)] /\ \A c \in Conn \ {Peer} : in'[c] = in[c]
  <2>1. SubSeq(in[Peer], k + 1, Len(in[Peer])) \in Seq(Piece)
    BY <1>4, <1>6
  <2> QED
    BY <2>1, <1>1, <1>4, <1>9 DEF TypeOK
<1>12. TypeOK'
  BY <1>1, <1>2, <1>8, <1>10, <1>11 DEF TypeOK, client, Undefined
<1>13. BufferFits' /\ TimersFindLive'
  <2>1. ASSUME NEW a \in Addr PROVE Len(rq'[a].buf) < MaxBuf
    BY <1>1, <1>7, <1>10 DEF BufferFits
  <2>2. crash' \notin {"timer", "read"}
    BY <1>8 DEF Undefined
  <2> QED
    BY <2>1, <2>2 DEF BufferFits, TimersFindLive
<1>14. HeapRight' /\ CurLive'
  BY <1>1, <1>2, <1>3, <1>10 DEF Sound, HeapRight, CurLive
<1>15. RegMatches' /\ ReadyOpen' /\ EventsTaken' /\ TableMatches'
  <2>1. RegMatches'
    BY <1>1, <1>2, <1>10 DEF Sound, RegMatches, TypeOK
  <2> QED
    BY <2>1, <1>1, <1>2 DEF Sound, ReadyOpen, EventsTaken, TableMatches, NoResets, client
<1>16. ASSUME crash' = None PROVE OneTimerEach'
  BY <1>1, <1>2, <1>10 DEF Sound, OneTimerEach, InUse, Queued
<1>17. InputSeen'
  <2> SUFFICES ASSUME NEW g \in Fd, fdt[g] # None
               PROVE  Attended(g)' \/ (reg'[g].armed /\ ~Readable(fdt[g])')
    BY <1>2 DEF InputSeen
  <2>1. CASE Attended(g)
    <3>1. ASSUME NEW e \in events, e.ptr # Listen PROVE rq'[e.ptr].fd = rq[e.ptr].fd
      BY <3>1, <1>1, <1>10 DEF TypeOK
    <3> QED
      BY <3>1, <2>1, <1>1, <1>2, <1>3, <1>10 DEF Attended
  <2>2. CASE reg[g].armed /\ ~Readable(fdt[g]) /\ fdt[g] = Peer
    <3>1. g = rq[cur].fd
      BY <2>2, <1>1, <1>3 DEF Peer, Sound, TableMatches
    <3> QED
      BY <3>1, <1>1, <1>2, <1>3, <1>10 DEF Attended
  <2>3. CASE reg[g].armed /\ ~Readable(fdt[g]) /\ fdt[g] # Peer
    <3>1. fdt[g] \in Conn
      BY <1>1 DEF TypeOK
    <3> QED
      BY <3>1, <2>3, <1>2, <1>11 DEF Readable, client
  <2> QED
    BY <2>1, <2>2, <2>3, <1>1 DEF Sound, InputSeen
<1>18. ConnectionsSeen'
  BY <1>1, <1>2 DEF Sound, ConnectionsSeen
<1>19. Paired'
  BY <1>1, <1>2, <1>10 DEF Sound, Paired, Owns, NoResets, client
<1> QED
  BY <1>12, <1>13, <1>14, <1>15, <1>16, <1>17, <1>18, <1>19 DEF Inv, Sound

\* do_request reads until nothing is left, and only then arms the number again.
LEMMA ReadAgainKeeps ==
    ASSUME Inv, ReadAgain
    PROVE  Inv'
<1> USE BoundsAssumption
<1>1. TypeOK /\ BufferFits /\ TimersFindLive /\ Sound /\ crash = None /\ pc = "request"
  BY DEF Inv, ReadAgain, At
<1>0. PICK a \in Addr : a = cur
  BY <1>1 DEF Sound, CurLive
<1> DEFINE f == rq[a].fd
           n == FreeNode
<1>2. rq[a].live /\ f \in Fd
  BY <1>1, <1>0 DEF Sound, CurLive, HeapRight
<1>3. n \in Node /\ node[n].rq = None
  BY <1>1, FreeNodeFacts DEF ReadAgain
<1>4. UNCHANGED <<sock, in, client, events, crash, fdt>> /\ cur' = None /\ pc' = "events"
  BY DEF ReadAgain
<1>5. fdt[f] \in Conn /\ ~Readable(fdt[f])
  BY <1>1, <1>2, <1>0 DEF ReadAgain, Peer, TypeOK
<1>6. /\ reg' = [reg EXCEPT ![f] = [ptr |-> a, armed |-> TRUE]]
      /\ ready' = ready
      /\ rq' = [rq EXCEPT ![a].timer = n] /\ node' = [node EXCEPT ![n] = Armed(a)]
  BY <1>4, <1>5, <1>0 DEF ReadAgain, Watch
<1> HIDE DEF f, n
<1>7. /\ rq' \in [Addr -> [live : BOOLEAN, fd : Fd \cup {None},
                           timer : Node \cup {None}, buf : Seq(Piece)]]
      /\ rq'[a].timer = n /\ \A b \in Addr \ {a} : rq'[b] = rq[b]
      /\ \A b \in Addr : rq'[b].live = rq[b].live /\ rq'[b].fd = rq[b].fd
                         /\ rq'[b].buf = rq[b].buf
  <2>1. rq \in [Addr -> [live : BOOLEAN, fd : Fd \cup {None},
                         timer : Node \cup {None}, buf : Seq(Piece)]]
    BY <1>1 DEF TypeOK
  <2> QED
    BY <2>1, <1>2, <1>3, <1>6
<1>8. /\ reg' \in [Fd -> [ptr : Addr \cup {None}, armed : BOOLEAN]]
      /\ reg'[f].ptr = a /\ reg'[f].armed /\ \A g \in Fd \ {f} : reg'[g] = reg[g]
  <2>1. reg \in [Fd -> [ptr : Addr \cup {None}, armed : BOOLEAN]]
    BY <1>1 DEF TypeOK
  <2> QED
    BY <2>1, <1>2, <1>6
<1>9. OneTimerEach'
      /\ node' \in [Node -> [rq : Addr \cup {None}, left : 0 .. Timeout, deleted : BOOLEAN]]
  <2>1. ~InUse(a) /\ InUse(a)'
    BY <1>1, <1>2, <1>4, <1>7, <1>0, BoundsAssumption DEF InUse
  <2>2. \A b \in Addr \ {a} : rq'[b].timer = rq[b].timer /\ (InUse(b)' <=> InUse(b))
    BY <1>1, <1>4, <1>7, <1>0 DEF InUse
  <2> QED
    BY <2>1, <2>2, <1>1, <1>2, <1>3, <1>4, <1>6, <1>7, ArmedIsOwn DEF Sound
<1>10. TypeOK'
  BY <1>1, <1>4, <1>6, <1>7, <1>8, <1>9 DEF TypeOK, client
<1>11. BufferFits' /\ TimersFindLive'
  BY <1>1, <1>4, <1>7 DEF BufferFits, TimersFindLive, NoResets, client
<1>12. HeapRight'
  <2>1. ASSUME NEW b \in Addr
        PROVE  IF rq'[b].live THEN rq'[b].fd \in Fd /\ rq'[b].timer \in Node
                              ELSE rq'[b] = NoRq
    <3>1. CASE b = a
      BY <3>1, <1>2, <1>3, <1>7 DEF f
    <3>2. CASE b # a
      BY <3>2, <1>1, <1>7 DEF Sound, HeapRight
    <3> QED
      BY <3>1, <3>2
  <2> QED
    BY <2>1 DEF HeapRight
<1>13. CurLive' /\ EventsTaken' /\ TableMatches'
  BY <1>1, <1>4 DEF Sound, CurLive, EventsTaken, TableMatches, NoResets, client
<1>14. RegMatches'
  <2> SUFFICES ASSUME NEW g \in Fd
               PROVE  /\ reg'[g].ptr # None => /\ fdt'[g] # None
                                               /\ rq'[reg'[g].ptr].live
                                               /\ rq'[reg'[g].ptr].fd = g
                      /\ reg'[g].armed => reg'[g].ptr # None
    BY DEF RegMatches
  <2>1. CASE g = f
    BY <2>1, <1>2, <1>4, <1>5, <1>7, <1>8 DEF f
  <2>2. CASE g # f
    <3>1. reg'[g] = reg[g] /\ reg[g].ptr \in Addr \cup {None}
      BY <2>2, <1>1, <1>8 DEF TypeOK
    <3> QED
      BY <3>1, <1>1, <1>4, <1>7 DEF Sound, RegMatches
  <2> QED
    BY <2>1, <2>2
<1>15. ReadyOpen'
  BY <1>1, <1>2, <1>6, <1>8 DEF Sound, ReadyOpen, TypeOK
<1>16. InputSeen'
  <2> SUFFICES ASSUME NEW g \in Fd, fdt[g] # None
               PROVE  Attended(g)' \/ (reg'[g].armed /\ ~Readable(fdt[g])')
    BY <1>4 DEF InputSeen
  <2>1. CASE g = f
    BY <2>1, <1>4, <1>5, <1>8 DEF Readable, client
  <2>2. CASE g # f /\ Attended(g)
    <3>1. ASSUME NEW e \in events, e.ptr # Listen PROVE rq'[e.ptr].fd = rq[e.ptr].fd
      BY <3>1, <1>1, <1>7 DEF TypeOK
    <3> QED
      BY <3>1, <2>2, <1>4, <1>6, <1>0 DEF Attended, f
  <2>3. CASE g # f /\ reg[g].armed /\ ~Readable(fdt[g])
    BY <2>3, <1>4, <1>8 DEF Readable, client
  <2> QED
    BY <2>1, <2>2, <2>3, <1>1 DEF Sound, InputSeen
<1>17. ConnectionsSeen'
  BY <1>1, <1>4, <1>6 DEF Sound, ConnectionsSeen
<1>18. Paired'
  <2> SUFFICES ASSUME NoResets
               PROVE  /\ \A b \in Addr : rq'[b].live => Owns(b, rq[b].fd)'
                      /\ \A c \in Conn : sock'[c] = "open" =>
                            \E b \in Addr : rq'[b].live /\ fdt'[rq'[b].fd] = c
    BY <1>4 DEF Paired, NoResets, client
  <2>1. /\ \A b \in Addr : rq[b].live => Owns(b, rq[b].fd)
        /\ \A c \in Conn : sock[c] = "open" =>
              \E b \in Addr : rq[b].live /\ fdt[rq[b].fd] = c
    BY <1>1 DEF Sound, Paired
  <2>2. ASSUME NEW b \in Addr, rq'[b].live PROVE Owns(b, rq[b].fd)'
    <3>1. Owns(b, rq[b].fd) /\ rq[b].fd \in Fd /\ rq'[b].fd = rq[b].fd
      BY <2>1, <2>2, <1>1, <1>7 DEF Sound, HeapRight
    <3>2. CASE rq[b].fd = f
      <4>1. b = a
        BY <3>1, <3>2, <2>1, <1>2 DEF Owns, f
      <4> QED
        BY <4>1, <3>1, <3>2, <1>4, <1>8 DEF Owns
    <3>3. CASE rq[b].fd # f
      <4>1. reg'[rq[b].fd] = reg[rq[b].fd] /\ fdt'[rq[b].fd] = fdt[rq[b].fd]
        BY <3>1, <3>3, <1>4, <1>8
      <4> QED
        BY <4>1, <3>1 DEF Owns
    <3> QED
      BY <3>2, <3>3
  <2> QED
    BY <2>1, <2>2, <1>4, <1>7
<1> QED
  BY <1>9, <1>10, <1>11, <1>12, <1>13, <1>14, <1>15, <1>16, <1>17, <1>18 DEF Inv, Sound

-----------------------------------------------------------------------------
LEMMA InvStep ==
    ASSUME Inv, [Next]_vars
    PROVE  Inv'
<1>1. CASE Clients
  BY <1>1, ConnectKeeps, ShutKeeps, ResetKeeps, SendKeeps DEF Clients
<1>2. CASE Server
  BY <1>2, PopDeletedKeeps, MovesKeep, WaitKeeps, FireKeeps, CrashKeeps, EventErrorKeeps,
     EventReadKeeps, AcceptKeeps, AcceptDoneKeeps, ReadKeeps, ReadAgainKeeps DEF Server
<1>3. CASE Tick
  BY <1>3, TickKeeps
<1>4. CASE UNCHANGED vars
  <2> USE <1>4 DEF vars
  <2>1. TypeOK' /\ BufferFits' /\ TimersFindLive'
    BY DEF Inv, TypeOK, BufferFits, TimersFindLive, NoResets
  <2>2. crash = None => OneTimerEach' /\ HeapRight' /\ CurLive' /\ RegMatches' /\ ReadyOpen'
                        /\ TableMatches' /\ EventsTaken'
    BY DEF Inv, Sound, OneTimerEach, InUse, Queued, HeapRight, CurLive, RegMatches, ReadyOpen,
           TableMatches, EventsTaken, NoResets
  <2>3. crash = None => InputSeen' /\ ConnectionsSeen' /\ Paired'
    BY DEF Inv, Sound, InputSeen, Attended, Readable, ConnectionsSeen, Paired, NoResets, Owns
  <2> QED
    BY <2>1, <2>2, <2>3 DEF Inv, Sound
<1> QED
  BY <1>1, <1>2, <1>3, <1>4 DEF Next

LEMMA InvHolds == Spec => []Inv
<1>1. Init => Inv
  BY InvInit
<1>2. Inv /\ [Next]_vars => Inv'
  BY InvStep
<1> QED
  BY <1>1, <1>2, PTL DEF Spec

\* Every client's connection has one request: the one that is registered for it.
LEMMA OneRequestEach ==
    ASSUME Inv
    PROVE  Isolation
<1> SUFFICES ASSUME crash = None, NoResets
             PROVE  /\ \A a \in Addr : rq[a].live => Owns(a, rq[a].fd)
                    /\ \A c \in Conn : sock[c] = "open" =>
                          Cardinality({a \in Addr : rq[a].live /\ fdt[rq[a].fd] = c}) = 1
  BY DEF Isolation
<1>1. TypeOK /\ TableMatches /\ HeapRight
      /\ \A a \in Addr : rq[a].live => Owns(a, rq[a].fd)
  BY DEF Inv, Sound, Paired
<1>2. ASSUME NEW c \in Conn, sock[c] = "open"
      PROVE  Cardinality({a \in Addr : rq[a].live /\ fdt[rq[a].fd] = c}) = 1
  <2>1. PICK a \in Addr : rq[a].live /\ fdt[rq[a].fd] = c
    BY <1>2 DEF Inv, Sound, Paired
  <2>2. ASSUME NEW b \in Addr, rq[b].live, fdt[rq[b].fd] = c PROVE b = a
    <3>1. rq[a].fd \in Fd /\ rq[b].fd \in Fd /\ c # None
      BY <2>1, <2>2, <1>1, BoundsAssumption DEF HeapRight
    <3>2. rq[a].fd = rq[b].fd
      BY <3>1, <2>1, <2>2, <1>1 DEF TableMatches
    <3> QED
      BY <3>2, <2>1, <2>2, <1>1 DEF Owns
  <2>3. {b \in Addr : rq[b].live /\ fdt[rq[b].fd] = c} = {a}
    BY <2>1, <2>2
  <2> QED
    BY <2>3, FS_Singleton
<1> QED
  BY <1>1, <1>2

\* The server's records agree with each other and with the kernel's tables: every
\* request has its one timer, what epoll holds is not freed, no timer fires for a
\* freed request, and without resets no request ever gets at another's connection.
THEOREM RecordsAlwaysAgree == Spec => []RecordsAgree
<1>1. Inv => RegisteredAreLive
  BY DEF Inv, Sound, RegMatches, RegisteredAreLive
<1>2. Inv => RecordsAgree
  BY <1>1, OneRequestEach DEF Inv, Sound, OneTimerEach, RecordsAgree
<1> QED
  BY <1>2, InvHolds, PTL

\* When the loop goes to sleep no input is left behind, of any connection; nor is
\* anybody who waits to be accepted, as long as there are numbers enough.
THEOREM NothingEverLost == Spec => []NothingLost
<1>1. ASSUME Inv PROVE NoLostInput
  <2> SUFFICES ASSUME crash = None, pc = "wait", NEW f \in Fd, fdt[f] # None,
                      Readable(fdt[f])
               PROVE  f \in ready
    BY DEF NoLostInput
  <2>1. events = {}
    BY <1>1 DEF Inv, Sound, EventsTaken
  <2> QED
    BY <2>1, <1>1 DEF Inv, Sound, InputSeen, Attended
<1>2. ASSUME Inv PROVE NoLostConnection
  <2> SUFFICES ASSUME NumbersSuffice, crash = None, pc = "wait",
                      \E c \in Conn : sock[c] = "backlog"
               PROVE  Listen \in ready
    BY DEF NoLostConnection
  <2>1. events = {}
    BY <1>2 DEF Inv, Sound, EventsTaken
  <2> QED
    BY <2>1, <1>2 DEF Inv, Sound, ConnectionsSeen
<1>3. Inv => NothingLost
  BY <1>1, <1>2 DEF NothingLost
<1> QED
  BY <1>3, InvHolds, PTL

\* The bytes a request keeps never fill its buffer, which is what the check in the
\* code's read loop relies on, also when refused bytes stay in it.
THEOREM BufferAlwaysFits == Spec => []BufferFits
<1>1. Inv => BufferFits
  BY DEF Inv
<1> QED
  BY <1>1, InvHolds, PTL

\* Without resets the clock closes only a connection whose own current timer has
\* run out.
THEOREM OnlyIdleClosed == Spec => ClosedOnlyWhenIdle
<1> DEFINE Idle == NoResets => \A c \in Conn, f \in Fd :
               (pc = "expire" /\ fdt[f] = c /\ fdt'[f] # c) =>
                   \E a \in Addr : Owns(a, f) /\ Expired(rq[a].timer)
<1>1. ASSUME Inv, [Next]_vars PROVE [Idle]_vars
  <2> SUFFICES ASSUME NoResets, NEW c \in Conn, NEW f \in Fd, pc = "expire",
                      fdt[f] = c, fdt'[f] # c
               PROVE  \E a \in Addr : Owns(a, f) /\ Expired(rq[a].timer)
    OBVIOUS
  <2>1. Fire
    BY <1>1 DEF Next, Clients, Server, vars, Connect, Send, Shut, Reset, Tick, PopDeleted,
       FindDone, Wait, ExpireDone, EventListen, EventStale, EventError, EventRead, LoopDone,
       Accept, AcceptDone, Read, ReadEof, ReadError, ReadAgain, At
  <2>2. TypeOK /\ Sound /\ crash = None
    BY <1>1, <2>1 DEF Inv, Fire, At
  <2>3. PICK n \in Roots :
           /\ ~node[n].deleted /\ Expired(n)
           /\ rq[node[n].rq].live => CloseConn(node[n].rq) /\ crash' = crash
    BY <2>1 DEF Fire
  <2> DEFINE a == node[n].rq
  <2>4. a \in Addr /\ rq[a].live /\ rq[a].timer = n
    BY <2>2, <2>3, FireIsOwn DEF Sound
  <2>5. rq[a].fd \in Fd /\ fdt' = [fdt EXCEPT ![rq[a].fd] = None]
    BY <2>2, <2>3, <2>4 DEF Sound, HeapRight, CloseConn, Close
  <2>6. f = rq[a].fd
    BY <2>2, <2>5 DEF TypeOK
  <2>7. Owns(a, f)
    BY <2>2, <2>4, <2>6 DEF Sound, Paired
  <2> QED
    BY <2>3, <2>4, <2>7
<1> QED
  BY <1>1, InvHolds, PTL DEF Spec, ClosedOnlyWhenIdle
=============================================================================
