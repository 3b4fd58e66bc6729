-------------------------- MODULE ChatRooms_proofs --------------------------
(***************************************************************************)
(* Theorems about the chat rooms: what the run checks on small instances   *)
(* of the epoll and the select room and of the threaded room's client and  *)
(* server, for any set of clients, any sizes and any bounds.               *)
(*                                                                         *)
(* Each room has an inductive invariant of its own; a behaviour is one of  *)
(* one program, whose room's steps are the only ones it takes.             *)
(***************************************************************************)
EXTENDS MC_ChatRooms, Sequences, TLAPS, FiniteSetTheorems, NaturalsInduction

\* The rooms' variables, by the names that they have there.
\* the epoll room
server == m1
sock == m2
unread == m3
over == m4
ready == m5
events == m6
backlog == m8
missed == m9
burst == m11
\* the select room (backlog and missed as above)
pc == m1
fd == m2
toServer == m6
toClient == m7
up == m10
clientSockets == m11
currentClients == m12
maxfd == m13
allset == m14
rset == m15
quits == m16
lines == m17
\* the client of the threaded room
phase == m1
input == m2
next == m3
crossed == m4
insetflag == m5
desnum == m6
typed == m7
last == m8
arrived == m9
mlist == m10
rear == m11
datum == m12
gone == m13
put == m14
get == m15
taken == m16
entered == m17
\* the server of the threaded room (pc, fd, next and crossed as above)
alive == m5
who == m6
inbox == m7
client_fd == m11
databuf == m12
freed == m13
walk == m14
course == m15
cut == m16

USE DEF server, sock, unread, over, ready, events, backlog, missed, burst,
        pc, fd, toServer, toClient, up, clientSockets, currentClients,
        maxfd, allset, rset, quits, lines, phase, input, next, crossed,
        insetflag, desnum, typed, last, arrived, mlist, rear, datum, gone,
        put, get, taken, entered, alive, who, inbox, client_fd, databuf,
        freed, walk, course, cut

-----------------------------------------------------------------------------
(***************************************************************************)
(* The select room: the count that bounds the relaying loop, and maxfd,    *)
(* which bounds the reading one, cover every used slot, so that nobody     *)
(* connected is left out.  The first free slot and the lowest free         *)
(* descriptor go together: slot i always holds descriptor ListenFd + 1 + i. *)
(***************************************************************************)
\* The instance's own copy of Cardinality is Cardinality.
LEMMA SelectCardinality == \A S : Select!Cardinality(S) = Cardinality(S)
BY Zenon DEF Select!Cardinality, Cardinality

SelectType ==
    /\ fd \in [Client -> Select!Fd \cup {Nil}]
    /\ clientSockets \in [Select!Slot -> Client \cup {Nil}]
    /\ currentClients \in Nat /\ maxfd \in Nat
    /\ backlog \in Seq(Client)
    /\ allset \in SUBSET Client /\ rset \in SUBSET Client

\* the used slots lie below the two limits
SelectCovered ==
    \A i \in Select!Slot : clientSockets[i] # Nil =>
        i < currentClients /\ Select!ListenFd + 1 + i <= maxfd

\* who is in slot i has the descriptor that belongs to it, ...
SlotsMatch ==
    \A i \in Select!Slot : clientSockets[i] # Nil => fd[clientSockets[i]] = Select!ListenFd + 1 + i

\* ... and whoever has a descriptor has a slot
AllHaveSlots ==
    \A c \in Client : fd[c] # Nil => \E i \in Select!Slot : clientSockets[i] = c

\* who waits to be accepted waits once and has no descriptor
Waiting ==
    /\ \A j \in 1..Len(backlog) : fd[backlog[j]] = Nil
    /\ \A j, k \in 1..Len(backlog) : backlog[j] = backlog[k] => j = k

\* closeFds takes all descriptors away, when nothing else will happen
SelectInv ==
    /\ SelectType /\ SelectCovered /\ missed = {}
    /\ pc # "ended" => SlotsMatch /\ AllHaveSlots /\ Waiting

-----------------------------------------------------------------------------
\* Numbers have least elements.
LEMMA MinFacts ==
    ASSUME NEW S \in SUBSET Nat, S # {}
    PROVE  Select!Min(S) \in S /\ \A y \in S : Select!Min(S) <= y
<1>1. PICK m \in S : \A y \in S : ~(<<y, m>> \in OpToRel(<, Nat))
  BY NatLessThanWellFounded, WFMin
<1>2. ASSUME NEW y \in S, y < m PROVE FALSE
  <2>1. <<y, m>> \in OpToRel(<, Nat)
    BY <1>2 DEF OpToRel
  <2> QED
    BY <2>1, <1>1
<1>3. \A y \in S : m <= y
  BY <1>2
<1> QED
  BY <1>3 DEF Select!Min

\* The clients suffice for the slots below the first free one and one more.
LEMMA ClientsSuffice ==
    ASSUME SelectType, SlotsMatch,
           NEW i \in Select!Slot, \A j \in Select!Slot : j < i => clientSockets[j] # Nil,
           NEW c \in Client, fd[c] = Nil
    PROVE  Select!ListenFd + 1 + i \in Select!Fd
<1> DEFINE S == 0..i
           g == [j \in S |-> IF j < i THEN clientSockets[j] ELSE c]
<1>1. \A j \in S : j < i =>
          clientSockets[j] \in Client /\ fd[clientSockets[j]] = Select!ListenFd + 1 + j
  BY RoomsAssumption DEF SelectType, SlotsMatch, Select!Slot
<1>2. \A j \in S : g[j] \in Client
  BY <1>1
<1>3. ASSUME NEW j \in S, NEW k \in S, g[j] = g[k] PROVE j = k
  <2>1. CASE j < i /\ k < i
    BY <2>1, <1>1, <1>3 DEF Select!ListenFd, Select!Slot
  <2>2. CASE j < i /\ ~(k < i)
    BY <2>2, <1>1, <1>3, RoomsAssumption DEF Select!ListenFd, Select!Slot
  <2>3. CASE ~(j < i) /\ k < i
    BY <2>3, <1>1, <1>3, RoomsAssumption DEF Select!ListenFd, Select!Slot
  <2>4. CASE ~(j < i) /\ ~(k < i)
    BY <2>4 DEF Select!Slot
  <2> QED
    BY <2>1, <2>2, <2>3, <2>4
<1>4. g \in Injection(S, Client)
  BY <1>2, <1>3 DEF Injection, IsInjective
<1>5. Cardinality(S) = i + 1
  BY FS_Interval DEF Select!Slot
<1>6. Cardinality(S) <= Cardinality(Client) /\ Cardinality(Client) \in Nat
  <2> HIDE DEF g, S
  <2> QED
    BY <1>4, FS_Injection, FS_CardinalityType, RoomsAssumption
<1> QED
  BY <1>5, <1>6, SelectCardinality DEF Select!Fd, Select!ListenFd, Select!Slot

\* accept returns the descriptor that belongs to the first free slot.
LEMMA NextBelongs ==
    ASSUME SelectType, SlotsMatch, AllHaveSlots,
           NEW i \in Select!Slot, clientSockets[i] = Nil,
           \A j \in Select!Slot : j < i => clientSockets[j] # Nil,
           NEW c \in Client, fd[c] = Nil
    PROVE  Select!NextFd = Select!ListenFd + 1 + i
<1> DEFINE S == Select!Fd \ {fd[d] : d \in Client}
           m == Select!ListenFd + 1 + i
<1>1. m \in Select!Fd
  BY ClientsSuffice
<1>2. ASSUME NEW d \in Client, fd[d] = m PROVE FALSE
  <2>1. fd[d] # Nil
    BY <1>1, <1>2, RoomsAssumption DEF Select!Fd, Select!ListenFd
  <2>2. PICK k \in Select!Slot : clientSockets[k] = d
    BY <2>1 DEF AllHaveSlots
  <2>3. fd[d] = Select!ListenFd + 1 + k
    BY <2>2, RoomsAssumption DEF SlotsMatch
  <2> QED
    BY <2>2, <2>3, <1>2, RoomsAssumption DEF Select!Slot, Select!ListenFd
<1>3. ASSUME NEW y \in S, y < m PROVE FALSE
  <2>1. y \in Select!Fd /\ y \in Int /\ y >= Select!ListenFd + 1
    BY <1>1, FS_CardinalityType, RoomsAssumption DEF Select!Fd, Select!ListenFd
  <2> DEFINE k == y - Select!ListenFd - 1
  <2>2. k \in Select!Slot /\ k < i /\ y = Select!ListenFd + 1 + k
    BY <2>1, <1>3, RoomsAssumption DEF Select!Slot, Select!ListenFd
  <2>3. clientSockets[k] \in Client /\ fd[clientSockets[k]] = y
    BY <2>2 DEF SelectType, SlotsMatch
  <2> QED
    BY <2>3
<1>4. S \subseteq Nat /\ m \in S
  BY <1>1, <1>2, FS_CardinalityType, RoomsAssumption DEF Select!Fd, Select!ListenFd
<1>5. Select!Min(S) \in S /\ Select!Min(S) <= m
  BY <1>4, MinFacts
<1>6. Select!Min(S) = m
  <2>1. Select!Min(S) \in Nat /\ m \in Nat /\ ~(Select!Min(S) < m)
    BY <1>3, <1>4, <1>5
  <2> HIDE DEF S, m
  <2> QED
    BY <2>1, <1>5
<1> QED
  BY <1>6 DEF Select!NextFd

-----------------------------------------------------------------------------
selectCore == <<pc, fd, backlog, Select!table, rset, missed>>

LEMMA SelectInitially ==
    ASSUME Select!Init
    PROVE  SelectInv
<1> USE DEF Select!Init
<1>1. SelectType
  BY DEF SelectType, Select!ListenFd
<1>2. SelectCovered /\ SlotsMatch /\ AllHaveSlots /\ Waiting
  BY DEF SelectCovered, SlotsMatch, AllHaveSlots, Waiting
<1> QED
  BY <1>1, <1>2 DEF SelectInv

LEMMA SelectStutters ==
    ASSUME SelectInv, UNCHANGED selectCore
    PROVE  SelectInv'
BY DEF SelectInv, SelectType, SelectCovered, SlotsMatch, AllHaveSlots, Waiting, selectCore,
       Select!table

\* A client that was accepted enters a slot within the limits.
LEMMA EnteringKeeps ==
    ASSUME SelectInv, pc # "ended", backlog # << >>,
           NEW free, free = {i \in Select!Slot : clientSockets[i] = Nil}, free # {},
           NEW c, c = Head(backlog), backlog' = Tail(backlog),
           clientSockets' = [clientSockets EXCEPT ![Select!Min(free)] = c],
           currentClients' = currentClients + 1,
           fd' = [fd EXCEPT ![c] = Select!NextFd],
           maxfd' = (IF Select!NextFd > maxfd THEN Select!NextFd ELSE maxfd),
           allset' = allset \cup {c}, rset' \in SUBSET Client, missed' = missed
    PROVE  SelectInv'
<1>1. SelectType /\ SelectCovered /\ SlotsMatch /\ AllHaveSlots /\ Waiting /\ missed = {}
  BY DEF SelectInv
<1>2. c \in Client /\ fd[c] = Nil /\ Len(backlog) \in Nat /\ Len(backlog) > 0
  BY <1>1 DEF SelectType, Waiting
<1> DEFINE i == Select!Min(free)
<1>3. i \in Select!Slot /\ clientSockets[i] = Nil /\ \A j \in free : i <= j
  <2>1. free \subseteq Nat
    BY DEF Select!Slot
  <2> QED
    BY <2>1, MinFacts
<1>4. \A j \in Select!Slot : j < i => clientSockets[j] # Nil
  BY <1>3 DEF Select!Slot
<1>5. Select!NextFd = Select!ListenFd + 1 + i /\ Select!ListenFd + 1 + i \in Select!Fd
  <2> HIDE DEF i
  <2> QED
    BY <1>1, <1>2, <1>3, <1>4, NextBelongs, ClientsSuffice
<1> HIDE DEF i
<1>6. SelectType'
  <2>1. /\ fd' \in [Client -> Select!Fd \cup {Nil}]
        /\ clientSockets' \in [Select!Slot -> Client \cup {Nil}]
    BY <1>1, <1>2, <1>3, <1>5 DEF SelectType, i
  <2>2. maxfd' \in Nat /\ currentClients' \in Nat
    BY <1>1, <1>3, <1>5 DEF SelectType, Select!ListenFd, Select!Slot
  <2>3. backlog' \in Seq(Client)
    BY <1>1 DEF SelectType
  <2> QED
    BY <2>1, <2>2, <2>3, <1>1, <1>2 DEF SelectType
<1>7. SelectCovered'
  <2> SUFFICES ASSUME NEW k \in Select!Slot, clientSockets'[k] # Nil
               PROVE  k < currentClients' /\ Select!ListenFd + 1 + k <= maxfd'
    BY DEF SelectCovered
  <2>1. CASE k = i
    <3>1. k <= currentClients
      <4>1. CASE k = 0
        BY <4>1, <1>1 DEF SelectType
      <4>2. CASE k # 0
        <5>1. k - 1 \in Select!Slot /\ k - 1 < i
          BY <4>2, <2>1, <1>3, RoomsAssumption DEF Select!Slot
        <5>2. k - 1 < currentClients
          BY <5>1, <1>4, <1>1 DEF SelectCovered
        <5> QED
          BY <5>2, <1>1 DEF SelectType, Select!Slot
      <4> QED
        BY <4>1, <4>2
    <3> QED
      BY <3>1, <2>1, <1>5, <1>1 DEF SelectType, Select!Slot, Select!ListenFd
  <2>2. CASE k # i
    <3>1. k < currentClients /\ Select!ListenFd + 1 + k <= maxfd
      BY <2>2, <1>1, <1>3 DEF SelectType, SelectCovered, i
    <3> QED
      BY <3>1, <1>5, <1>1, <1>3 DEF SelectType, Select!Slot, Select!ListenFd
  <2> QED
    BY <2>1, <2>2
<1>8. SlotsMatch'
  <2> SUFFICES ASSUME NEW k \in Select!Slot, clientSockets'[k] # Nil
               PROVE  fd'[clientSockets'[k]] = Select!ListenFd + 1 + k
    BY DEF SlotsMatch
  <2>1. CASE k = i
    BY <2>1, <1>1, <1>2, <1>3, <1>5 DEF SelectType, i
  <2>2. CASE k # i
    <3>1. clientSockets'[k] = clientSockets[k] /\ clientSockets[k] \in Client
      BY <2>2, <1>1, <1>3 DEF SelectType, i
    <3>2. fd[clientSockets[k]] = Select!ListenFd + 1 + k
      BY <3>1, <1>1 DEF SlotsMatch
    <3>3. clientSockets[k] # c
      BY <3>2, <1>2, RoomsAssumption DEF Select!ListenFd, Select!Slot
    <3> QED
      BY <3>1, <3>2, <3>3, <1>1 DEF SelectType
  <2> QED
    BY <2>1, <2>2
<1>9. AllHaveSlots'
  <2> SUFFICES ASSUME NEW d \in Client, fd'[d] # Nil
               PROVE  \E k \in Select!Slot : clientSockets'[k] = d
    BY DEF AllHaveSlots
  <2>1. CASE d = c
    BY <2>1, <1>1, <1>3 DEF SelectType, i
  <2>2. CASE d # c
    <3>1. fd[d] # Nil
      BY <2>2, <1>1 DEF SelectType
    <3>2. PICK k \in Select!Slot : clientSockets[k] = d
      BY <3>1, <1>1 DEF AllHaveSlots
    <3>3. k # i
      BY <3>2, <1>3, RoomsAssumption
    <3> QED
      BY <3>2, <3>3, <1>1 DEF SelectType, i
  <2> QED
    BY <2>1, <2>2
<1>10. Waiting'
  <2>1. \A j \in 1..Len(backlog') : j + 1 \in 1..Len(backlog) /\ backlog'[j] = backlog[j + 1]
    BY <1>1, <1>2 DEF SelectType
  <2>2. c = backlog[1]
    BY <1>1 DEF SelectType
  <2>3. \A j \in 1..Len(backlog') : backlog'[j] # c /\ backlog'[j] \in Client
    BY <2>1, <2>2, <1>1, <1>2 DEF Waiting, SelectType
  <2>4. \A j \in 1..Len(backlog') : fd'[backlog'[j]] = Nil
    BY <2>1, <2>3, <1>1 DEF Waiting, SelectType
  <2>5. \A j, k \in 1..Len(backlog') : backlog'[j] = backlog'[k] => j = k
    BY <2>1, <1>1, <1>2 DEF Waiting
  <2> QED
    BY <2>4, <2>5 DEF Waiting
<1> QED
  BY <1>6, <1>7, <1>8, <1>9, <1>10, <1>1 DEF SelectInv

\* One that is refused leaves the queue of those that wait.
LEMMA RefusingKeeps ==
    ASSUME SelectInv, pc # "ended", backlog # << >>, backlog' = Tail(backlog),
           UNCHANGED <<Select!table, fd, missed>>, rset' \in SUBSET Client
    PROVE  SelectInv'
<1>1. SelectType /\ SelectCovered /\ SlotsMatch /\ AllHaveSlots /\ Waiting /\ missed = {}
  BY DEF SelectInv
<1>2. SelectType' /\ SelectCovered' /\ SlotsMatch' /\ AllHaveSlots'
  BY <1>1 DEF SelectType, SelectCovered, SlotsMatch, AllHaveSlots, Select!table
<1>3. \A j \in 1..Len(backlog') : j + 1 \in 1..Len(backlog) /\ backlog'[j] = backlog[j + 1]
  BY <1>1 DEF SelectType
<1>4. Waiting'
  BY <1>1, <1>3 DEF Waiting, SelectType
<1> QED
  BY <1>1, <1>2, <1>4 DEF SelectInv

LEMMA SelectingKeeps ==
    ASSUME SelectInv, Select!Select
    PROVE  SelectInv'
<1> DEFINE free == {i \in Select!Slot : clientSockets[i] = Nil}
<1>1. rset' \in SUBSET Client /\ pc # "ended" /\ missed' = missed
  BY DEF Select!Select, SelectInv, SelectType
<1>2. CASE backlog = << >>
  <2>1. pc' = "stdin" /\ UNCHANGED <<Select!table, fd, backlog, missed>>
    BY <1>2 DEF Select!Select
  <2> QED
    BY <2>1, <1>1 DEF SelectInv, SelectType, SelectCovered, SlotsMatch, AllHaveSlots, Waiting,
       Select!table
<1>3. CASE backlog # << >> /\ free = {}
  <2>1. backlog' = Tail(backlog) /\ UNCHANGED <<Select!table, fd, missed>>
    BY <1>3 DEF Select!Select
  <2> QED
    BY <2>1, <1>1, <1>3, RefusingKeeps
<1>4. CASE backlog # << >> /\ free # {}
  <2>1. /\ backlog' = Tail(backlog)
        /\ clientSockets' = [clientSockets EXCEPT ![Select!Min(free)] = Head(backlog)]
        /\ currentClients' = currentClients + 1
        /\ fd' = [fd EXCEPT ![Head(backlog)] = Select!NextFd]
        /\ maxfd' = (IF Select!NextFd > maxfd THEN Select!NextFd ELSE maxfd)
        /\ allset' = allset \cup {Head(backlog)}
    BY <1>4 DEF Select!Select
  <2> HIDE DEF free
  <2>2. free = {i \in Select!Slot : clientSockets[i] = Nil}
    BY DEF free
  <2> QED
    BY <2>1, <2>2, <1>1, <1>4, EnteringKeeps
<1> QED
  BY <1>2, <1>3, <1>4

LEMMA ClosingKeeps ==
    ASSUME SelectInv, pc # "ended", NEW i \in Select!Slot, NEW c \in Client,
           clientSockets[i] = c, Select!Close(c, i), pc' = pc,
           rset' = rset \ {c}, UNCHANGED <<backlog, missed>>
    PROVE  SelectInv'
<1>1. SelectType /\ SelectCovered /\ SlotsMatch /\ AllHaveSlots /\ Waiting /\ missed = {}
  BY DEF SelectInv
<1> USE DEF Select!Close
<1>2. SelectType'
  BY <1>1 DEF SelectType
<1>3. SelectCovered'
  BY <1>1 DEF SelectCovered, SelectType
<1>4. SlotsMatch'
  <2> SUFFICES ASSUME NEW k \in Select!Slot, clientSockets'[k] # Nil
               PROVE  fd'[clientSockets'[k]] = Select!ListenFd + 1 + k
    BY DEF SlotsMatch
  <2>1. k # i /\ clientSockets'[k] = clientSockets[k] /\ clientSockets[k] \in Client
    BY <1>1 DEF SelectType
  <2>2. fd[clientSockets[k]] = Select!ListenFd + 1 + k /\ fd[c] = Select!ListenFd + 1 + i
    BY <2>1, <1>1, RoomsAssumption DEF SlotsMatch
  <2>3. clientSockets[k] # c
    BY <2>1, <2>2 DEF Select!ListenFd, Select!Slot
  <2> QED
    BY <2>1, <2>2, <2>3, <1>1 DEF SelectType
<1>5. AllHaveSlots'
  <2> SUFFICES ASSUME NEW d \in Client, fd'[d] # Nil
               PROVE  \E k \in Select!Slot : clientSockets'[k] = d
    BY DEF AllHaveSlots
  <2>1. d # c /\ fd[d] # Nil
    BY <1>1 DEF SelectType
  <2>2. PICK k \in Select!Slot : clientSockets[k] = d
    BY <2>1, <1>1 DEF AllHaveSlots
  <2> QED
    BY <2>1, <2>2, <1>1 DEF SelectType
<1>6. Waiting'
  BY <1>1 DEF Waiting, SelectType
<1> QED
  BY <1>1, <1>2, <1>3, <1>4, <1>5, <1>6 DEF SelectInv

\* What is relayed goes to everybody connected.
LEMMA RelayReaches ==
    ASSUME SelectInv, pc # "ended", NEW c \in Client, Select!Relay(c)
    PROVE  missed' = {}
<1>1. SelectType /\ SelectCovered /\ AllHaveSlots /\ missed = {}
  BY DEF SelectInv
<1>2. ASSUME NEW d \in Client \ {c}, fd[d] # Nil PROVE d \in Select!Others(c)
  <2>1. PICK k \in Select!Slot : clientSockets[k] = d
    BY <1>1, <1>2 DEF AllHaveSlots
  <2>2. d # Nil
    BY RoomsAssumption
  <2>3. k < currentClients
    BY <2>1, <2>2, <1>1 DEF SelectCovered
  <2> QED
    BY <2>1, <2>2, <2>3, <1>2 DEF Select!Others
<1> QED
  BY <1>1, <1>2 DEF Select!Relay

LEMMA HandlingKeeps ==
    ASSUME SelectInv, Select!Handle
    PROVE  SelectInv'
<1> DEFINE i == Select!Min(Select!Scanned)
           c == clientSockets[i]
<1>1. pc = "handle" /\ Select!Scanned # {} /\ SelectType
  BY DEF Select!Handle, SelectInv
<1>2. i \in Select!Slot /\ c \in rset
  <2>1. Select!Scanned \subseteq Nat
    BY DEF Select!Scanned, Select!Slot
  <2>2. i \in Select!Scanned
    BY <2>1, <1>1, MinFacts
  <2> HIDE DEF i
  <2> QED
    BY <2>2 DEF Select!Scanned
<1>3. c \in Client
  BY <1>2, <1>1 DEF SelectType
<1>4. rset' = rset \ {c} /\ backlog' = backlog
  BY DEF Select!Handle
<1>5. CASE toServer[c] > 0
  <2>1. Select!Relay(c) /\ UNCHANGED <<Select!table, fd>>
    BY <1>5 DEF Select!Handle
  <2> HIDE DEF c, i
  <2>2. missed' = {}
    BY <2>1, <1>1, <1>3, RelayReaches
  <2> QED
    BY <2>1, <2>2, <1>1, <1>4
    DEF SelectInv, SelectType, SelectCovered, SlotsMatch, AllHaveSlots, Waiting, Select!table
<1>6. CASE ~(toServer[c] > 0)
  <2>1. Select!Close(c, i) /\ pc' = pc /\ missed' = missed
    BY <1>6 DEF Select!Handle
  <2>2. pc # "ended" /\ clientSockets[i] = c
    BY <1>1
  <2> HIDE DEF c, i
  <2> QED
    BY <2>1, <2>2, <1>2, <1>3, <1>4, ClosingKeeps
<1> QED
  BY <1>5, <1>6

\* closeFds leaves the table, whose clients then have no descriptors; it is not
\* used again.
LEMMA StdinKeeps ==
    ASSUME SelectInv, Select!Stdin
    PROVE  SelectInv'
<1>1. CASE quits
  BY <1>1 DEF Select!Stdin, SelectInv, SelectType, SelectCovered
<1>2. CASE ~quits
  BY <1>2 DEF Select!Stdin, SelectInv, SelectType, SelectCovered, SlotsMatch, AllHaveSlots, Waiting
<1> QED
  BY <1>1, <1>2

\* Who connects does not wait yet.
LEMMA SelectConnectKeeps ==
    ASSUME SelectInv, NEW c \in Client, Select!Connect(c)
    PROVE  SelectInv'
<1>1. SelectType /\ SelectCovered /\ missed = {}
  BY DEF SelectInv
<1>2. /\ backlog' = Append(backlog, c) /\ fd[c] = Nil /\ c \notin Select!ToSet(backlog)
      /\ UNCHANGED <<pc, fd, Select!table, rset, missed>>
  BY DEF Select!Connect
<1>3. SelectType' /\ SelectCovered'
  BY <1>1, <1>2 DEF SelectType, SelectCovered, Select!table
<1>4. ASSUME pc # "ended" PROVE Waiting'
  <2>1. Waiting
    BY <1>4 DEF SelectInv
  <2>2. \A j \in 1..Len(backlog) : backlog[j] # c
    BY <1>2 DEF Select!ToSet
  <2>3. /\ Len(backlog') = Len(backlog) + 1 /\ Len(backlog) \in Nat
        /\ \A j \in 1..Len(backlog) : backlog'[j] = backlog[j]
        /\ backlog'[Len(backlog) + 1] = c
    BY <1>1, <1>2 DEF SelectType
  <2>4. \A j \in 1..Len(backlog') : fd'[backlog'[j]] = Nil
    BY <2>1, <2>3, <1>2 DEF Waiting
  <2>5. \A j, k \in 1..Len(backlog') : backlog'[j] = backlog'[k] => j = k
    BY <2>1, <2>2, <2>3 DEF Waiting
  <2> QED
    BY <2>4, <2>5 DEF Waiting
<1>5. pc # "ended" => SlotsMatch' /\ AllHaveSlots'
  BY <1>2 DEF SelectInv, SlotsMatch, AllHaveSlots, Select!table
<1> QED
  BY <1>1, <1>2, <1>3, <1>4, <1>5 DEF SelectInv

LEMMA SelectStep ==
    ASSUME SelectInv, [Select!Next]_(Select!vars)
    PROVE  SelectInv'
<1>1. CASE Select!Select
  BY <1>1, SelectingKeeps
<1>2. CASE Select!Stdin
  BY <1>2, StdinKeeps
<1>3. CASE Select!Handle
  BY <1>3, HandlingKeeps
<1>4. CASE Select!HandleEnds
  BY <1>4 DEF Select!HandleEnds, Select!net, SelectInv, SelectType, SelectCovered, SlotsMatch,
     AllHaveSlots, Waiting, Select!table
<1>5. CASE Select!TypesQ
  BY <1>5, SelectStutters DEF Select!TypesQ, selectCore, Select!net
<1>6. ASSUME NEW c \in Client, Select!Connect(c) PROVE SelectInv'
  BY <1>6, SelectConnectKeeps
<1>7. ASSUME NEW c \in Client, Select!Shows(c) \/ Select!Types(c) \/ Select!Ends(c) PROVE SelectInv'
  BY <1>7, SelectStutters DEF Select!Shows, Select!Types, Select!Ends, selectCore
<1>8. CASE UNCHANGED Select!vars
  BY <1>8, SelectStutters DEF Select!vars, Select!net, selectCore
<1> QED
  BY <1>1, <1>2, <1>3, <1>4, <1>5, <1>6, <1>7, <1>8 DEF Select!Next

LEMMA SelectSuffices ==
    ASSUME SelectInv
    PROVE  Select!EveryoneGetsIt
BY RoomsAssumption DEF SelectInv, SelectType, SelectCovered, Select!EveryoneGetsIt,
   Select!ListenFd, Select!Slot

\* With any number of clients and slots, and whoever came and left before, what
\* a client sends is written to every other client that is connected: the
\* server's loops over the table always reach all used slots.
THEOREM EveryoneAlwaysGetsIt ==
    Spec => []EveryoneGetsIt
<1> DEFINE I == program = "select" => SelectInv
<1>1. Init => I
  BY SelectInitially DEF Init
<1>2. I /\ [Next]_vars => I'
  <2> SUFFICES ASSUME I, [Next]_vars, program' = "select" PROVE SelectInv'
    OBVIOUS
  <2>1. program = "select" /\ [Select!Next]_(Select!vars)
    BY DEF Next, vars, Select!vars, Select!net, Select!table
  <2> QED
    BY <2>1, SelectStep
<1>3. I => EveryoneGetsIt
  BY SelectSuffices DEF EveryoneGetsIt
<1> QED
  BY <1>1, <1>2, <1>3, PTL DEF Spec

-----------------------------------------------------------------------------
(***************************************************************************)
(* The epoll room: whatever can be read has an event that was not          *)
(* reported yet, or one that was reported and not handled.                 *)
(***************************************************************************)
Source == {Epoll!Listen} \cup FewClients

EpollType ==
    /\ server \in {"wait", "handle", "ended"}
    /\ sock \in [FewClients -> {"away", "waiting", "open", "closed"}]
    /\ over \in [FewClients -> {"no", "close", "reset"}]
    /\ unread \in [FewClients -> Nat] /\ backlog \in Seq(FewClients)
    /\ burst \in BOOLEAN

\* what epoll_wait reports is handled before it is called again; the listening
\* socket is reported for a connection that still waits
Handled ==
    /\ server = "wait" => events = {}
    /\ Epoll!Listen \in events => backlog # << >>

\* what can be read has had an event that was not handled yet
Remembered ==
    ~burst /\ server # "ended" =>
        \A f \in Source : Epoll!Readable(f) => f \in ready \cup events

EpollInv == EpollType /\ Handled /\ Remembered

LEMMA ListenApart == Epoll!Listen \notin FewClients
BY RoomsAssumption DEF Epoll!Listen

LEMMA EpollInitially == Epoll!Init => EpollInv
<1> SUFFICES ASSUME Epoll!Init PROVE EpollInv
  OBVIOUS
<1> USE DEF Epoll!Init
<1>1. EpollType
  <2>1. burst \in BOOLEAN
    BY Zenon
  <2>2. backlog \in Seq(FewClients)
    OBVIOUS
  <2>3. unread \in [FewClients -> Nat]
    OBVIOUS
  <2> QED
    BY <2>1, <2>2, <2>3 DEF EpollType
<1>3. Handled
  BY DEF Handled
<1>2. Remembered
  BY ListenApart DEF Remembered, Source, Epoll!Readable
<1> QED
  BY <1>1, <1>2, <1>3 DEF EpollInv

\* Most actions leave alone what was reported and accepted, and whoever can be
\* read after one of them could be before or has an event.
LEMMA EventKeeps ==
    ASSUME EpollInv, EpollType', UNCHANGED <<server, backlog, events, burst>>,
           ready \subseteq ready',
           \A c \in FewClients : Epoll!Readable(c)' => Epoll!Readable(c) \/ c \in ready'
    PROVE  EpollInv'
<1>1. Handled'
  BY DEF EpollInv, Handled
<1>2. Remembered'
  BY ListenApart DEF EpollInv, Remembered, Source, Epoll!Readable, Epoll!Listen
<1> QED
  BY <1>1, <1>2 DEF EpollInv

LEMMA WaitKeeps ==
    ASSUME EpollInv, Epoll!Wait
    PROVE  EpollInv'
<1> USE DEF Epoll!Wait, Epoll!traffic, EpollInv
<1>1. EpollType'
  BY DEF EpollType
<1>2. Handled'
  BY DEF Handled, Epoll!Reported, Epoll!Readable
<1>3. Remembered'
  <2>1. \A f \in Source : Epoll!Readable(f)' = Epoll!Readable(f)
    BY DEF Epoll!Readable
  <2>2. burst' = burst
    OBVIOUS
  <2> QED
    BY <2>1, <2>2 DEF Handled, Remembered, Epoll!Reported
<1> QED
  BY <1>1, <1>2, <1>3

LEMMA AcceptKeeps ==
    ASSUME EpollInv, Epoll!AcceptOne
    PROVE  EpollInv'
<1> DEFINE c == Head(backlog)
<1>1. EpollType /\ Handled /\ Remembered
  BY DEF EpollInv
<1>2. server = "handle" /\ Epoll!Listen \in events /\ backlog # << >> /\ c \in FewClients
  BY <1>1 DEF Epoll!AcceptOne, Handled, EpollType
<1>3. /\ backlog' = Tail(backlog) /\ sock' = [sock EXCEPT ![c] = "open"]
      /\ burst' = (burst \/ (Len(backlog) > 1 /\ Epoll!Listen \notin ready))
      /\ ready' = IF unread[c] > 0 \/ over[c] # "no" THEN ready \cup {c} ELSE ready
      /\ unread' = unread
  BY DEF Epoll!AcceptOne
<1>4. over' = over \/ (over[c] = "close" /\ over' = [over EXCEPT ![c] = "reset"])
  BY DEF Epoll!AcceptOne
<1>5. server' = "ended" \/ events' = events \ {Epoll!Listen}
  BY DEF Epoll!AcceptOne, Epoll!Done
<1>6. server' = "wait" => events' = {}
  BY DEF Epoll!AcceptOne, Epoll!Done
<1>7. server' \in {"wait", "handle", "ended"}
  BY DEF Epoll!AcceptOne, Epoll!Done
<1>8. Epoll!Listen \notin events'
  BY DEF Epoll!AcceptOne, Epoll!Done
<1> HIDE DEF c
<1>9. EpollType'
  <2>1. backlog' \in Seq(FewClients)
    BY <1>1, <1>2, <1>3 DEF EpollType
  <2>2. burst' \in BOOLEAN
    BY <1>3
  <2> QED
    BY <2>1, <2>2, <1>1, <1>2, <1>3, <1>4, <1>7 DEF EpollType
<1>10. Handled'
  BY <1>6, <1>8 DEF Handled
<1>11. Remembered'
  <2> SUFFICES ASSUME ~burst', server' # "ended", NEW f \in Source, Epoll!Readable(f)'
               PROVE  f \in ready' \cup events'
    BY DEF Remembered
  <2>1. ~burst /\ events' = events \ {Epoll!Listen} /\ ready \subseteq ready'
    BY <1>3, <1>5
  <2>2. CASE f = Epoll!Listen
    <3>1. backlog' # << >>
      BY <2>2 DEF Epoll!Readable, Epoll!Listen
    <3>2. Len(backlog) > 1
      BY <3>1, <1>1, <1>2, <1>3 DEF EpollType
    <3> QED
      BY <3>2, <2>1, <2>2, <1>3
  <2>3. CASE f = c
    BY <2>3, <1>1, <1>2, <1>3, <1>4, ListenApart DEF EpollType, Epoll!Readable, Epoll!Listen
  <2>4. CASE f # Epoll!Listen /\ f # c
    <3>1. f \in FewClients
      BY <2>4 DEF Source
    <3>2. sock'[f] = sock[f] /\ unread'[f] = unread[f] /\ over'[f] = over[f]
      BY <3>1, <2>4, <1>1, <1>3, <1>4 DEF EpollType
    <3>3. Epoll!Readable(f)
      BY <3>2, <2>4 DEF Epoll!Readable, Epoll!Listen
    <3> QED
      BY <3>3, <2>1, <2>4, <1>1, <1>2 DEF Remembered
  <2> QED
    BY <2>2, <2>3, <2>4
<1> QED
  BY <1>9, <1>10, <1>11 DEF EpollInv

LEMMA BroadcastKeeps ==
    ASSUME EpollInv, NEW c \in FewClients, Epoll!sendBroadcastMsg(c)
    PROVE  EpollInv'
<1>1. EpollType /\ Handled /\ Remembered
  BY DEF EpollInv
<1>2. /\ server = "handle" /\ c \in events
      /\ UNCHANGED <<backlog, over, ready>>
  BY DEF Epoll!sendBroadcastMsg
<1>3. CASE /\ unread[c] > 0
           /\ unread' = [unread EXCEPT ![c] = @ - Epoll!recv(c)]
           /\ burst' = (burst \/ (c \notin ready
                                  /\ (unread[c] > BUF_SIZE \/ over[c] # "no")))
           /\ Epoll!Done(c) /\ sock' = sock
  <2>1. Epoll!recv(c) \in Nat /\ Epoll!recv(c) <= unread[c] /\ unread[c] \in Nat
    BY <1>1, RoomsAssumption DEF EpollType, Epoll!recv
  <2>2. EpollType'
    <3>1. burst' \in BOOLEAN
      BY <1>3
    <3>2. server' \in {"wait", "handle", "ended"}
      BY <1>3 DEF Epoll!Done
    <3>3. unread' \in [FewClients -> Nat]
      BY <1>1, <1>3, <2>1 DEF EpollType
    <3> QED
      BY <3>1, <3>2, <3>3, <1>1, <1>2, <1>3 DEF EpollType
  <2>3. Handled'
    BY <1>1, <1>2, <1>3, ListenApart DEF Handled, Epoll!Done
  <2>4. Remembered'
    <3> SUFFICES ASSUME ~burst', server' # "ended", NEW f \in Source, Epoll!Readable(f)'
                 PROVE  f \in ready' \cup events'
      BY DEF Remembered
    <3>1. ~burst /\ events' = events \ {c} /\ ready' = ready
      BY <1>2, <1>3 DEF Epoll!Done
    <3>2. CASE f = c
      <4>1. unread'[c] > 0 \/ over[c] # "no"
        BY <3>2, <1>2, ListenApart DEF Epoll!Readable
      <4>2. CASE c \in ready
        BY <4>2, <3>1, <3>2
      <4>3. CASE c \notin ready
        <5>1. ~(unread[c] > BUF_SIZE) /\ over[c] = "no"
          BY <4>3, <1>3
        <5>2. unread'[c] = 0
          BY <5>1, <1>1, <1>3, <2>1 DEF EpollType, Epoll!recv
        <5> QED
          BY <5>1, <5>2, <4>1
      <4> QED
        BY <4>2, <4>3
    <3>3. CASE f # c
      <4>1. Epoll!Readable(f)
        <5>1. CASE f = Epoll!Listen
          BY <5>1, <1>2 DEF Epoll!Readable
        <5>2. CASE f # Epoll!Listen
          BY <5>2, <3>3, <1>1, <1>2, <1>3 DEF Epoll!Readable, EpollType, Source
        <5> QED
          BY <5>1, <5>2
      <4> QED
        BY <4>1, <3>1, <3>3, <1>1, <1>2 DEF Remembered
    <3> QED
      BY <3>2, <3>3
  <2> QED
    BY <2>2, <2>3, <2>4 DEF EpollInv
<1>4. CASE /\ unread[c] = 0 /\ over[c] = "close"
           /\ sock' = [sock EXCEPT ![c] = "closed"]
           /\ Epoll!Done(c) /\ UNCHANGED <<unread, burst>>
  <2>1. EpollType'
    BY <1>1, <1>2, <1>4 DEF EpollType, Epoll!Done
  <2>2. Handled'
    BY <1>1, <1>2, <1>4, ListenApart DEF Handled, Epoll!Done
  <2>3. Remembered'
    <3> SUFFICES ASSUME ~burst', server' # "ended", NEW f \in Source, Epoll!Readable(f)'
                 PROVE  f \in ready' \cup events'
      BY DEF Remembered
    <3>1. f # c
      BY <1>1, <1>4, ListenApart DEF Epoll!Readable, EpollType
    <3>2. Epoll!Readable(f)
      <4>1. CASE f = Epoll!Listen
        BY <4>1, <1>2 DEF Epoll!Readable
      <4>2. CASE f # Epoll!Listen
        BY <4>2, <3>1, <1>1, <1>2, <1>4 DEF Epoll!Readable, EpollType, Source
      <4> QED
        BY <4>1, <4>2
    <3>3. ~burst /\ events' = events \ {c} /\ ready' = ready
      BY <1>2, <1>4 DEF Epoll!Done
    <3> QED
      BY <3>1, <3>2, <3>3, <1>1, <1>2 DEF Remembered
  <2> QED
    BY <2>1, <2>2, <2>3 DEF EpollInv
<1>5. CASE server' = "ended" /\ events' = {} /\ UNCHANGED <<sock, unread, burst>>
  BY <1>1, <1>2, <1>5 DEF EpollInv, EpollType, Handled, Remembered
<1> QED
  BY <1>3, <1>4, <1>5 DEF Epoll!sendBroadcastMsg

LEMMA EpollConnectKeeps ==
    ASSUME EpollInv, NEW c \in FewClients, Epoll!Connect(c)
    PROVE  EpollInv'
<1>1. EpollType /\ Handled /\ Remembered
  BY DEF EpollInv
<1>2. /\ sock' = [sock EXCEPT ![c] = "waiting"] /\ backlog' = Append(backlog, c)
      /\ ready' = ready \cup {Epoll!Listen}
      /\ UNCHANGED <<server, unread, over, events, burst>>
  BY DEF Epoll!Connect
<1>3. EpollType'
  BY <1>1, <1>2 DEF EpollType
<1>4. Handled'
  <2>1. backlog' # << >>
    BY <1>1, <1>2 DEF EpollType
  <2> QED
    BY <2>1, <1>1, <1>2 DEF Handled
<1>5. \A f \in FewClients : Epoll!Readable(f)' => Epoll!Readable(f)
  BY <1>1, <1>2, ListenApart DEF Epoll!Readable, EpollType
<1>6. Remembered'
  BY <1>1, <1>2, <1>5 DEF Remembered, Source
<1> QED
  BY <1>3, <1>4, <1>6 DEF EpollInv

\* Data and ends of connections come with an event.
LEMMA ArrivingKeeps ==
    ASSUME EpollInv, NEW c \in FewClients, Epoll!Arrives(c),
           UNCHANGED <<server, sock, backlog, events, burst>>,
           \/ unread' = [unread EXCEPT ![c] = @ + 1] /\ over' = over
           \/ Epoll!Closes(c) /\ unread' = unread
    PROVE  EpollInv'
<1>1. EpollType /\ ready' = (IF sock[c] = "open" THEN ready \cup {c} ELSE ready)
  BY DEF EpollInv, Epoll!Arrives
<1>2. EpollType'
  <2>1. unread' \in [FewClients -> Nat]
    BY <1>1 DEF EpollType
  <2>2. over' \in [FewClients -> {"no", "close", "reset"}]
    BY <1>1 DEF EpollType, Epoll!Closes
  <2> QED
    BY <2>1, <2>2, <1>1 DEF EpollType
<1>3. \A f \in FewClients : Epoll!Readable(f)' => Epoll!Readable(f) \/ f \in ready'
  BY <1>1, ListenApart DEF Epoll!Readable, EpollType, Epoll!Closes
<1> QED
  BY <1>1, <1>2, <1>3, EventKeeps

\* Nothing that the server sees has changed.
LEMMA EpollStutters ==
    ASSUME EpollInv, UNCHANGED <<server, sock, backlog, unread, over, ready, events, burst>>
    PROVE  EpollInv'
BY DEF EpollInv, EpollType, Handled, Remembered, Epoll!Readable

LEMMA LeavingKeeps ==
    ASSUME EpollInv, NEW c \in FewClients, NEW other, Epoll!Leaves(c, other),
           UNCHANGED <<server, sock, backlog, unread, events, burst>>
    PROVE  EpollInv'
<1>1. CASE UNCHANGED <<over, ready>>
  BY <1>1, EpollStutters
<1>2. CASE Epoll!Closes(c)
  <2>1. Epoll!Arrives(c)
    BY <1>2 DEF Epoll!Closes
  <2> QED
    BY <2>1, <1>2, ArrivingKeeps
<1> QED
  BY <1>1, <1>2 DEF Epoll!Leaves

LEMMA EpollStep ==
    ASSUME EpollInv, [Epoll!Next]_(Epoll!vars)
    PROVE  EpollInv'
<1>1. CASE Epoll!Wait
  BY <1>1, WaitKeeps
<1>2. CASE Epoll!AcceptOne
  BY <1>2, AcceptKeeps
<1>3. ASSUME NEW c \in FewClients, Epoll!sendBroadcastMsg(c) PROVE EpollInv'
  BY <1>3, BroadcastKeeps
<1>4. ASSUME NEW c \in FewClients, Epoll!Connect(c) PROVE EpollInv'
  BY <1>4, EpollConnectKeeps
<1>5. ASSUME NEW c \in FewClients, Epoll!Sends(c) PROVE EpollInv'
  BY <1>5, ArrivingKeeps DEF Epoll!Sends
<1>6. ASSUME NEW c \in FewClients, Epoll!Ends(c) PROVE EpollInv'
  <2>1. Epoll!Closes(c) /\ Epoll!Arrives(c)
    BY <1>6 DEF Epoll!Ends, Epoll!Closes
  <2> QED
    BY <2>1, <1>6, ArrivingKeeps DEF Epoll!Ends
<1>7. ASSUME NEW c \in FewClients, Epoll!Killed(c) PROVE EpollInv'
  BY <1>7, LeavingKeeps DEF Epoll!Killed
<1>8. ASSUME NEW c \in FewClients, Epoll!Types(c) PROVE EpollInv'
  <2>1. CASE Epoll!Leaves(c, m12)
    BY <2>1, <1>8, LeavingKeeps DEF Epoll!Types
  <2>2. CASE UNCHANGED <<over, ready>>
    BY <2>2, <1>8, EpollStutters DEF Epoll!Types
  <2> QED
    BY <2>1, <2>2, <1>8 DEF Epoll!Types
<1>9. ASSUME NEW c \in FewClients, Epoll!ParentEvent(c) PROVE EpollInv'
  BY <1>9, EpollStutters DEF Epoll!ParentEvent, Epoll!traffic
<1>10. CASE UNCHANGED Epoll!vars
  BY <1>10, EpollStutters DEF Epoll!vars, Epoll!traffic
<1> QED
  BY <1>1, <1>2, <1>3, <1>4, <1>5, <1>6, <1>7, <1>8, <1>9, <1>10 DEF Epoll!Next

LEMMA EpollSuffices ==
    ASSUME EpollInv
    PROVE  Epoll!NothingStranded
<1>1. ASSUME server = "wait", Epoll!Reported = {}, ~burst, NEW f \in Source, Epoll!Readable(f)
      PROVE  FALSE
  BY <1>1 DEF EpollInv, Handled, Remembered, Epoll!Reported
<1> QED
  BY <1>1 DEF Epoll!NothingStranded, Source

\* For any number of clients, any size of the server's buffer and any order of
\* what they send and how they end: when the server waits and nothing will be
\* reported to it, nothing is left to be read, unless more came for one event
\* than the server takes.
THEOREM NothingEverStranded ==
    Spec => []NothingStranded
<1> DEFINE I == program = "epoll" => EpollInv
<1>1. Init => I
  BY EpollInitially DEF Init
<1>2. I /\ [Next]_vars => I'
  <2> SUFFICES ASSUME I, [Next]_vars, program' = "epoll" PROVE EpollInv'
    OBVIOUS
  <2>1. program = "epoll" /\ [Epoll!Next]_(Epoll!vars)
    BY DEF Next, vars, Epoll!vars, Epoll!traffic, Epoll!processes
  <2> QED
    BY <2>1, EpollStep
<1>3. I => NothingStranded
  BY EpollSuffices DEF NothingStranded
<1> QED
  BY <1>1, <1>2, <1>3, PTL DEF Spec

-----------------------------------------------------------------------------
(***************************************************************************)
(* The client of the threaded room.  Nodes are numbered in the order in    *)
(* which their elements were put in.                                       *)
(***************************************************************************)
Data ==
    [type : {0, 2}, id : Nat] \cup [type : {0}, id : Nat, des : 0..1] \cup {Nil}

Place ==
    [at : {"idle", "load", "link", "rear", "unlink", "test", "reset", "free", "handle"},
     node : Cl!Node \cup {Nil}, prev : Cl!Node \cup {Nil}]

QueueType ==
    /\ next \in [Cl!Queue -> [Cl!Node -> Cl!Node \cup {Nil}]]
    /\ rear \in [Cl!Queue -> Cl!Node]
    /\ datum \in [Cl!Queue -> [Cl!Node -> Data]]
    /\ gone \in [Cl!Queue -> SUBSET (Cl!Node \cup {Nil})]
    /\ put \in [Cl!Queue -> Place] /\ get \in [Cl!Queue -> Place]
    /\ taken \in [Cl!Queue -> Seq(Data)] /\ entered \in [Cl!Queue -> Seq(Data)]
    /\ crossed \in [Cl!Queue -> BOOLEAN]

\* a producer has a node in hand, and so does a consumer
InHand ==
    \A q \in Cl!Queue :
         /\ put[q].at \in {"load", "link", "rear"} => put[q].node \in Cl!Node
         /\ put[q].at \in {"link", "rear"} => put[q].prev \in Cl!Node
         /\ get[q].at \in {"unlink", "test", "reset", "free"} => get[q].node \in Cl!Node
         /\ put[q].at \in {"idle", "load", "link", "rear"}
         /\ get[q].at \in {"idle", "unlink", "test", "reset", "free", "handle"}
         /\ put[q].at = "idle" => put[q] = Cl!Idle

\* a node holds the element it was made for
Holds(q) == \A n \in 1..Len(entered[q]) : datum[q][n] = entered[q][n]

\* The elements up to Settled have been the rear, those up to Linked are in the
\* chain, and those up to Unlinked are out of it again.
Settled(q) == Len(entered[q]) - IF put[q].at = "idle" THEN 0 ELSE 1
Linked(q) == Len(entered[q]) - IF put[q].at \in {"idle", "rear"} THEN 0 ELSE 1
Unlinked(q) == Len(taken[q]) - IF get[q].at = "unlink" THEN 1 ELSE 0

\* the consumer has yet to see whether its node is the rear
Taking(q) == get[q].at \in {"unlink", "test", "reset"}

Counted(q) ==
    /\ Len(taken[q]) <= Settled(q)
    /\ taken[q] = SubSeq(entered[q], 1, Len(taken[q]))
    /\ put[q].at # "idle" => put[q].node = Len(entered[q])
    /\ put[q].at \in {"link", "rear"} =>
         put[q].prev = rear[q] /\ (Taking(q) => Len(taken[q]) < Settled(q))
    /\ Taking(q) \/ get[q].at = "free" => get[q].node = Len(taken[q]) /\ Len(taken[q]) > 0
    /\ get[q].at = "reset" => Len(taken[q]) = Settled(q)

\* the rear is the last settled element, until it is seen to be the one taken
RearRight(q) ==
    rear[q] = IF Len(taken[q]) = Settled(q) /\ ~Taking(q) THEN Cl!Dummy ELSE Settled(q)

\* the chain from the front on holds what was linked and not unlinked
ChainRight(q) ==
    /\ next[q][Cl!Dummy] = IF Unlinked(q) < Linked(q) THEN Unlinked(q) + 1 ELSE Nil
    /\ \A n \in Cl!Node : n > Unlinked(q) =>
         next[q][n] = IF n < Linked(q) THEN n + 1 ELSE Nil

\* only what was taken is freed, when the consumer is done with it
GoneRight(q) ==
    /\ gone[q] \subseteq 1..Len(taken[q])
    /\ Taking(q) \/ get[q].at = "free" => Len(taken[q]) \notin gone[q]

Good(q) == Counted(q) /\ RearRight(q) /\ ChainRight(q) /\ GoneRight(q)

QueuesRight ==
    /\ QueueType /\ InHand
    /\ \A q \in Cl!Queue : Holds(q) /\ (~crossed[q] => Good(q))

\* there are nodes enough
Enough ==
    /\ last \in Data /\ desnum \in 0..1 /\ typed \in Nat /\ arrived \in Nat
    /\ Len(entered["send"]) <= typed /\ Len(entered["recv"]) <= arrived
    /\ typed + arrived <= MaxPut

ClientInv == QueuesRight /\ Enough

-----------------------------------------------------------------------------
\* What a step does to one queue leaves the other one as it was.
Untouched(q) ==
    /\ next'[q] = next[q] /\ rear'[q] = rear[q] /\ datum'[q] = datum[q]
    /\ gone'[q] = gone[q] /\ put'[q] = put[q] /\ get'[q] = get[q]
    /\ taken'[q] = taken[q] /\ entered'[q] = entered[q] /\ crossed'[q] = crossed[q]

LEMMA UntouchedKeeps ==
    ASSUME NEW q \in Cl!Queue, Untouched(q)
    PROVE  Holds(q)' = Holds(q) /\ Good(q)' = Good(q)
<1> USE DEF Untouched
<1>1. Holds(q)' = Holds(q)
  BY DEF Holds
<1>2. /\ Settled(q)' = Settled(q) /\ Linked(q)' = Linked(q)
      /\ Unlinked(q)' = Unlinked(q) /\ Taking(q)' = Taking(q)
  BY DEF Settled, Linked, Unlinked, Taking
<1>3. Counted(q)' = Counted(q) /\ RearRight(q)' = RearRight(q)
  BY <1>2 DEF Counted, RearRight
<1>4. ChainRight(q)' = ChainRight(q) /\ GoneRight(q)' = GoneRight(q)
  BY <1>2 DEF ChainRight, GoneRight
<1> QED
  BY <1>1, <1>3, <1>4 DEF Good

LEMMA Gathered ==
    ASSUME QueuesRight, QueueType', InHand', NEW q \in Cl!Queue, Holds(q)',
           ~crossed'[q] => Good(q)', \A p \in Cl!Queue \ {q} : Untouched(p)
    PROVE  QueuesRight'
<1>1. ASSUME NEW p \in Cl!Queue, p # q PROVE Holds(p)' /\ (~crossed'[p] => Good(p)')
  <2>1. Untouched(p) /\ crossed'[p] = crossed[p]
    BY <1>1 DEF Untouched
  <2>2. Holds(p) /\ (~crossed[p] => Good(p))
    BY DEF QueuesRight
  <2> QED
    BY <2>1, <2>2, UntouchedKeeps
<1>2. \A p \in Cl!Queue : Holds(p)' /\ (~crossed'[p] => Good(p)')
  BY <1>1
<1> QED
  BY <1>2 DEF QueuesRight

\* The numbers are numbers.
LEMMA Numbers ==
    ASSUME QueuesRight, NEW q \in Cl!Queue
    PROVE  /\ Len(entered[q]) \in Nat /\ Len(taken[q]) \in Nat
           /\ Settled(q) \in Int /\ Linked(q) \in Int /\ Unlinked(q) \in Int
           /\ Settled(q) <= Linked(q) /\ Linked(q) <= Len(entered[q])
           /\ crossed[q] \in BOOLEAN
           /\ put[q].at \in {"idle", "load", "link", "rear"}
           /\ get[q].at \in {"idle", "unlink", "test", "reset", "free", "handle"}
BY DEF QueuesRight, QueueType, InHand, Settled, Linked, Unlinked

LEMMA LoadRearKeeps ==
    ASSUME QueuesRight, NEW q \in Cl!Queue, Cl!LoadRear(q)
    PROVE  QueuesRight'
<1>1. /\ put[q].at = "load"
      /\ put' = [put EXCEPT ![q].at = "link", ![q].prev = rear[q]]
      /\ crossed' = [crossed EXCEPT ![q] = @ \/ (get[q] # Cl!Idle /\ get[q].node = rear[q])]
      /\ UNCHANGED <<next, rear, datum, gone, get, taken, entered>>
  BY DEF Cl!LoadRear
<1>2. QueueType /\ InHand /\ Holds(q) /\ (~crossed[q] => Good(q))
  BY DEF QueuesRight
<1>3. put[q] \in Place /\ rear[q] \in Cl!Node /\ put[q].node \in Cl!Node
  BY <1>1, <1>2 DEF QueueType, InHand
<1>4. /\ put'[q] = [at |-> "link", node |-> put[q].node, prev |-> rear[q]]
      /\ \A p \in Cl!Queue \ {q} : put'[p] = put[p]
  BY <1>1, <1>2, <1>3 DEF QueueType, Place
<1>5. crossed' \in [Cl!Queue -> BOOLEAN]
  BY <1>1, <1>2 DEF QueueType
<1>6. /\ crossed'[q] = (crossed[q] \/ (get[q] # Cl!Idle /\ get[q].node = rear[q]))
      /\ \A p \in Cl!Queue \ {q} : crossed'[p] = crossed[p]
  BY <1>1, <1>2 DEF QueueType
<1>7. QueueType'
  <2>1. put' \in [Cl!Queue -> Place]
    <3>1. put'[q] \in Place
      BY <1>3, <1>4 DEF Place
    <3> QED
      BY <3>1, <1>1, <1>2 DEF QueueType
  <2> QED
    BY <2>1, <1>1, <1>2, <1>5 DEF QueueType
<1>12. put'[q].at = "link" /\ put'[q].node = put[q].node /\ put'[q].prev = rear[q]
  BY <1>4
<1>8. InHand'
  BY <1>1, <1>2, <1>3, <1>4, <1>12 DEF InHand
<1>9. Holds(q)'
  BY <1>1, <1>2 DEF Holds
<1>10. \A p \in Cl!Queue \ {q} : Untouched(p)
  BY <1>1, <1>4, <1>6 DEF Untouched
<1>11. ASSUME ~crossed'[q] PROVE Good(q)'
  <2>1. Good(q) /\ ~(get[q] # Cl!Idle /\ get[q].node = rear[q])
    BY <1>2, <1>6, <1>11
  <2>2. /\ Settled(q)' = Settled(q) /\ Linked(q)' = Linked(q)
        /\ Unlinked(q)' = Unlinked(q) /\ Taking(q)' = Taking(q)
    BY <1>1, <1>12 DEF Settled, Linked, Unlinked, Taking
  <2>3. Taking(q) => Len(taken[q]) < Settled(q)
    BY <2>1, Numbers DEF Good, Counted, RearRight, Taking, Cl!Idle
  <2> QED
    BY <2>1, <2>2, <2>3, <1>1, <1>4 DEF Good, Counted, RearRight, ChainRight, GoneRight
<1> QED
  BY <1>2, <1>7, <1>8, <1>9, <1>10, <1>11, Gathered

LEMMA LinkKeeps ==
    ASSUME QueuesRight, NEW q \in Cl!Queue, Cl!Link(q)
    PROVE  QueuesRight'
<1>1. /\ put[q].at = "link"
      /\ next' = [next EXCEPT ![q][put[q].prev] = put[q].node]
      /\ put' = [put EXCEPT ![q].at = "rear"]
      /\ UNCHANGED <<rear, datum, gone, get, taken, entered, crossed>>
  BY DEF Cl!Link
<1>2. QueueType /\ InHand /\ Holds(q) /\ (~crossed[q] => Good(q))
  BY DEF QueuesRight
<1>3. put[q] \in Place /\ put[q].prev \in Cl!Node /\ put[q].node \in Cl!Node
  BY <1>1, <1>2 DEF QueueType, InHand
<1>4. /\ put'[q] = [at |-> "rear", node |-> put[q].node, prev |-> put[q].prev]
      /\ \A p \in Cl!Queue \ {q} : put'[p] = put[p]
  BY <1>1, <1>2, <1>3 DEF QueueType, Place
<1>5. put'[q].at = "rear" /\ put'[q].node = put[q].node /\ put'[q].prev = put[q].prev
  BY <1>4
<1>6. /\ next'[q] = [next[q] EXCEPT ![put[q].prev] = put[q].node]
      /\ \A p \in Cl!Queue \ {q} : next'[p] = next[p]
  BY <1>1, <1>2 DEF QueueType
<1>7. QueueType'
  <2>1. put' \in [Cl!Queue -> Place]
    <3>1. put'[q] \in Place
      BY <1>3, <1>4 DEF Place
    <3> QED
      BY <3>1, <1>1, <1>2 DEF QueueType
  <2>2. next' \in [Cl!Queue -> [Cl!Node -> Cl!Node \cup {Nil}]]
    BY <1>1, <1>2, <1>3 DEF QueueType
  <2> QED
    BY <2>1, <2>2, <1>1, <1>2 DEF QueueType
<1>8. InHand'
  BY <1>1, <1>2, <1>3, <1>4, <1>5 DEF InHand
<1>9. Holds(q)'
  BY <1>1, <1>2 DEF Holds
<1>10. \A p \in Cl!Queue \ {q} : Untouched(p)
  BY <1>1, <1>4, <1>6 DEF Untouched
<1>11. ASSUME ~crossed'[q] PROVE Good(q)'
  <2> DEFINE e == Len(entered[q])
  <2>1. Good(q)
    BY <1>1, <1>2, <1>11
  <2>2. /\ Settled(q)' = Settled(q) /\ Linked(q)' = e /\ Linked(q) = e - 1
        /\ Unlinked(q)' = Unlinked(q) /\ Taking(q)' = Taking(q) /\ Settled(q) = e - 1
    <3>1. e \in Nat /\ entered' = entered
      BY <1>1, Numbers
    <3>2. Settled(q) = e - 1 /\ Linked(q) = e - 1
      BY <3>1, <1>1 DEF Settled, Linked
    <3>3. Settled(q)' = e - 1 /\ Linked(q)' = e
      BY <3>1, <1>5 DEF Settled, Linked
    <3> QED
      BY <3>2, <3>3, <1>1 DEF Unlinked, Taking
  <2>3. Counted(q)' /\ RearRight(q)' /\ GoneRight(q)'
    BY <2>1, <2>2, <1>1, <1>5 DEF Good, Counted, RearRight, GoneRight
  <2>4. /\ put[q].node = e /\ put[q].prev = rear[q] /\ Len(taken[q]) <= e - 1
        /\ rear[q] = IF Len(taken[q]) = e - 1 /\ ~Taking(q) THEN 0 ELSE e - 1
        /\ Taking(q) => Len(taken[q]) < e - 1
        /\ e \in Nat /\ Len(taken[q]) \in Nat
    BY <2>1, <2>2, <1>1, Numbers DEF Good, Counted, RearRight, Cl!Dummy
  <2>5. next[q] \in [Cl!Node -> Cl!Node \cup {Nil}]
    BY <1>2 DEF QueueType
  <2>6. Unlinked(q) = Len(taken[q]) - (IF get[q].at = "unlink" THEN 1 ELSE 0)
    BY DEF Unlinked
  <2> HIDE DEF e
  <2>7. CASE Len(taken[q]) = e - 1 /\ ~Taking(q)
    <3>1. Unlinked(q) = e - 1 /\ rear[q] = 0
      BY <2>4, <2>6, <2>7 DEF Taking
    <3>2. next'[q][0] = e /\ \A n \in Cl!Node : n > 0 => next'[q][n] = next[q][n]
      BY <3>1, <2>4, <2>5, <1>3, <1>6
    <3>3. \A n \in Cl!Node : n > e - 1 => next'[q][n] = Nil
      BY <3>1, <3>2, <2>1, <2>2, <2>4 DEF Good, ChainRight, Cl!Node
    <3> QED
      BY <3>1, <3>2, <3>3, <2>1, <2>2, <2>3, <2>4 DEF Good, ChainRight, Cl!Dummy, Cl!Node
  <2>8. CASE ~(Len(taken[q]) = e - 1 /\ ~Taking(q))
    <3>1. rear[q] = e - 1 /\ Len(taken[q]) < e - 1 /\ Unlinked(q) < e - 1 /\ e - 1 > 0
      <4>1. Len(taken[q]) < e - 1
        <5>1. Len(taken[q]) # e - 1
          BY <2>4, <2>8
        <5> QED
          BY <5>1, <2>4
      <4>2. Unlinked(q) <= Len(taken[q])
        <5>1. CASE get[q].at = "unlink"
          BY <5>1, <2>4, <2>6
        <5>2. CASE get[q].at # "unlink"
          BY <5>2, <2>4, <2>6
        <5> QED
          BY <5>1, <5>2
      <4>3. Unlinked(q) \in Int
        BY Numbers
      <4> QED
        BY <4>1, <4>2, <4>3, <2>4
    <3>2. next'[q][e - 1] = e /\ \A n \in Cl!Node : n # e - 1 => next'[q][n] = next[q][n]
      BY <3>1, <2>4, <2>5, <1>3, <1>6
    <3>3. next'[q][0] = Unlinked(q) + 1
      <4>1. next[q][0] = IF Unlinked(q) < e - 1 THEN Unlinked(q) + 1 ELSE Nil
        BY <2>1, <2>2 DEF Good, ChainRight, Cl!Dummy
      <4>2. 0 \in Cl!Node /\ 0 # e - 1
        BY <3>1, <2>4, RoomsAssumption DEF Cl!Node
      <4> QED
        BY <4>1, <4>2, <3>1, <3>2
    <3>4. \A n \in Cl!Node : n > Unlinked(q) => next'[q][n] = IF n < e THEN n + 1 ELSE Nil
      BY <3>1, <3>2, <2>1, <2>2, <2>4 DEF Good, ChainRight, Cl!Node
    <3> QED
      <4>1. Unlinked(q) < e
        BY <3>1, <2>4, Numbers
      <4>2. ChainRight(q)'
        BY <3>3, <3>4, <4>1, <2>2 DEF ChainRight, Cl!Dummy
      <4> QED
        BY <4>2, <2>3 DEF Good
  <2> QED
    BY <2>7, <2>8
<1> QED
  BY <1>2, <1>7, <1>8, <1>9, <1>10, <1>11, Gathered

LEMMA SetRearKeeps ==
    ASSUME QueuesRight, NEW q \in Cl!Queue, Cl!SetRear(q)
    PROVE  QueuesRight'
<1>1. /\ put[q].at = "rear"
      /\ rear' = [rear EXCEPT ![q] = put[q].node]
      /\ put' = [put EXCEPT ![q] = Cl!Idle]
      /\ UNCHANGED <<next, datum, gone, get, taken, entered, crossed>>
  BY DEF Cl!SetRear
<1>2. QueueType /\ InHand /\ Holds(q) /\ (~crossed[q] => Good(q))
  BY DEF QueuesRight
<1>3. put[q].node \in Cl!Node
  BY <1>1, <1>2 DEF InHand
<1>4. /\ put'[q] = Cl!Idle /\ put'[q].at = "idle" /\ rear'[q] = put[q].node
      /\ \A p \in Cl!Queue \ {q} : put'[p] = put[p] /\ rear'[p] = rear[p]
  BY <1>1, <1>2 DEF QueueType, Cl!Idle
<1>7. QueueType'
  <2>1. put' \in [Cl!Queue -> Place]
    <3>1. Cl!Idle \in Place
      BY DEF Place, Cl!Idle
    <3> QED
      BY <3>1, <1>1, <1>2 DEF QueueType
  <2> QED
    BY <2>1, <1>1, <1>2, <1>3 DEF QueueType
<1>8. InHand'
  BY <1>1, <1>2, <1>4 DEF InHand
<1>9. Holds(q)'
  BY <1>1, <1>2 DEF Holds
<1>10. \A p \in Cl!Queue \ {q} : Untouched(p)
  BY <1>1, <1>4 DEF Untouched
<1>11. ASSUME ~crossed'[q] PROVE Good(q)'
  <2>1. Good(q)
    BY <1>1, <1>2, <1>11
  <2>2. /\ Settled(q)' = Len(entered[q]) /\ Linked(q)' = Linked(q)
        /\ Settled(q) = Len(entered[q]) - 1
        /\ Unlinked(q)' = Unlinked(q) /\ Taking(q)' = Taking(q)
    <3>1. entered' = entered /\ Len(entered[q]) \in Nat
      BY <1>1, Numbers
    <3>2. Settled(q) = Len(entered[q]) - 1 /\ Linked(q) = Len(entered[q])
      BY <3>1, <1>1 DEF Settled, Linked
    <3>3. Settled(q)' = Len(entered[q]) /\ Linked(q)' = Len(entered[q])
      BY <3>1, <1>4 DEF Settled, Linked
    <3> QED
      BY <3>2, <3>3, <1>1 DEF Unlinked, Taking
  <2>3. get[q].at = "reset" => Taking(q)
    BY DEF Taking
  <2>4. Counted(q)'
    BY <2>1, <2>2, <2>3, <1>1, <1>4, Numbers DEF Good, Counted
  <2>5. RearRight(q)'
    BY <2>1, <2>2, <1>1, <1>4, Numbers DEF Good, Counted, RearRight
  <2> QED
    BY <2>1, <2>2, <2>4, <2>5, <1>1 DEF Good, ChainRight, GoneRight
<1> QED
  BY <1>2, <1>7, <1>8, <1>9, <1>10, <1>11, Gathered

LEMMA FirstKeeps ==
    ASSUME QueuesRight, NEW q \in Cl!Queue, Cl!First(q)
    PROVE  QueuesRight'
<1> DEFINE n == next[q][Cl!Dummy]
           k == Len(taken[q])
<1>1. get[q].at = "idle" /\ rear[q] # Cl!Dummy /\ UNCHANGED <<next, rear, datum, gone, put, entered>>
  BY DEF Cl!First, Cl!EmpQueue
<1>2. QueueType /\ InHand /\ Holds(q) /\ (~crossed[q] => Good(q))
  BY DEF QueuesRight
<1>3. CASE n = Nil
  <2>1. UNCHANGED <<get, taken, crossed>>
    BY <1>3 DEF Cl!First
  <2>2. QueueType' /\ InHand'
    BY <2>1, <1>1, <1>2 DEF QueueType, InHand
  <2>3. \A p \in Cl!Queue : Untouched(p) /\ crossed'[p] = crossed[p]
    BY <2>1, <1>1 DEF Untouched
  <2> QED
    BY <2>2, <2>3, UntouchedKeeps DEF QueuesRight
<1>4. CASE n # Nil
  <2>1. /\ get' = [get EXCEPT ![q] = [at |-> "unlink", node |-> n, prev |-> Nil]]
        /\ taken' = [taken EXCEPT ![q] = Append(@, datum[q][n])]
        /\ crossed' = [crossed EXCEPT ![q] =
                @ \/ (put[q].at \in {"link", "rear"} /\ put[q].prev = n)]
    BY <1>4 DEF Cl!First
  <2>2. n \in Cl!Node /\ datum[q][n] \in Data /\ taken[q] \in Seq(Data)
    <3>1. Cl!Dummy \in Cl!Node
      BY RoomsAssumption DEF Cl!Dummy, Cl!Node
    <3> QED
      BY <3>1, <1>2, <1>4 DEF QueueType
  <2> HIDE DEF n
  <2>3. /\ get'[q] = [at |-> "unlink", node |-> n, prev |-> Nil]
        /\ taken'[q] = Append(taken[q], datum[q][n])
        /\ crossed'[q] = (crossed[q] \/ (put[q].at \in {"link", "rear"} /\ put[q].prev = n))
    BY <2>1, <1>2 DEF QueueType
  <2>4. \A p \in Cl!Queue \ {q} :
            get'[p] = get[p] /\ taken'[p] = taken[p] /\ crossed'[p] = crossed[p]
    BY <2>1, <1>2 DEF QueueType
  <2>5. get'[q].at = "unlink" /\ get'[q].node = n
    BY <2>3
  <2>6. QueueType'
    <3>1. get' \in [Cl!Queue -> Place]
      <4>1. [at |-> "unlink", node |-> n, prev |-> Nil] \in Place
        BY <2>2 DEF Place
      <4> QED
        BY <4>1, <2>1, <1>2 DEF QueueType
    <3>2. taken' \in [Cl!Queue -> Seq(Data)]
      <4>1. Append(taken[q], datum[q][n]) \in Seq(Data)
        BY <2>2
      <4> QED
        BY <4>1, <2>1, <1>2 DEF QueueType
    <3>3. crossed' \in [Cl!Queue -> BOOLEAN]
      BY <2>1, <1>2 DEF QueueType
    <3> QED
      BY <3>1, <3>2, <3>3, <1>1, <1>2 DEF QueueType
  <2>7. InHand'
    BY <2>2, <2>4, <2>5, <1>1, <1>2 DEF InHand
  <2>8. Holds(q)'
    BY <1>1, <1>2 DEF Holds
  <2>9. \A p \in Cl!Queue \ {q} : Untouched(p)
    BY <1>1, <2>4 DEF Untouched
  <2>10. ASSUME ~crossed'[q] PROVE Good(q)'
    <3>1. Good(q) /\ ~(put[q].at \in {"link", "rear"} /\ put[q].prev = n)
      BY <2>3, <2>10, <1>2
    <3>2. k \in Nat /\ k < Settled(q) /\ Settled(q) <= Linked(q) /\ Settled(q) \in Int
          /\ rear[q] = Settled(q) /\ Linked(q) \in Int /\ Linked(q) <= Len(entered[q])
          /\ Len(entered[q]) \in Nat
      BY <3>1, <1>1, Numbers DEF Good, Counted, RearRight, Taking
    <3>3. Unlinked(q) = k
      BY <3>2, <1>1 DEF Unlinked
    <3>4. n = k + 1
      BY <3>1, <3>2, <3>3 DEF Good, ChainRight, n
    <3>5. Len(taken'[q]) = k + 1 /\ datum[q][n] = entered[q][k + 1]
      BY <3>2, <3>4, <2>2, <2>3, <1>2 DEF Holds
    <3>6. /\ Settled(q)' = Settled(q) /\ Linked(q)' = Linked(q) /\ Unlinked(q)' = Unlinked(q)
          /\ Taking(q)'
      <4>1. Unlinked(q)' = k
        BY <3>5, <3>2, <2>5 DEF Unlinked
      <4> QED
        BY <4>1, <3>3, <1>1, <2>5 DEF Settled, Linked, Taking
    <3>7. taken'[q] = SubSeq(entered[q], 1, k + 1)
      <4>1. taken[q] = SubSeq(entered[q], 1, k) /\ entered[q] \in Seq(Data)
        BY <3>1, <1>2 DEF Good, Counted, QueueType
      <4> QED
        BY <4>1, <3>2, <3>5, <2>2, <2>3
    <3> HIDE DEF k
    <3>8. Counted(q)'
      <4>1. put[q].at \in {"link", "rear"} => put[q].prev = rear[q] /\ k + 1 < Settled(q)
        BY <3>1, <3>2, <3>4 DEF Good, Counted
      <4>2. /\ k + 1 <= Settled(q) /\ k + 1 > 0
            /\ put[q].at # "idle" => put[q].node = Len(entered[q])
        BY <3>1, <3>2 DEF Good, Counted
      <4> QED
        BY <4>1, <4>2, <3>4, <3>5, <3>6, <3>7, <2>5, <1>1 DEF Counted
    <3>9. RearRight(q)' /\ ChainRight(q)'
      BY <3>1, <3>2, <3>6, <1>1 DEF Good, RearRight, ChainRight
    <3>10. GoneRight(q)'
      <4>1. gone[q] \subseteq 1..k
        BY <3>1 DEF Good, GoneRight, k
      <4> QED
        BY <4>1, <3>2, <3>5, <1>1 DEF GoneRight
    <3> QED
      BY <3>8, <3>9, <3>10 DEF Good
  <2> QED
    BY <1>2, <2>6, <2>7, <2>8, <2>9, <2>10, Gathered
<1> QED
  BY <1>3, <1>4

LEMMA UnlinkKeeps ==
    ASSUME QueuesRight, NEW q \in Cl!Queue, Cl!Unlink(q)
    PROVE  QueuesRight'
<1> DEFINE k == Len(taken[q])
<1>1. /\ get[q].at = "unlink"
      /\ next' = [next EXCEPT ![q][Cl!Dummy] = next[q][get[q].node]]
      /\ get' = [get EXCEPT ![q].at = "test"]
      /\ UNCHANGED <<rear, datum, gone, put, taken, entered, crossed>>
  BY DEF Cl!Unlink
<1>2. QueueType /\ InHand /\ Holds(q) /\ (~crossed[q] => Good(q))
  BY DEF QueuesRight
<1>3. get[q] \in Place /\ get[q].node \in Cl!Node /\ next[q] \in [Cl!Node -> Cl!Node \cup {Nil}]
  BY <1>1, <1>2 DEF QueueType, InHand
<1>4. /\ get'[q] = [at |-> "test", node |-> get[q].node, prev |-> get[q].prev]
      /\ \A p \in Cl!Queue \ {q} : get'[p] = get[p]
  BY <1>1, <1>2, <1>3 DEF QueueType, Place
<1>5. get'[q].at = "test" /\ get'[q].node = get[q].node
  BY <1>4
<1>6. /\ next'[q] = [next[q] EXCEPT ![Cl!Dummy] = next[q][get[q].node]]
      /\ \A p \in Cl!Queue \ {q} : next'[p] = next[p]
  BY <1>1, <1>2 DEF QueueType
<1>7. QueueType'
  <2>1. get' \in [Cl!Queue -> Place]
    <3>1. get'[q] \in Place
      BY <1>3, <1>4 DEF Place
    <3> QED
      BY <3>1, <1>1, <1>2 DEF QueueType
  <2>2. next' \in [Cl!Queue -> [Cl!Node -> Cl!Node \cup {Nil}]]
    BY <1>1, <1>2, <1>3 DEF QueueType
  <2> QED
    BY <2>1, <2>2, <1>1, <1>2 DEF QueueType
<1>8. InHand'
  BY <1>1, <1>2, <1>3, <1>4, <1>5 DEF InHand
<1>9. Holds(q)'
  BY <1>1, <1>2 DEF Holds
<1>10. \A p \in Cl!Queue \ {q} : Untouched(p)
  BY <1>1, <1>4, <1>6 DEF Untouched
<1>11. ASSUME ~crossed'[q] PROVE Good(q)'
  <2>1. Good(q)
    BY <1>1, <1>2, <1>11
  <2>2. get[q].node = k /\ k \in Nat /\ k > 0 /\ k \in Cl!Node /\ Linked(q) \in Int
    BY <2>1, <1>1, <1>3, Numbers DEF Good, Counted, Taking
  <2>3. Unlinked(q) = k - 1 /\ Unlinked(q)' = k
    <3>1. Unlinked(q) = k - 1
      BY <2>2, <1>1 DEF Unlinked
    <3>2. Unlinked(q)' = k
      <4>1. taken'[q] = taken[q] /\ get'[q].at # "unlink"
        BY <1>1, <1>5
      <4> QED
        BY <4>1, <2>2 DEF Unlinked
    <3> QED
      BY <3>1, <3>2
  <2>4. /\ Settled(q)' = Settled(q) /\ Linked(q)' = Linked(q) /\ Taking(q)' /\ Taking(q)
    BY <1>1, <1>5 DEF Settled, Linked, Taking
  <2>5. Counted(q)' /\ RearRight(q)' /\ GoneRight(q)'
    BY <2>1, <2>4, <1>1, <1>5 DEF Good, Counted, RearRight, GoneRight
  <2> HIDE DEF k
  <2>6. next[q][k] = IF k < Linked(q) THEN k + 1 ELSE Nil
    BY <2>1, <2>2, <2>3 DEF Good, ChainRight
  <2>7. Cl!Dummy \in Cl!Node /\ Cl!Dummy = 0
    BY RoomsAssumption DEF Cl!Dummy, Cl!Node
  <2>8. next'[q][Cl!Dummy] = next[q][k] /\ \A n \in Cl!Node : n > 0 => next'[q][n] = next[q][n]
    BY <2>2, <2>7, <1>3, <1>6
  <2>9. \A n \in Cl!Node : n > k => next'[q][n] = IF n < Linked(q) THEN n + 1 ELSE Nil
    BY <2>1, <2>2, <2>3, <2>8 DEF Good, ChainRight, Cl!Node
  <2>10. ChainRight(q)'
    BY <2>3, <2>4, <2>6, <2>8, <2>9 DEF ChainRight
  <2> QED
    BY <2>5, <2>10 DEF Good
<1> QED
  BY <1>2, <1>7, <1>8, <1>9, <1>10, <1>11, Gathered

\* The consumer's other steps change its place, and what is freed or the rear.
LEMMA IsRearKeeps ==
    ASSUME QueuesRight, NEW q \in Cl!Queue, Cl!IsRear(q)
    PROVE  QueuesRight'
<1> DEFINE l == IF rear[q] = get[q].node THEN "reset" ELSE "free"
<1>1. /\ get[q].at = "test" /\ get' = [get EXCEPT ![q].at = l]
      /\ UNCHANGED <<next, rear, datum, gone, put, taken, entered, crossed>>
  BY DEF Cl!IsRear
<1>2. QueueType /\ InHand /\ Holds(q) /\ (~crossed[q] => Good(q))
  BY DEF QueuesRight
<1>3. get[q] \in Place /\ get[q].node \in Cl!Node
  BY <1>1, <1>2 DEF QueueType, InHand
<1>4. /\ get'[q] = [at |-> l, node |-> get[q].node, prev |-> get[q].prev]
      /\ \A p \in Cl!Queue \ {q} : get'[p] = get[p]
  BY <1>1, <1>2, <1>3 DEF QueueType, Place
<1>5. get'[q].at = l /\ get'[q].node = get[q].node
  BY <1>4
<1>6. QueueType'
  <2>1. get' \in [Cl!Queue -> Place]
    <3>1. get'[q] \in Place
      BY <1>3, <1>4 DEF Place
    <3> QED
      BY <3>1, <1>1, <1>2 DEF QueueType
  <2> QED
    BY <2>1, <1>1, <1>2 DEF QueueType
<1>7. InHand'
  BY <1>1, <1>2, <1>3, <1>4, <1>5 DEF InHand
<1>8. Holds(q)' /\ \A p \in Cl!Queue \ {q} : Untouched(p)
  BY <1>1, <1>2, <1>4 DEF Holds, Untouched
<1>9. ASSUME ~crossed'[q] PROVE Good(q)'
  <2>1. Good(q)
    BY <1>1, <1>2, <1>9
  <2>2. get[q].node = Len(taken[q]) /\ Len(taken[q]) > 0 /\ rear[q] = Settled(q)
    BY <2>1, <1>1 DEF Good, Counted, RearRight, Taking
  <2>3. /\ Settled(q)' = Settled(q) /\ Linked(q)' = Linked(q) /\ Unlinked(q)' = Unlinked(q)
        /\ Taking(q)
    <3>1. get'[q].at # "unlink"
      BY <1>5
    <3> QED
      BY <3>1, <1>1 DEF Settled, Linked, Unlinked, Taking
  <2> HIDE DEF l
  <2>4. l = IF Len(taken[q]) = Settled(q) THEN "reset" ELSE "free"
    BY <2>2 DEF l
  <2>5. Taking(q)' <=> Len(taken[q]) = Settled(q)
    BY <2>4, <1>5 DEF Taking
  <2>6. Counted(q)' /\ RearRight(q)'
    BY <2>1, <2>2, <2>3, <2>4, <2>5, <1>1, <1>5 DEF Good, Counted, RearRight
  <2>7. ChainRight(q)' /\ GoneRight(q)'
    BY <2>1, <2>3, <1>1 DEF Good, ChainRight, GoneRight
  <2> QED
    BY <2>6, <2>7 DEF Good
<1> QED
  BY <1>2, <1>6, <1>7, <1>8, <1>9, Gathered

LEMMA ResetRearKeeps ==
    ASSUME QueuesRight, NEW q \in Cl!Queue, Cl!ResetRear(q)
    PROVE  QueuesRight'
<1>1. /\ get[q].at = "reset" /\ get' = [get EXCEPT ![q].at = "free"]
      /\ rear' = [rear EXCEPT ![q] = Cl!Dummy]
      /\ UNCHANGED <<next, datum, gone, put, taken, entered, crossed>>
  BY DEF Cl!ResetRear
<1>2. QueueType /\ InHand /\ Holds(q) /\ (~crossed[q] => Good(q))
  BY DEF QueuesRight
<1>3. get[q] \in Place /\ get[q].node \in Cl!Node
  BY <1>1, <1>2 DEF QueueType, InHand
<1>4. /\ get'[q] = [at |-> "free", node |-> get[q].node, prev |-> get[q].prev]
      /\ rear'[q] = Cl!Dummy
      /\ \A p \in Cl!Queue \ {q} : get'[p] = get[p] /\ rear'[p] = rear[p]
  BY <1>1, <1>2, <1>3 DEF QueueType, Place
<1>5. get'[q].at = "free" /\ get'[q].node = get[q].node
  BY <1>4
<1>6. QueueType'
  <2>1. get' \in [Cl!Queue -> Place]
    <3>1. get'[q] \in Place
      BY <1>3, <1>4 DEF Place
    <3> QED
      BY <3>1, <1>1, <1>2 DEF QueueType
  <2>2. rear' \in [Cl!Queue -> Cl!Node]
    BY <1>1, <1>2, RoomsAssumption DEF QueueType, Cl!Dummy, Cl!Node
  <2> QED
    BY <2>1, <2>2, <1>1, <1>2 DEF QueueType
<1>7. InHand'
  BY <1>1, <1>2, <1>3, <1>4, <1>5 DEF InHand
<1>8. Holds(q)' /\ \A p \in Cl!Queue \ {q} : Untouched(p)
  BY <1>1, <1>2, <1>4 DEF Holds, Untouched
<1>9. ASSUME ~crossed'[q] PROVE Good(q)'
  <2>1. Good(q) /\ Taking(q) /\ ~Taking(q)'
    BY <1>1, <1>2, <1>5, <1>9 DEF Taking
  <2>2. Len(taken[q]) = Settled(q) /\ put[q].at \notin {"link", "rear"}
    BY <2>1, <1>1, Numbers DEF Good, Counted
  <2>3. Settled(q)' = Settled(q) /\ Linked(q)' = Linked(q) /\ Unlinked(q)' = Unlinked(q)
    BY <1>1, <1>5 DEF Settled, Linked, Unlinked
  <2>4. Counted(q)' /\ RearRight(q)'
    BY <2>1, <2>2, <2>3, <1>1, <1>4, <1>5 DEF Good, Counted, RearRight
  <2>5. ChainRight(q)' /\ GoneRight(q)'
    BY <2>1, <2>3, <1>1 DEF Good, ChainRight, GoneRight
  <2> QED
    BY <2>4, <2>5 DEF Good
<1> QED
  BY <1>2, <1>6, <1>7, <1>8, <1>9, Gathered

LEMMA FreeKeeps ==
    ASSUME QueuesRight, NEW q \in Cl!Queue, NEW l \in {"idle", "handle"}, Cl!Free(q, l)
    PROVE  QueuesRight'
<1>1. /\ get[q].at = "free" /\ get' = [get EXCEPT ![q] = [Cl!Idle EXCEPT !.at = l]]
      /\ gone' = [gone EXCEPT ![q] = @ \cup {get[q].node}]
      /\ UNCHANGED <<next, rear, datum, put, taken, entered, crossed>>
  BY DEF Cl!Free
<1>2. QueueType /\ InHand /\ Holds(q) /\ (~crossed[q] => Good(q))
  BY DEF QueuesRight
<1>3. get[q].node \in Cl!Node
  BY <1>1, <1>2 DEF InHand
<1>4. [Cl!Idle EXCEPT !.at = l] \in Place /\ [Cl!Idle EXCEPT !.at = l].at = l
  BY DEF Cl!Idle, Place
<1>5. /\ get'[q].at = l /\ gone'[q] = gone[q] \cup {get[q].node}
      /\ \A p \in Cl!Queue \ {q} : get'[p] = get[p] /\ gone'[p] = gone[p]
  BY <1>1, <1>2, <1>4 DEF QueueType
<1>6. QueueType'
  <2>1. get' \in [Cl!Queue -> Place]
    BY <1>1, <1>2, <1>4 DEF QueueType
  <2>2. gone' \in [Cl!Queue -> SUBSET (Cl!Node \cup {Nil})]
    BY <1>1, <1>2, <1>3 DEF QueueType
  <2> QED
    BY <2>1, <2>2, <1>1, <1>2 DEF QueueType
<1>7. InHand'
  BY <1>1, <1>2, <1>5 DEF InHand
<1>8. Holds(q)' /\ \A p \in Cl!Queue \ {q} : Untouched(p)
  BY <1>1, <1>2, <1>5 DEF Holds, Untouched
<1>9. ASSUME ~crossed'[q] PROVE Good(q)'
  <2>1. Good(q) /\ ~Taking(q) /\ ~Taking(q)'
    BY <1>1, <1>2, <1>5, <1>9 DEF Taking
  <2>2. get[q].node = Len(taken[q]) /\ Len(taken[q]) \in Nat /\ Len(taken[q]) > 0
    BY <2>1, <1>1, Numbers DEF Good, Counted
  <2>3. Settled(q)' = Settled(q) /\ Linked(q)' = Linked(q) /\ Unlinked(q)' = Unlinked(q)
    BY <1>1, <1>5 DEF Settled, Linked, Unlinked
  <2>4. Counted(q)' /\ RearRight(q)' /\ ChainRight(q)'
    BY <2>1, <2>3, <1>1, <1>5 DEF Good, Counted, RearRight, ChainRight
  <2>5. GoneRight(q)'
    BY <2>1, <2>2, <1>1, <1>5 DEF Good, GoneRight
  <2> QED
    BY <2>4, <2>5 DEF Good
<1> QED
  BY <1>2, <1>6, <1>7, <1>8, <1>9, Gathered

\* The receiver's consumer is done with what it took.
LEMMA HandledKeeps ==
    ASSUME QueuesRight, NEW q \in Cl!Queue, get[q].at = "handle",
           get' = [get EXCEPT ![q] = Cl!Idle],
           UNCHANGED <<next, rear, datum, gone, put, taken, entered, crossed>>
    PROVE  QueuesRight'
<1>2. QueueType /\ InHand /\ Holds(q) /\ (~crossed[q] => Good(q))
  BY DEF QueuesRight
<1>4. Cl!Idle \in Place /\ Cl!Idle.at = "idle"
  BY DEF Cl!Idle, Place
<1>5. get'[q].at = "idle" /\ \A p \in Cl!Queue \ {q} : get'[p] = get[p]
  BY <1>2, <1>4 DEF QueueType
<1>6. QueueType'
  BY <1>2, <1>4 DEF QueueType
<1>7. InHand'
  BY <1>2, <1>5 DEF InHand
<1>8. Holds(q)' /\ \A p \in Cl!Queue \ {q} : Untouched(p)
  BY <1>2, <1>5 DEF Holds, Untouched
<1>9. ASSUME ~crossed'[q] PROVE Good(q)'
  <2>1. Good(q) /\ ~Taking(q) /\ ~Taking(q)'
    BY <1>2, <1>5, <1>9 DEF Taking
  <2>3. Settled(q)' = Settled(q) /\ Linked(q)' = Linked(q) /\ Unlinked(q)' = Unlinked(q)
    BY <1>5 DEF Settled, Linked, Unlinked
  <2> QED
    BY <2>1, <2>3, <1>5 DEF Good, Counted, RearRight, ChainRight, GoneRight
<1> QED
  BY <1>2, <1>6, <1>7, <1>8, <1>9, Gathered

LEMMA EnQueueKeeps ==
    ASSUME QueuesRight, NEW q \in Cl!Queue, NEW e \in Data, Cl!EnQueue(q, e),
           Len(entered[q]) < MaxPut
    PROVE  QueuesRight' /\ Len(entered'[q]) = Len(entered[q]) + 1
           /\ \A p \in Cl!Queue \ {q} : entered'[p] = entered[p]
<1> DEFINE n == Len(entered[q]) + 1
           r == [at |-> "load", node |-> n, prev |-> Nil]
<1>1. /\ put[q].at = "idle" /\ put' = [put EXCEPT ![q] = r]
      /\ datum' = [datum EXCEPT ![q][n] = e]
      /\ entered' = [entered EXCEPT ![q] = Append(@, e)]
      /\ UNCHANGED <<next, rear, gone, get, taken, crossed>>
  BY DEF Cl!EnQueue
<1>2. QueueType /\ InHand /\ Holds(q) /\ (~crossed[q] => Good(q))
  BY DEF QueuesRight
<1>3. n \in Cl!Node /\ n \in Nat /\ entered[q] \in Seq(Data) /\ datum[q] \in [Cl!Node -> Data]
  BY <1>2, RoomsAssumption DEF QueueType, Cl!Node
<1>4. r \in Place /\ r.at = "load" /\ r.node = n
  BY <1>3 DEF Place
<1> HIDE DEF r
<1>5. /\ put'[q].at = "load" /\ put'[q].node = n
      /\ datum'[q] = [datum[q] EXCEPT ![n] = e]
      /\ entered'[q] = Append(entered[q], e)
      /\ \A p \in Cl!Queue \ {q} :
            put'[p] = put[p] /\ datum'[p] = datum[p] /\ entered'[p] = entered[p]
  BY <1>1, <1>2, <1>4 DEF QueueType
<1>6. /\ Len(entered'[q]) = n /\ entered'[q][n] = e
      /\ \A i \in 1..n - 1 : entered'[q][i] = entered[q][i]
  BY <1>3, <1>5
<1>7. QueueType'
  <2>1. put' \in [Cl!Queue -> Place] /\ datum' \in [Cl!Queue -> [Cl!Node -> Data]]
    BY <1>1, <1>2, <1>3, <1>4 DEF QueueType
  <2>2. entered' \in [Cl!Queue -> Seq(Data)]
    <3>1. Append(entered[q], e) \in Seq(Data)
      BY <1>3
    <3> QED
      BY <3>1, <1>1, <1>2 DEF QueueType
  <2> QED
    BY <2>1, <2>2, <1>1, <1>2 DEF QueueType
<1>8. InHand'
  BY <1>1, <1>2, <1>3, <1>5 DEF InHand
<1>9. Holds(q)'
  <2>1. \A i \in 1..n - 1 : datum'[q][i] = datum[q][i] /\ datum[q][i] = entered[q][i]
    BY <1>2, <1>3, <1>5 DEF Holds, Cl!Node
  <2>2. datum'[q][n] = e
    BY <1>3, <1>5
  <2> QED
    BY <2>1, <2>2, <1>3, <1>6 DEF Holds
<1>10. \A p \in Cl!Queue \ {q} : Untouched(p)
  BY <1>1, <1>5 DEF Untouched
<1>11. ASSUME ~crossed'[q] PROVE Good(q)'
  <2>1. Good(q)
    BY <1>1, <1>2, <1>11
  <2>2. Settled(q)' = Settled(q) /\ Linked(q)' = Linked(q) /\ Settled(q) = Len(entered[q])
    <3>1. Settled(q) = n - 1 /\ Linked(q) = n - 1
      BY <1>1, <1>3 DEF Settled, Linked
    <3>2. Settled(q)' = n - 1 /\ Linked(q)' = n - 1
      BY <1>5, <1>6, <1>3 DEF Settled, Linked
    <3> QED
      BY <3>1, <3>2, <1>3
  <2>3. Unlinked(q)' = Unlinked(q) /\ Taking(q)' = Taking(q)
    BY <1>1 DEF Unlinked, Taking
  <2>4. taken[q] = SubSeq(entered'[q], 1, Len(taken[q]))
    <3>1. taken[q] = SubSeq(entered[q], 1, Len(taken[q])) /\ Len(taken[q]) <= Len(entered[q])
      BY <2>1, <2>2 DEF Good, Counted
    <3>2. Len(taken[q]) \in Nat
      BY Numbers
    <3> QED
      BY <3>1, <3>2, <1>3, <1>5
  <2>5. Counted(q)'
    BY <2>1, <2>2, <2>3, <2>4, <1>1, <1>5, <1>6 DEF Good, Counted
  <2> QED
    BY <2>1, <2>2, <2>3, <2>5, <1>1 DEF Good, RearRight, ChainRight, GoneRight
<1>12. QueuesRight'
  BY <1>2, <1>7, <1>8, <1>9, <1>10, <1>11, Gathered
<1> QED
  BY <1>5, <1>6, <1>12

-----------------------------------------------------------------------------
LEMMA ClientInitially == Cl!Init => ClientInv
<1> SUFFICES ASSUME Cl!Init PROVE ClientInv
  OBVIOUS
<1> USE DEF Cl!Init
<1>1. Cl!Idle \in Place /\ Cl!Dummy \in Cl!Node /\ Nil \in Data /\ Cl!Idle.at = "idle"
  BY RoomsAssumption DEF Cl!Idle, Place, Cl!Dummy, Cl!Node, Data
<1>2. QueueType
  <2>1. taken \in [Cl!Queue -> Seq(Data)] /\ entered \in [Cl!Queue -> Seq(Data)]
    OBVIOUS
  <2>2. crossed \in [Cl!Queue -> BOOLEAN]
    OBVIOUS
  <2>3. /\ next \in [Cl!Queue -> [Cl!Node -> Cl!Node \cup {Nil}]]
        /\ datum \in [Cl!Queue -> [Cl!Node -> Data]]
    BY <1>1
  <2> QED
    BY <2>1, <2>2, <2>3, <1>1 DEF QueueType
<1>3. InHand
  BY <1>1 DEF InHand
<1>4. ASSUME NEW q \in Cl!Queue PROVE Holds(q) /\ Good(q)
  <2>1. /\ taken[q] = << >> /\ entered[q] = << >> /\ put[q].at = "idle" /\ get[q].at = "idle"
        /\ rear[q] = 0 /\ gone[q] = {} /\ \A n \in Cl!Node : next[q][n] = Nil
    BY <1>1 DEF Cl!Dummy
  <2>2. Settled(q) = 0 /\ Linked(q) = 0 /\ Unlinked(q) = 0 /\ ~Taking(q)
    BY <2>1 DEF Settled, Linked, Unlinked, Taking
  <2>3. Holds(q) /\ GoneRight(q) /\ RearRight(q)
    BY <2>1, <2>2 DEF Holds, GoneRight, RearRight, Cl!Dummy
  <2>4. Counted(q)
    BY <2>1, <2>2 DEF Counted
  <2>5. ChainRight(q)
    BY <2>1, <2>2, <1>1 DEF ChainRight, Cl!Node
  <2> QED
    BY <2>3, <2>4, <2>5 DEF Good
<1>5. Enough
  BY <1>1, RoomsAssumption DEF Enough, Cl!Queue
<1> QED
  BY <1>2, <1>3, <1>4, <1>5 DEF ClientInv, QueuesRight

LEMMA QueuesStutter ==
    ASSUME QueuesRight, UNCHANGED Cl!queues
    PROVE  QueuesRight'
<1>1. \A q \in Cl!Queue : Untouched(q)
  BY DEF Untouched, Cl!queues
<1>2. QueueType' /\ InHand'
  BY DEF QueuesRight, QueueType, InHand, Cl!queues
<1>3. \A q \in Cl!Queue : crossed'[q] = crossed[q]
  BY DEF Cl!queues
<1> QED
  BY <1>1, <1>2, <1>3, UntouchedKeeps DEF QueuesRight

\* A step that puts nothing in.
LEMMA EnoughStays ==
    ASSUME Enough, UNCHANGED <<entered, last, desnum, typed, arrived>>
    PROVE  Enough'
BY DEF Enough

LEMMA ReceivingKeeps ==
    ASSUME ClientInv, Cl!recv_thread
    PROVE  ClientInv'
<1>1. QueuesRight /\ Enough /\ typed + arrived < MaxPut /\ arrived' = arrived + 1
  BY DEF ClientInv, Cl!recv_thread
<1>2. UNCHANGED <<typed, desnum>>
  BY DEF Cl!recv_thread, Cl!user
<1>3. "recv" \in Cl!Queue /\ "send" \in Cl!Queue \ {"recv"}
  BY DEF Cl!Queue
<1>4. Len(entered["recv"]) < MaxPut
  BY <1>1, <1>3, Numbers, RoomsAssumption DEF Enough
<1>5. ASSUME last' \in Data, Cl!EnQueue("recv", last') PROVE ClientInv'
  <2>1. /\ QueuesRight' /\ Len(entered'["recv"]) = Len(entered["recv"]) + 1
        /\ entered'["send"] = entered["send"]
    BY <1>1, <1>3, <1>4, <1>5, EnQueueKeeps
  <2>2. Enough'
    BY <2>1, <1>1, <1>2, <1>3, <1>5, Numbers, RoomsAssumption DEF Enough
  <2> QED
    BY <2>1, <2>2 DEF ClientInv
<1>6. CASE last' \in [type : {0, 2}, id : {arrived + 1}] /\ Cl!EnQueue("recv", last')
  <2>1. last' \in Data
    BY <1>1, <1>6 DEF Data, Enough
  <2> QED
    BY <2>1, <1>5, <1>6
<1>7. CASE last' = last /\ Cl!EnQueue("recv", last)
  BY <1>1, <1>5, <1>7 DEF Enough
<1>8. CASE last' = last /\ UNCHANGED Cl!queues
  <2>1. QueuesRight'
    BY <1>1, <1>8, QueuesStutter
  <2>2. Enough'
    BY <1>1, <1>2, <1>8, RoomsAssumption, Numbers, <1>3 DEF Enough, Cl!queues
  <2> QED
    BY <2>1, <2>2 DEF ClientInv
<1> QED
  BY <1>6, <1>7, <1>8 DEF Cl!recv_thread

LEMMA TypingKeeps ==
    ASSUME ClientInv, Cl!Type
    PROVE  ClientInv'
<1>1. QueuesRight /\ Enough /\ UNCHANGED <<desnum, last, arrived>>
  BY DEF ClientInv, Cl!Type, Cl!server
<1>2. CASE UNCHANGED <<typed, Cl!queues>>
  BY <1>1, <1>2, QueuesStutter, EnoughStays DEF ClientInv, Cl!queues
<1>3. CASE /\ typed + arrived < MaxPut /\ typed' = typed + 1
           /\ Cl!EnQueue("send", [type |-> 0, id |-> typed + 1, des |-> desnum])
  <2>1. [type |-> 0, id |-> typed + 1, des |-> desnum] \in Data
    BY <1>1 DEF Data, Enough
  <2>2. "send" \in Cl!Queue /\ "recv" \in Cl!Queue \ {"send"}
    BY DEF Cl!Queue
  <2>3. Len(entered["send"]) < MaxPut
    BY <1>1, <1>3, <2>2, Numbers, RoomsAssumption DEF Enough
  <2>4. /\ QueuesRight' /\ Len(entered'["send"]) = Len(entered["send"]) + 1
        /\ entered'["recv"] = entered["recv"]
    BY <2>1, <2>2, <2>3, <1>1, <1>3, EnQueueKeeps
  <2>5. Enough'
    BY <2>4, <1>1, <1>3, <2>2, Numbers, RoomsAssumption DEF Enough
  <2> QED
    BY <2>4, <2>5 DEF ClientInv
<1> QED
  BY <1>2, <1>3 DEF Cl!Type

LEMMA ClientStep ==
    ASSUME ClientInv, [Cl!Next]_(Cl!vars)
    PROVE  ClientInv'
<1>1. QueuesRight /\ Enough
  BY DEF ClientInv
<1> USE DEF Cl!user, Cl!server
<1>2. ASSUME NEW q \in Cl!Queue,
             Cl!LoadRear(q) \/ Cl!Link(q) \/ Cl!SetRear(q) \/ Cl!First(q)
             \/ Cl!Unlink(q) \/ Cl!IsRear(q) \/ Cl!ResetRear(q)
      PROVE  ClientInv'
  <2>1. QueuesRight'
    BY <1>1, <1>2, LoadRearKeeps, LinkKeeps, SetRearKeeps, FirstKeeps, UnlinkKeeps,
       IsRearKeeps, ResetRearKeeps
  <2>2. UNCHANGED <<entered, last, desnum, typed, arrived>>
    BY <1>2 DEF Cl!LoadRear, Cl!Link, Cl!SetRear, Cl!First, Cl!Unlink, Cl!IsRear, Cl!ResetRear
  <2> QED
    BY <2>1, <2>2, <1>1, EnoughStays DEF ClientInv
<1>3. CASE Cl!hand_thread
  <2>1. UNCHANGED <<entered, last, desnum, typed, arrived>>
    BY <1>3 DEF Cl!hand_thread, Cl!Free
  <2>2. "recv" \in Cl!Queue
    BY DEF Cl!Queue
  <2>3. CASE Cl!Free("recv", "handle")
    BY <2>1, <2>2, <2>3, <1>1, FreeKeeps, EnoughStays DEF ClientInv
  <2>4. CASE /\ get["recv"].at = "handle" /\ get' = [get EXCEPT !["recv"] = Cl!Idle]
             /\ UNCHANGED <<next, rear, datum, gone, put, taken, entered, crossed>>
    BY <2>1, <2>2, <2>4, <1>1, HandledKeeps, EnoughStays DEF ClientInv
  <2> QED
    BY <2>3, <2>4, <1>3 DEF Cl!hand_thread
<1>4. CASE Cl!recv_thread
  BY <1>4, ReceivingKeeps
<1>5. CASE Cl!send_thread
  <2>1. Cl!Free("send", "idle") /\ UNCHANGED <<entered, last, desnum, typed, arrived>>
    BY <1>5 DEF Cl!send_thread, Cl!Free
  <2>2. "send" \in Cl!Queue
    BY DEF Cl!Queue
  <2> QED
    BY <2>1, <2>2, <1>1, FreeKeeps, EnoughStays DEF ClientInv
<1>6. CASE Cl!Choose
  <2>1. QueuesRight'
    BY <1>1, <1>6, QueuesStutter DEF Cl!Choose
  <2>2. Enough'
    BY <1>1, <1>6 DEF Cl!Choose, Enough, Cl!queues
  <2> QED
    BY <2>1, <2>2 DEF ClientInv
<1>7. CASE Cl!Type
  BY <1>7, TypingKeeps
<1>8. CASE Cl!Login \/ Cl!Prompt \/ Cl!input_set \/ Cl!client_quit \/ UNCHANGED Cl!vars
  <2>1. UNCHANGED <<Cl!queues, last, desnum, typed, arrived>>
    BY <1>8 DEF Cl!Login, Cl!Prompt, Cl!input_set, Cl!client_quit, Cl!vars
  <2> QED
    BY <2>1, <1>1, QueuesStutter, EnoughStays DEF ClientInv, Cl!queues
<1> QED
  BY <1>2, <1>3, <1>4, <1>5, <1>6, <1>7, <1>8 DEF Cl!Next

LEMMA ClientSuffices ==
    ASSUME ClientInv
    PROVE  Cl!InOrder
<1> SUFFICES ASSUME NEW q \in Cl!Queue, ~crossed[q]
             PROVE  /\ taken[q] = SubSeq(entered[q], 1, Len(taken[q]))
                    /\ put[q] = Cl!Idle /\ get[q] = Cl!Idle /\ Cl!EmpQueue(q)
                         => taken[q] = entered[q]
                    /\ rear[q] \notin gone[q]
                    /\ get[q] = Cl!Idle /\ ~Cl!EmpQueue(q)
                         => next[q][Cl!Dummy] \notin gone[q] \cup {Nil}
  BY DEF Cl!InOrder
<1>1. QueuesRight /\ QueueType /\ Good(q)
  BY DEF ClientInv, QueuesRight
<1> DEFINE k == Len(taken[q])
<1>2. /\ taken[q] = SubSeq(entered[q], 1, k) /\ k <= Settled(q) /\ gone[q] \subseteq 1..k
      /\ rear[q] = IF k = Settled(q) /\ ~Taking(q) THEN 0 ELSE Settled(q)
      /\ Taking(q) => k \notin gone[q] /\ k > 0
      /\ next[q][0] = IF Unlinked(q) < Linked(q) THEN Unlinked(q) + 1 ELSE Nil
  BY <1>1 DEF Good, Counted, RearRight, ChainRight, GoneRight, Cl!Dummy
<1>3. /\ k \in Nat /\ Settled(q) \in Int /\ Linked(q) \in Int /\ Unlinked(q) \in Int
      /\ Settled(q) <= Linked(q)
  BY <1>1, Numbers
<1>4. ASSUME put[q] = Cl!Idle, get[q] = Cl!Idle, Cl!EmpQueue(q) PROVE taken[q] = entered[q]
  <2>1. put[q].at = "idle" /\ ~Taking(q) /\ rear[q] = 0
    BY <1>4 DEF Cl!Idle, Taking, Cl!EmpQueue, Cl!Dummy
  <2>2. k = Settled(q) /\ Settled(q) = Len(entered[q]) /\ entered[q] \in Seq(Data)
    BY <2>1, <1>1, <1>2, <1>3 DEF Settled, QueueType
  <2> QED
    BY <2>2, <1>2
<1>5. rear[q] \notin gone[q]
  BY <1>2, <1>3
<1>6. ASSUME get[q] = Cl!Idle, ~Cl!EmpQueue(q) PROVE next[q][0] \notin gone[q] \cup {Nil}
  <2>1. get[q].at = "idle" /\ ~Taking(q) /\ rear[q] # 0
    BY <1>6 DEF Cl!Idle, Taking, Cl!EmpQueue, Cl!Dummy
  <2>2. k < Settled(q) /\ Unlinked(q) = k
    BY <2>1, <1>2, <1>3 DEF Unlinked
  <2>3. next[q][0] = k + 1
    BY <2>2, <1>2, <1>3
  <2> QED
    BY <2>3, <1>2, <1>3, RoomsAssumption
<1> QED
  BY <1>2, <1>4, <1>5, <1>6 DEF Cl!Dummy

\* However many elements are put into the two queues of the client, and however
\* its threads interleave: each queue hands over what it was given, complete
\* and in order, and neither a freed node nor a missing one is read, until a
\* consumer takes the node its producer links to.
THEOREM AlwaysInOrder ==
    Spec => []InOrder
<1> DEFINE I == program = "client" => ClientInv
<1>1. Init => I
  BY ClientInitially DEF Init
<1>2. I /\ [Next]_vars => I'
  <2> SUFFICES ASSUME I, [Next]_vars, program' = "client" PROVE ClientInv'
    OBVIOUS
  <2>1. program = "client" /\ [Cl!Next]_(Cl!vars)
    BY DEF Next, vars, Cl!vars, Cl!user, Cl!server, Cl!queues
  <2> QED
    BY <2>1, ClientStep
<1>3. I => InOrder
  BY ClientSuffices DEF InOrder
<1> QED
  BY <1>1, <1>2, <1>3, PTL DEF Spec

-----------------------------------------------------------------------------
-----------------------------------------------------------------------------
(***************************************************************************)
(* The list of users of the threaded room.  links is the list at some      *)
(* time: what is behind a node is the least set that its links do not      *)
(* leave.                                                                  *)
(***************************************************************************)
LEMMA ServerCardinality == \A S : Server!Cardinality(S) = Cardinality(S)
BY Zenon DEF Server!Cardinality, Cardinality

ListNode == Client \cup {Ulist}
Links == [ListNode -> Client \cup {Nil}]

\* the links go down, so that no node is behind itself
Ranked(links, r) ==
    /\ r \in [Client -> Nat]
    /\ \A x \in Client : links[x] \in Client => r[links[x]] < r[x]

LEMMA BehindFacts ==
    ASSUME NEW links \in Links, NEW n \in ListNode
    PROVE  /\ Server!Behind(links, n) \subseteq Client
           /\ \A x \in Server!Behind(links, n) \cup {n} :
                  links[x] \in Server!Behind(links, n) \cup {Nil}
           /\ \A S \in SUBSET Client :
                  (\A x \in S \cup {n} : links[x] \in S \cup {Nil}) => Server!Behind(links, n) \subseteq S
<1> DEFINE B == Server!Behind(links, n)
           closed(S) == \A x \in S \cup {n} : links[x] \in S \cup {Nil}
<1>1. \A c : c \in B <=> c \in Client /\ \A S \in SUBSET Client : closed(S) => c \in S
  BY DEF Server!Behind
<1> HIDE DEF B
<1>2. B \subseteq Client
  BY <1>1
<1>3. ASSUME NEW x \in B \cup {n}, links[x] # Nil PROVE links[x] \in B
  <2>1. links[x] \in Client
    BY <1>2, <1>3 DEF Links, ListNode
  <2>2. ASSUME NEW S \in SUBSET Client, closed(S) PROVE links[x] \in S
    <3>1. x \in S \cup {n}
      BY <1>1, <2>2
    <3> QED
      BY <3>1, <2>2, <1>3
  <2> QED
    BY <2>1, <2>2, <1>1
<1>4. ASSUME NEW S \in SUBSET Client, closed(S) PROVE B \subseteq S
  BY <1>4, <1>1
<1>5. /\ B \subseteq Client /\ \A x \in B \cup {n} : links[x] \in B \cup {Nil}
      /\ \A S \in SUBSET Client : closed(S) => B \subseteq S
  BY <1>2, <1>3, <1>4
<1> QED
  BY <1>5 DEF B

\* behind a node are the next one and what is behind that
LEMMA BehindNext ==
    ASSUME NEW links \in Links, NEW n \in ListNode, NEW q \in Client, links[n] = q
    PROVE  Server!Behind(links, n) = {q} \cup Server!Behind(links, q)
<1>0. q \in ListNode /\ q # Nil
  BY RoomsAssumption DEF ListNode
<1> DEFINE B == Server!Behind(links, n)
           C == Server!Behind(links, q)
<1>1. /\ B \subseteq Client /\ \A x \in B \cup {n} : links[x] \in B \cup {Nil}
      /\ \A S \in SUBSET Client : (\A x \in S \cup {n} : links[x] \in S \cup {Nil}) => B \subseteq S
  BY BehindFacts
<1>2. /\ C \subseteq Client /\ \A x \in C \cup {q} : links[x] \in C \cup {Nil}
      /\ \A S \in SUBSET Client : (\A x \in S \cup {q} : links[x] \in S \cup {Nil}) => C \subseteq S
  BY <1>0, BehindFacts
<1> HIDE DEF B, C
<1>3. q \in B
  BY <1>0, <1>1
<1>4. C \subseteq B
  <2>1. \A x \in B \cup {q} : links[x] \in B \cup {Nil}
    BY <1>1, <1>3
  <2> QED
    BY <2>1, <1>1, <1>2
<1>5. B \subseteq {q} \cup C
  <2>1. {q} \cup C \in SUBSET Client
    BY <1>2
  <2>2. \A x \in ({q} \cup C) \cup {n} : links[x] \in ({q} \cup C) \cup {Nil}
    BY <1>2
  <2> QED
    BY <2>1, <2>2, <1>1
<1>6. B = {q} \cup C
  BY <1>3, <1>4, <1>5
<1> QED
  BY <1>6 DEF B, C

LEMMA BehindNone ==
    ASSUME NEW links \in Links, NEW n \in ListNode, links[n] = Nil
    PROVE  Server!Behind(links, n) = {}
<1>1. \A x \in {} \cup {n} : links[x] \in {} \cup {Nil}
  OBVIOUS
<1>2. {} \in SUBSET Client
  OBVIOUS
<1> QED
  BY <1>1, <1>2, BehindFacts

\* what is behind a node depends on the links from there only
LEMMA BehindSame ==
    ASSUME NEW links \in Links, NEW others \in Links, NEW n \in ListNode,
           \A x \in Server!Behind(links, n) \cup {n} : others[x] = links[x]
    PROVE  Server!Behind(others, n) = Server!Behind(links, n)
<1> DEFINE B == Server!Behind(links, n)
           C == Server!Behind(others, n)
<1>1. /\ B \subseteq Client /\ \A x \in B \cup {n} : links[x] \in B \cup {Nil}
      /\ \A S \in SUBSET Client : (\A x \in S \cup {n} : links[x] \in S \cup {Nil}) => B \subseteq S
  BY BehindFacts
<1>2. /\ C \subseteq Client /\ \A x \in C \cup {n} : others[x] \in C \cup {Nil}
      /\ \A S \in SUBSET Client : (\A x \in S \cup {n} : others[x] \in S \cup {Nil}) => C \subseteq S
  BY BehindFacts
<1>3. \A x \in B \cup {n} : others[x] = links[x]
  OBVIOUS
<1> HIDE DEF B, C
<1>4. C \subseteq B
  <2>1. \A x \in B \cup {n} : others[x] \in B \cup {Nil}
    BY <1>1, <1>3
  <2> QED
    BY <2>1, <1>1, <1>2
<1>5. B \subseteq C
  <2>1. \A x \in C \cup {n} : links[x] \in C \cup {Nil}
    BY <1>2, <1>3, <1>4
  <2> QED
    BY <2>1, <1>1, <1>2
<1>6. C = B
  BY <1>4, <1>5
<1> QED
  BY <1>6 DEF B, C

\* what is behind a user has a lower rank
LEMMA BehindIsLower ==
    ASSUME NEW links \in Links, NEW n \in Client, NEW r, Ranked(links, r)
    PROVE  \A x \in Server!Behind(links, n) : r[x] < r[n]
<1> DEFINE S == {x \in Client : r[x] < r[n]}
<1>1. S \in SUBSET Client /\ n \in ListNode
  BY DEF ListNode
<1>2. ASSUME NEW x \in S \cup {n}, links[x] # Nil PROVE links[x] \in S
  <2>1. x \in Client /\ links[x] \in Client /\ r[links[x]] < r[x]
    BY <1>1, <1>2 DEF Links, ListNode, Ranked
  <2>2. r[x] \in Nat /\ r[n] \in Nat /\ r[links[x]] \in Nat
    BY <2>1 DEF Ranked
  <2>3. r[x] <= r[n]
    BY <2>2
  <2> QED
    BY <2>1, <2>2, <2>3
<1>3. Server!Behind(links, n) \subseteq S
  BY <1>1, <1>2, BehindFacts
<1> QED
  BY <1>3

\* Two nodes of the list with the same next one are one.
LEMMA OneBefore ==
    ASSUME NEW links \in Links, NEW r, Ranked(links, r),
           NEW x \in Server!Behind(links, Ulist) \cup {Ulist},
           NEW y \in Server!Behind(links, Ulist) \cup {Ulist},
           NEW q \in Client, links[x] = q, links[y] = q
    PROVE  x = y
<1> DEFINE L == Server!Behind(links, Ulist)
           After(n) == Server!Behind(links, n)
<1>0. L \subseteq Client /\ Ulist \in ListNode /\ Client \subseteq ListNode /\ Ulist \notin Client /\ Nil \notin Client
  BY BehindFacts, RoomsAssumption DEF ListNode
<1>1. \A c \in L : c \in ListNode /\ After(c) \subseteq Client
  BY <1>0, BehindFacts
<1>2. \A c \in L \cup {Ulist} : links[c] \in L \cup {Nil}
  BY <1>0, BehindFacts
<1>3. \A c \in L \cup {Ulist} : links[c] \in Client => After(c) = {links[c]} \cup After(links[c])
  BY <1>0, BehindNext
<1>4. \A c \in L : links[c] = Nil => After(c) = {}
  BY <1>0, BehindNone
<1>5. \A c \in L : \A d \in After(c) : links[d] \in After(c) \cup {Nil}
  BY <1>1, BehindFacts
<1>6. ASSUME NEW a \in L, NEW b \in L PROVE a = b \/ a \in After(b) \/ b \in After(a)
  <2> DEFINE T == {d \in L : d = a \/ d \in After(a) \/ a \in After(d)}
  <2>1. T \in SUBSET Client
    BY <1>0
  <2>2. ASSUME NEW d \in T, links[d] # Nil PROVE links[d] \in T
    <3>1. links[d] \in L /\ links[d] \in Client
      BY <2>2, <1>2, <1>0
    <3>2. After(d) = {links[d]} \cup After(links[d])
      BY <3>1, <1>3
    <3>3. CASE d = a
      BY <3>1, <3>2, <3>3
    <3>4. CASE d \in After(a)
      BY <3>1, <3>4, <1>5, <2>2
    <3>5. CASE a \in After(d)
      BY <3>1, <3>2, <3>5
    <3> QED
      BY <3>3, <3>4, <3>5
  <2>3. links[Ulist] \in T \cup {Nil}
    <3>1. CASE links[Ulist] = Nil
      BY <3>1
    <3>2. CASE links[Ulist] # Nil
      <4>1. links[Ulist] \in L /\ links[Ulist] \in Client
        BY <3>2, <1>2, <1>0
      <4>2. L = {links[Ulist]} \cup After(links[Ulist])
        BY <4>1, <1>3
      <4> QED
        BY <4>1, <4>2
    <3> QED
      BY <3>1, <3>2
  <2>4. \A d \in T \cup {Ulist} : links[d] \in T \cup {Nil}
    BY <2>2, <2>3
  <2> HIDE DEF T
  <2>5. L \subseteq T
    BY <2>1, <2>4, <1>0, BehindFacts
  <2> QED
    BY <2>5 DEF T
<1>7. \A a \in L : \A d \in After(a) : r[d] < r[a]
  BY <1>0, BehindIsLower
<1>8. r \in [Client -> Nat] /\ \A a \in L : links[a] \in Client => r[links[a]] < r[a]
  BY <1>0 DEF Ranked
<1>9. \A a \in L \cup {Ulist} : links[a] = q => q \notin After(q) /\ After(a) = {q} \cup After(q)
  <2>1. \A d \in After(q) : r[d] < r[q]
    BY BehindIsLower
  <2>2. r[q] \in Nat
    BY <1>8
  <2>3. q \notin After(q)
    BY <2>1, <2>2
  <2> QED
    BY <2>3, <1>3
<1> HIDE DEF L, After
\* what has q next does not come after another that has
<1>10. ASSUME NEW a \in L \cup {Ulist}, NEW b \in L, links[a] = q, links[b] = q, b \in After(a)
       PROVE  FALSE
  <2>1. b = q \/ b \in After(q)
    BY <1>10, <1>9
  <2>2. q \in L
    BY <1>10, <1>2, <1>0
  <2>3. r[q] < r[b] /\ r[q] \in Nat /\ r[b] \in Nat
    BY <1>10, <1>8, <1>0, <2>2
  <2>4. r[b] <= r[q]
    BY <2>1, <2>2, <1>7, <2>3
  <2> QED
    BY <2>3, <2>4
<1>11. \A b \in L : b \in After(Ulist)
  BY DEF L, After
<1>12. x \in L \cup {Ulist} /\ y \in L \cup {Ulist}
  BY DEF L
<1> QED
  BY <1>6, <1>10, <1>11, <1>12

\* Where a node's next one is taken out of the list, only that one is gone.
LEMMA TakenOut ==
    ASSUME NEW links \in Links, NEW r, Ranked(links, r),
           NEW p \in Server!Behind(links, Ulist) \cup {Ulist}, NEW q \in Client, links[p] = q,
           NEW others, others = [links EXCEPT ![p] = links[q]]
    PROVE  Server!Behind(others, Ulist) = Server!Behind(links, Ulist) \ {q}
<1> DEFINE L == Server!Behind(links, Ulist)
           M == Server!Behind(others, Ulist)
<1>0. /\ Ulist \in ListNode /\ Client \subseteq ListNode /\ Ulist \notin Client /\ Nil \notin Client
      /\ L \subseteq Client /\ p \in ListNode
  BY BehindFacts, RoomsAssumption DEF ListNode
<1>1. others \in Links /\ others[p] = links[q] /\ \A x \in ListNode \ {p} : others[x] = links[x]
  BY <1>0 DEF Links
<1>2. /\ \A x \in L \cup {Ulist} : links[x] \in L \cup {Nil}
      /\ \A S \in SUBSET Client : (\A x \in S \cup {Ulist} : links[x] \in S \cup {Nil}) => L \subseteq S
  BY <1>0, BehindFacts
<1>3. /\ M \subseteq Client /\ \A x \in M \cup {Ulist} : others[x] \in M \cup {Nil}
      /\ \A S \in SUBSET Client : (\A x \in S \cup {Ulist} : others[x] \in S \cup {Nil}) => M \subseteq S
  BY <1>0, <1>1, BehindFacts
<1>4. \A x, y \in L \cup {Ulist} : links[x] = q /\ links[y] = q => x = y
  BY OneBefore
<1>5. p \in L \cup {Ulist} /\ q \in L
  BY <1>2, <1>0
<1> HIDE DEF L, M
<1>6. r \in [Client -> Nat] /\ \A x \in Client : links[x] \in Client => r[links[x]] < r[x]
  BY DEF Ranked
<1>7. links[q] # q
  BY <1>6
<1>8. M \subseteq L \ {q}
  <2>1. L \ {q} \in SUBSET Client
    BY <1>0
  <2>2. ASSUME NEW x \in (L \ {q}) \cup {Ulist}, others[x] # Nil PROVE others[x] \in L \ {q}
    <3>1. CASE x = p
      BY <3>1, <2>2, <1>1, <1>2, <1>5, <1>7
    <3>2. CASE x # p
      <4>1. x \in ListNode \ {p} /\ others[x] = links[x]
        BY <3>2, <1>0, <1>1
      <4>2. links[x] # q
        BY <3>2, <1>4, <1>5
      <4> QED
        BY <4>1, <4>2, <2>2, <1>2
    <3> QED
      BY <3>1, <3>2
  <2> QED
    BY <2>1, <2>2, <1>3
<1>9. p \in M \cup {Ulist}
  <2> SUFFICES ASSUME p # Ulist, p \notin M PROVE FALSE
    OBVIOUS
  <2> DEFINE S == M \cup {x \in Client : r[x] < r[p]}
  <2>1. p \in Client /\ S \in SUBSET Client
    BY <1>0, <1>3, <1>5
  <2>2. ASSUME NEW x \in S \cup {Ulist}, links[x] # Nil PROVE links[x] \in S
    <3>1. CASE x \in M \cup {Ulist}
      <4>1. others[x] = links[x]
        BY <3>1, <1>0, <1>1, <1>3
      <4> QED
        BY <3>1, <4>1, <2>2, <1>3
    <3>2. CASE x \in Client /\ r[x] < r[p]
      <4>1. links[x] \in Client
        BY <3>2, <2>2, <1>0 DEF Links
      <4>2. r[links[x]] < r[x] /\ r[x] \in Nat /\ r[p] \in Nat /\ r[links[x]] \in Nat
        BY <3>2, <4>1, <1>6, <2>1
      <4>3. r[links[x]] < r[p]
        BY <3>2, <4>2
      <4> QED
        BY <4>1, <4>3
    <3> QED
      BY <3>1, <3>2, <2>2
  <2>3. L \subseteq S
    BY <2>1, <2>2, <1>2
  <2>4. r[p] \in Nat
    BY <2>1, <1>6
  <2> QED
    BY <2>3, <2>4, <1>5
<1>10. L \subseteq M \cup {q}
  <2>1. M \cup {q} \in SUBSET Client
    BY <1>3
  <2>2. ASSUME NEW x \in (M \cup {q}) \cup {Ulist}, links[x] # Nil PROVE links[x] \in M \cup {q}
    <3>1. CASE x = q
      BY <3>1, <2>2, <1>1, <1>3, <1>9
    <3>2. CASE x = p
      BY <3>2
    <3>3. CASE x # q /\ x # p
      <4>1. others[x] = links[x]
        BY <3>3, <1>0, <1>1, <1>3
      <4> QED
        BY <3>3, <4>1, <2>2, <1>3
    <3> QED
      BY <3>1, <3>2, <3>3
  <2> QED
    BY <2>1, <2>2, <1>2
<1>11. M = L \ {q}
  BY <1>8, <1>10
<1> QED
  BY <1>11 DEF L, M

\* The head is linked to another user: behind a user is what was there.
LEMMA HeadMoved ==
    ASSUME NEW links \in Links, NEW c \in Client, NEW others \in Links,
           others[Ulist] = c, \A x \in Client : others[x] = links[x]
    PROVE  /\ \A n \in Client : Server!Behind(others, n) = Server!Behind(links, n)
           /\ Server!Behind(others, Ulist) = {c} \cup Server!Behind(links, c)
<1>0. Ulist \in ListNode /\ Client \subseteq ListNode /\ Ulist \notin Client
  BY RoomsAssumption DEF ListNode
<1>1. others \in Links /\ others[Ulist] = c /\ \A x \in Client : others[x] = links[x]
  OBVIOUS
<1>2. ASSUME NEW n \in Client PROVE Server!Behind(others, n) = Server!Behind(links, n)
  <2>1. \A x \in Server!Behind(links, n) \cup {n} : others[x] = links[x]
    BY <1>0, <1>1, BehindFacts
  <2> QED
    BY <2>1, <1>0, <1>1, BehindSame
<1>3. Server!Behind(others, Ulist) = {c} \cup Server!Behind(others, c)
  <2> HIDE DEF Links, ListNode
  <2>1. others \in Links /\ Ulist \in ListNode /\ others[Ulist] = c
    BY <1>0, <1>1
  <2> QED
    BY <2>1, BehindNext
<1>4. Server!Behind(others, c) = Server!Behind(links, c)
  BY <1>2
<1> QED
  BY <1>1, <1>2, <1>3, <1>4

\* What a user whose next one is the first user is followed by is the list.
LEMMA NextIsFirst ==
    ASSUME NEW links \in Links, NEW c \in Client, links[c] = links[Ulist]
    PROVE  Server!Behind(links, c) = Server!Behind(links, Ulist)
<1>0. Ulist \in ListNode /\ c \in ListNode
  BY DEF ListNode
<1>1. CASE links[c] = Nil
  BY <1>0, <1>1, BehindNone
<1>2. CASE links[c] # Nil
  <2>1. links[c] \in Client
    BY <1>0, <1>2 DEF Links
  <2>2. PICK q \in Client : q = links[c]
    BY <2>1
  <2> QED
    BY <1>0, <2>2, BehindNext
<1> QED
  BY <1>1, <1>2

\* There are finitely many users behind a node, and one less behind the next.
LEMMA BehindCount ==
    ASSUME NEW links \in Links, NEW n \in ListNode
    PROVE  Cardinality(Server!Behind(links, n)) \in Nat
<1>1. IsFiniteSet(Server!Behind(links, n))
  BY BehindFacts, FS_Subset, RoomsAssumption
<1> QED
  BY <1>1, FS_CardinalityType

LEMMA NextCount ==
    ASSUME NEW links \in Links, NEW n \in ListNode, NEW q \in Client, links[n] = q,
           NEW r, Ranked(links, r)
    PROVE  /\ q \notin Server!Behind(links, q)
           /\ Cardinality(Server!Behind(links, n)) = Cardinality(Server!Behind(links, q)) + 1
<1>0. q \in ListNode
  BY DEF ListNode
<1>1. q \notin Server!Behind(links, q)
  <2>1. \A x \in Server!Behind(links, q) : r[x] < r[q]
    BY BehindIsLower
  <2>2. r[q] \in Nat
    BY DEF Ranked
  <2> QED
    BY <2>1, <2>2
<1>2. IsFiniteSet(Server!Behind(links, q))
  BY <1>0, BehindFacts, FS_Subset, RoomsAssumption
<1>3. Server!Behind(links, n) = Server!Behind(links, q) \cup {q}
  BY BehindNext
<1>4. Cardinality(Server!Behind(links, q) \cup {q}) = Cardinality(Server!Behind(links, q)) + 1
  BY <1>1, <1>2, FS_AddElement
<1> QED
  BY <1>1, <1>3, <1>4

-----------------------------------------------------------------------------
(***************************************************************************)
(* What holds throughout: types, a list without cycles, newcomers that     *)
(* nothing leads to yet, loops that owe the data to what is behind them, a  *)
(* server that goes wrong only when a client has left, and threads that    *)
(* serve their own client unless one wrote what another had made stale.    *)
(***************************************************************************)
Loops == {"count", "walk", "move"}
Deletes == {"find", "take", "again", "after", "cut", "free"}
ListPlace == {"accept", "login", "check", "link", "head", "spawn", "none", "new", "recv",
              "search", "deliver", "end"} \cup Loops \cup Deletes
Texts == [type : {0}, src : Client, des : {Server!All} \cup Client]
ListWalk == [at : Client \cup {Ulist, Nil}, left : Nat, due : SUBSET Client,
             reached : SUBSET Client, steady : BOOLEAN]
ListReads == [p : Client \cup {Ulist, Nil}, q : Client \cup {Nil}, after : Client \cup {Nil}]

ListType ==
    /\ pc \in [Server!Process -> ListPlace]
    /\ who \in [Client -> {"away", "asking", "in", "gone"}]
    /\ client_fd \in Client \cup {Nil} /\ fd \in [Client -> Client \cup {Nil}]
    /\ next \in Links /\ freed \subseteq Client
    /\ walk \in [Server!Process -> ListWalk] /\ cut \in [Client -> ListReads]
    /\ DOMAIN databuf = Server!Process /\ databuf = [p \in Server!Process |-> databuf[p]]
    /\ inbox \in [Client -> Seq(Texts \cup {Server!Quit})]
    /\ \A c \in Client : who[c] # "gone" => inbox[c] \in Seq(Texts)
    /\ course \in Course /\ alive \in BOOLEAN /\ crossed \in BOOLEAN

\* the links go down, those that userlist_del is about to write too, and a loop
\* that counts has gone down
Lower(r, n, m) == n \in Client /\ m \in Client => r[m] < r[n]
Descends(r, l, c) == l \in {"after", "cut"} => Lower(r, c.p, c.after)
Descended(r, l, w) ==
    l = "count" /\ w.steady => \A d \in w.due \ {w.at} : Lower(r, d, w.at)
Ordered(r) ==
    /\ Ranked(next, r)
    /\ \A t \in Client : Descends(r, pc[t], cut[t])
    /\ \A u \in Server!Process : Descended(r, pc[u], walk[u])

Ranks == \E r : Ordered(r)

\* nothing leads to c, and nobody is at it
Fresh(c) ==
    /\ \A x \in ListNode : next[x] # c
    /\ \A p \in Server!Process : walk[p].at # c
    /\ \A t \in Client : cut[t].p # c /\ cut[t].q # c /\ cut[t].after # c
    /\ c \notin freed /\ pc[c] = "none"

Newcomers ==
    /\ \A c \in Client : who[c] = "away" => Fresh(c)
    /\ pc[Main] # "accept" =>
           client_fd \in Client /\ who[client_fd] # "away" /\ pc[client_fd] = "none"
    /\ pc[Main] \in {"login", "check", "link", "head"} => Fresh(client_fd)
    /\ \A t \in Client : pc[t] # "none" =>
           client_fd \in Client /\ (pc[t] # "new" => fd[t] \in Client)

AllThere == \A c \in Client : who[c] # "gone"

\* While nothing disturbs it a loop that counts has counted a first part of the
\* list, and the rest is behind it; one that sends owes the data to the users
\* behind it, or behind the one it has just sent to, and has as many sends left.
Counting(links, w) ==
    /\ w.at \in ListNode /\ w.reached = {}
    /\ w.at = Ulist => w.left = 0 /\ w.due = {}
    /\ w.steady =>
           /\ Server!Behind(links, Ulist) = w.due \cup Server!Behind(links, w.at)
           /\ w.at \in w.due \cup {Ulist}
           /\ \A x \in ({Ulist} \cup w.due) \ {w.at} : links[x] \in w.due
           /\ w.left = Cardinality(w.due)
Going(links, w) ==
    w.steady => /\ w.at \in ListNode
                /\ w.due \ w.reached = Server!Behind(links, w.at)
                /\ w.reached \subseteq w.due
                /\ w.left = Cardinality(Server!Behind(links, w.at))
Moving(links, w) ==
    /\ w.at \in ListNode /\ w.left > 0
    /\ w.steady => /\ links[w.at] \in Client
                   /\ w.due \ w.reached = Server!Behind(links, links[w.at])
                   /\ w.reached \subseteq w.due
                   /\ w.left = Cardinality(Server!Behind(links, links[w.at])) + 1
Right(links, l, w) ==
    /\ l \notin Loops => w = Server!NoWalk
    /\ l = "count" => Counting(links, w)
    /\ l = "walk" => Going(links, w)
    /\ l = "move" => Moving(links, w)

\* while all are there the users behind a loop suffice for its sends
Fits(links, w) ==
    w.left + Cardinality(Server!Behind(links, w.at)) <= Cardinality(Server!Behind(links, Ulist))
Short(links, w) == w.at \in ListNode /\ w.left <= Cardinality(Server!Behind(links, w.at))
Able(links, l, w) ==
    /\ l = "count" => Fits(links, w)
    /\ l \in {"walk", "move"} => Short(links, w)

Walks ==
    /\ \A u \in Server!Process :
           Right(next, pc[u], walk[u]) /\ (AllThere => Able(next, pc[u], walk[u]))
    /\ \A t \in Client : pc[t] \in Deletes \ {"find", "free"} => cut[t].p \in ListNode

Calm ==
    AllThere =>
        /\ alive /\ freed = {}
        /\ \A t \in Client :
              /\ pc[t] \notin Deletes
              /\ pc[t] \in {"search", "deliver"} => databuf[t] \in Texts
              /\ pc[t] = "deliver" => databuf[t].des \in Client
        /\ pc[Main] = "head" => next[client_fd] = next[Ulist]

Kept ==
    ~crossed =>
        /\ \A t \in Client :
              /\ pc[t] = "new" => client_fd = t
              /\ pc[t] \notin {"none", "new"} => fd[t] = t
              /\ pc[t] \in Deletes \cup {"end"} => who[t] = "gone"
              /\ pc[t] \in Loops /\ databuf[t] = Server!Listing => who[t] = "gone"
              /\ who[t] = "in" /\ pc[t] # "none" => t \in Server!Behind(next, Ulist)
              /\ pc[t] = "free" => cut[t].q = t /\ t \notin Server!Behind(next, Ulist)
        /\ pc[Main] \in Loops \cup {"spawn"} /\ who[client_fd] = "in" =>
               client_fd \in Server!Behind(next, Ulist)
        /\ Server!Behind(next, Ulist) \cap freed = {}

ListInv == ListType /\ Ranks /\ Newcomers /\ Walks /\ Calm /\ Kept

\* the constants, once for all
LEMMA ListConstants ==
    /\ Main \notin Client /\ Ulist \notin Client /\ Nil \notin Client /\ Ulist # Nil
    /\ Server!Process = Client \cup {Main} /\ ListNode = Client \cup {Ulist}
    /\ \A k \in Course : k.comes \subseteq Client
BY RoomsAssumption DEF Server!Process, ListNode

\* the messages differ
LEMMA MessagesDiffer ==
    /\ Server!Quit # Server!Listing
    /\ \A m \in Texts : m # Server!Quit /\ m # Server!Listing
<1>1. Server!Quit.type = 8 /\ Server!Listing.type = 2
  BY DEF Server!Quit, Server!Listing
<1>2. \A m \in Texts : m.type = 0
  BY DEF Texts
<1> QED
  BY <1>1, <1>2

\* A node that no link leads to is behind no node.
LEMMA NotBehind ==
    ASSUME NEW links \in Links, NEW c, \A x \in ListNode : links[x] # c, NEW n \in ListNode
    PROVE  c \notin Server!Behind(links, n)
<1> DEFINE B == Server!Behind(links, n)
<1>1. /\ B \subseteq Client /\ \A x \in B \cup {n} : links[x] \in B \cup {Nil}
      /\ \A S \in SUBSET Client : (\A x \in S \cup {n} : links[x] \in S \cup {Nil}) => B \subseteq S
  BY BehindFacts
<1> HIDE DEF B
<1>2. B \ {c} \in SUBSET Client
  BY <1>1
<1>3. \A x \in (B \ {c}) \cup {n} : links[x] \in (B \ {c}) \cup {Nil}
  BY <1>1 DEF ListNode
<1>4. B \subseteq B \ {c}
  BY <1>1, <1>2, <1>3
<1> QED
  BY <1>4 DEF B

\* A process that is in no loop, and one that has just come to one.
LEMMA LoopRests ==
    ASSUME NEW links \in Links, NEW l, l \notin {"walk", "move"}
    PROVE  Right(links, l, Server!NoWalk) /\ Able(links, l, Server!NoWalk)
<1> USE ListConstants
<1> DEFINE w == Server!NoWalk
<1>1. /\ w.at = Ulist /\ w.left = 0 /\ w.due = {} /\ w.reached = {} /\ w.steady
  BY DEF Server!NoWalk
<1> HIDE DEF w
<1>2. PICK B \in SUBSET Client : B = Server!Behind(links, Ulist)
  BY BehindFacts
<1>3. PICK k \in Nat : k = Cardinality(B)
  BY <1>2, BehindCount
<1>4. Counting(links, w)
  BY <1>1, <1>2, FS_EmptySet DEF Counting
<1>5. Fits(links, w)
  BY <1>1, <1>2, <1>3 DEF Fits
<1>6. Right(links, l, w) /\ Able(links, l, w)
  BY <1>4, <1>5 DEF Right, Able, w
<1> QED
  BY <1>6 DEF w

\* Steps that neither write the list nor go on in a loop.
LEMMA ListRests ==
    ASSUME ListInv, UNCHANGED <<next, walk>>, AllThere' => AllThere,
           \A u \in Server!Process :
               \/ pc'[u] = pc[u]
               \/ pc[u] \notin Loops /\ pc'[u] \notin {"walk", "move"},
           \A t \in Client :
               \/ cut'[t] = cut[t] /\ pc'[t] = pc[t]
               \/ /\ pc'[t] \notin {"after", "cut"}
                  /\ pc'[t] \in {"take", "again"} => cut'[t].p \in ListNode
               \/ cut'[t].p \in ListNode /\ \A r : Ordered(r) => Descends(r, pc'[t], cut'[t])
    PROVE  Ranks' /\ Walks'
<1> USE ListConstants
<1>1. Ranks /\ Walks /\ next \in Links
  BY DEF ListInv, ListType
<1>2. ASSUME NEW u \in Server!Process
      PROVE  /\ Right(next', pc'[u], walk'[u])
             /\ AllThere' => Able(next', pc'[u], walk'[u])
  <2>1. Right(next, pc[u], walk[u]) /\ (AllThere => Able(next, pc[u], walk[u]))
    BY <1>1 DEF Walks
  <2>2. CASE pc'[u] = pc[u]
    BY <2>1, <2>2
  <2>3. CASE pc[u] \notin Loops /\ pc'[u] \notin {"walk", "move"}
    <3>1. walk[u] = Server!NoWalk
      BY <2>1, <2>3 DEF Right
    <3>2. PICK l : l = pc'[u]
      OBVIOUS
    <3>3. Right(next, l, Server!NoWalk) /\ Able(next, l, Server!NoWalk)
      BY <2>3, <3>2, <1>1, LoopRests
    <3> QED
      BY <3>1, <3>2, <3>3
  <2> QED
    BY <2>2, <2>3
<1>3. ASSUME NEW t \in Client, pc'[t] \in Deletes \ {"find", "free"} PROVE cut'[t].p \in ListNode
  BY <1>1, <1>3 DEF Walks, Deletes
<1>4. Walks'
  BY <1>2, <1>3 DEF Walks
<1>5. PICK r : Ordered(r)
  BY <1>1 DEF Ranks
<1>6. ASSUME NEW u \in Server!Process PROVE Descended(r, pc'[u], walk'[u])
  <2>1. Descended(r, pc[u], walk[u]) /\ Right(next, pc[u], walk[u])
    BY <1>1, <1>5 DEF Ordered, Walks
  <2>2. CASE pc'[u] = pc[u]
    BY <2>1, <2>2
  <2>3. CASE pc[u] \notin Loops
    <3>1. walk'[u].due = {}
      BY <2>1, <2>3 DEF Right, Server!NoWalk
    <3> QED
      BY <3>1 DEF Descended
  <2> QED
    BY <2>2, <2>3
<1>7. ASSUME NEW t \in Client PROVE Descends(r, pc'[t], cut'[t])
  BY <1>5 DEF Ordered, Descends
<1>8. Ordered(r)'
  BY <1>5, <1>6, <1>7 DEF Ordered
<1> QED
  BY <1>4, <1>8 DEF Ranks

\* The server has listed none when it starts.
LEMMA ListInitially ==
    ASSUME Server!Init
    PROVE  ListInv
<1> USE ListConstants
<1>1. ListType
  <2>1. \A c \in Client : inbox[c] = << >>
    BY DEF Server!Init
  <2>2. << >> \in Seq(Texts) /\ << >> \in Seq(Texts \cup {Server!Quit})
    OBVIOUS
  <2>3. Server!NoWalk \in ListWalk
    BY DEF Server!NoWalk, ListWalk
  <2>4. walk \in [Server!Process -> ListWalk]
    BY <2>3 DEF Server!Init
  <2>5. pc \in [Server!Process -> ListPlace]
    BY DEF Server!Init, ListPlace
  <2>6. inbox \in [Client -> Seq(Texts \cup {Server!Quit})]
    BY <2>2 DEF Server!Init
  <2>7. DOMAIN databuf = Server!Process /\ databuf = [p \in Server!Process |-> databuf[p]]
    BY DEF Server!Init
  <2>10. cut \in [Client -> ListReads]
    BY DEF Server!Init, Server!NoCut, ListReads
  <2>8. next \in Links /\ freed \subseteq Client /\ fd \in [Client -> Client \cup {Nil}]
    BY DEF Server!Init, Links
  <2>9. /\ who \in [Client -> {"away", "asking", "in", "gone"}] /\ client_fd \in Client \cup {Nil}
        /\ course \in Course /\ alive \in BOOLEAN /\ crossed \in BOOLEAN
    BY DEF Server!Init
  <2> QED
    BY <2>1, <2>2, <2>4, <2>5, <2>6, <2>7, <2>8, <2>9, <2>10 DEF ListType
<1>2. \A x \in ListNode : next[x] = Nil
  BY DEF Server!Init
<1>3. Ranks
  <2>1. [c \in Client |-> 0] \in [Client -> Nat]
    OBVIOUS
  <2>2. Ranked(next, [c \in Client |-> 0])
    BY <1>2, <2>1 DEF Ranked
  <2>3. \A p \in Server!Process : pc[p] \in {"accept", "none"}
    BY DEF Server!Init
  <2> QED
    BY <2>2, <2>3 DEF Ranks, Ordered, Descends, Descended
<1>4. \A p \in Server!Process : walk[p] = Server!NoWalk /\ pc[p] \in {"accept", "none"}
  BY DEF Server!Init
<1>5. \A c \in Client : pc[c] = "none"
  BY DEF Server!Init
<1>6. pc[Main] = "accept" /\ freed = {} /\ alive
  BY DEF Server!Init
<1>7. Newcomers
  <2>1. \A c \in Client : cut[c].p = Nil /\ cut[c].q = Nil /\ cut[c].after = Nil
    BY DEF Server!Init, Server!NoCut
  <2>2. \A p \in Server!Process : walk[p].at = Ulist
    BY <1>4 DEF Server!NoWalk
  <2> QED
    BY <2>1, <2>2, <1>2, <1>5, <1>6 DEF Newcomers, Fresh
<1>8. Walks
  <2>1. next \in Links
    BY <1>1 DEF ListType
  <2>2. \A l : l \in {"accept", "none"} =>
            Right(next, l, Server!NoWalk) /\ Able(next, l, Server!NoWalk)
    BY <2>1, LoopRests
  <2> QED
    BY <2>2, <1>4, <1>5 DEF Walks, Deletes
<1>9. Calm
  BY <1>4, <1>5, <1>6 DEF Calm, Deletes
<1>10. Kept
  BY <1>4, <1>5, <1>6 DEF Kept, Loops, Deletes
<1> QED
  BY <1>1, <1>3, <1>7, <1>8, <1>9, <1>10 DEF ListInv

-----------------------------------------------------------------------------
(***************************************************************************)
(* Steps of main that leave the list alone.                                *)
(***************************************************************************)
LEMMA ListRecvLogin ==
    ASSUME ListInv, Server!RecvLogin
    PROVE  ListInv'
<1> USE ListConstants
<1>1. /\ pc[Main] = "login" /\ pc' = [pc EXCEPT ![Main] = "check"]
      /\ UNCHANGED <<who, inbox, course, client_fd, fd, databuf, next, freed, cut, walk, crossed>>
      /\ alive' \in BOOLEAN /\ (alive' \/ who[client_fd] = "gone")
  BY DEF Server!RecvLogin, Server!Goto, Server!clients, Server!users
<1>2. ListType /\ Ranks /\ Newcomers /\ Walks /\ Calm /\ Kept
  BY DEF ListInv
<1>3. /\ pc \in [Server!Process -> ListPlace] /\ pc'[Main] = "check"
      /\ \A t \in Client : pc'[t] = pc[t]
  BY <1>1, <1>2 DEF ListType
<1>4. ListType'
  BY <1>1, <1>2 DEF ListType, ListPlace
<1>5. Ranks' /\ Walks'
  BY <1>1, <1>3, ListRests DEF Loops, Deletes, AllThere
<1>6. Newcomers'
  BY <1>1, <1>2, <1>3 DEF Newcomers, Fresh
<1>8. Calm'
  BY <1>1, <1>2, <1>3 DEF Calm, AllThere, Newcomers
<1>9. Kept'
  BY <1>1, <1>2, <1>3 DEF Kept, Loops, Deletes
<1> QED
  BY <1>4, <1>5, <1>6, <1>8, <1>9 DEF ListInv

LEMMA ListAnswer ==
    ASSUME ListInv, Server!Answer
    PROVE  ListInv'
<1> USE ListConstants
<1>1. /\ pc[Main] = "check"
      /\ \E l \in {"link", "accept"} : pc' = [pc EXCEPT ![Main] = l]
      /\ \E w \in {"in", "gone"} : /\ who' = [who EXCEPT ![client_fd] = w]
                                   /\ w = "in" => who[client_fd] = "asking"
      /\ UNCHANGED <<inbox, course, client_fd, fd, databuf, next, freed, cut, walk, crossed>>
  BY DEF Server!Answer, Server!Goto, Server!users
<1>2. alive' \in BOOLEAN /\ (alive' \/ who[client_fd] = "gone")
  BY DEF Server!Answer, Server!Risks, Server!Closed
<1>3. ListType /\ Ranks /\ Newcomers /\ Walks /\ Calm /\ Kept
  BY DEF ListInv
<1>4. /\ pc \in [Server!Process -> ListPlace] /\ pc'[Main] \in {"link", "accept"}
      /\ \A t \in Client : pc'[t] = pc[t]
  BY <1>1, <1>3 DEF ListType
<1>5. client_fd \in Client
  BY <1>1, <1>3 DEF Newcomers
<1>6. /\ \A c \in Client : who[c] = "gone" => who'[c] = "gone"
      /\ \A c \in Client : who'[c] = "away" => who[c] = "away"
      /\ \A c \in Client : who'[c] = "in" => c = client_fd \/ who[c] = "in"
      /\ who' \in [Client -> {"away", "asking", "in", "gone"}] /\ who'[client_fd] # "away"
  BY <1>1, <1>3, <1>5 DEF ListType
<1>7. AllThere' => AllThere
  BY <1>6 DEF AllThere
<1>8. ListType'
  BY <1>1, <1>2, <1>3, <1>6 DEF ListType, ListPlace
<1>9. Ranks' /\ Walks'
  BY <1>1, <1>4, <1>7, ListRests DEF Loops, Deletes
<1>10. Newcomers'
  BY <1>1, <1>3, <1>4, <1>6 DEF Newcomers, Fresh
<1>12. Calm'
  <2>1. AllThere => who[client_fd] # "gone"
    BY <1>5 DEF AllThere
  <2> QED
    BY <2>1, <1>1, <1>2, <1>3, <1>4, <1>7 DEF Calm
<1>13. Kept'
  <2>1. pc[client_fd] = "none"
    BY <1>1, <1>3 DEF Newcomers
  <2> QED
    BY <2>1, <1>1, <1>3, <1>4, <1>6 DEF Kept, Loops, Deletes
<1> QED
  BY <1>8, <1>9, <1>10, <1>12, <1>13 DEF ListInv

LEMMA ListSpawn ==
    ASSUME ListInv, Server!Spawn
    PROVE  ListInv'
<1> USE ListConstants
<1>1. /\ pc[Main] = "spawn" /\ pc' = [pc EXCEPT ![Main] = "accept", ![client_fd] = "new"]
      /\ UNCHANGED <<who, inbox, course, client_fd, fd, databuf, next, freed, cut, walk, alive, crossed>>
  BY DEF Server!Spawn, Server!clients, Server!login, Server!users
<1>2. ListType /\ Ranks /\ Newcomers /\ Walks /\ Calm /\ Kept
  BY DEF ListInv
<1>3. client_fd \in Client /\ who[client_fd] # "away" /\ pc[client_fd] = "none"
  BY <1>1, <1>2 DEF Newcomers
<1>4. /\ pc' \in [Server!Process -> ListPlace] /\ pc'[Main] = "accept" /\ pc'[client_fd] = "new"
      /\ \A t \in Client \ {client_fd} : pc'[t] = pc[t]
  BY <1>1, <1>2, <1>3 DEF ListType, ListPlace
<1>5. ListType'
  BY <1>1, <1>2, <1>4 DEF ListType
<1>6. Ranks' /\ Walks'
  BY <1>1, <1>3, <1>4, ListRests DEF Loops, Deletes, AllThere
<1>7. Newcomers'
  BY <1>1, <1>2, <1>3, <1>4 DEF Newcomers, Fresh
<1>9. Calm'
  BY <1>1, <1>2, <1>3, <1>4 DEF Calm, AllThere, Deletes
<1>10. Kept'
  BY <1>1, <1>2, <1>3, <1>4 DEF Kept, Loops, Deletes
<1> QED
  BY <1>5, <1>6, <1>7, <1>9, <1>10 DEF ListInv

LEMMA ListAccept ==
    ASSUME ListInv, NEW c \in Client, Server!Accept(c)
    PROVE  ListInv'
<1> USE ListConstants
<1>1. /\ pc[Main] = "accept" /\ pc' = [pc EXCEPT ![Main] = "login"] /\ who[c] = "away"
      /\ who' = [who EXCEPT ![c] = "asking"] /\ client_fd' = c
      /\ UNCHANGED <<inbox, course, fd, databuf, next, freed, cut, walk, alive>>
  BY DEF Server!Accept, Server!Goto, Server!users
<1>2. /\ crossed' \in BOOLEAN
      /\ ~crossed' => ~crossed /\ \A t \in Client : pc[t] # "new"
  BY DEF Server!Accept, ListInv, ListType
<1>3. ListType /\ Ranks /\ Newcomers /\ Walks /\ Calm /\ Kept
  BY DEF ListInv
<1>4. /\ pc' \in [Server!Process -> ListPlace] /\ pc'[Main] = "login"
      /\ \A t \in Client : pc'[t] = pc[t]
  BY <1>1, <1>3 DEF ListType, ListPlace
<1>5. /\ who' \in [Client -> {"away", "asking", "in", "gone"}] /\ who'[c] = "asking"
      /\ \A d \in Client \ {c} : who'[d] = who[d]
  BY <1>1, <1>3 DEF ListType
<1>6. AllThere' => AllThere
  BY <1>1, <1>5 DEF AllThere
<1>7. ListType'
  BY <1>1, <1>2, <1>3, <1>4, <1>5 DEF ListType
<1>8. Ranks' /\ Walks'
  BY <1>1, <1>4, <1>6, ListRests DEF Loops, Deletes
<1>9. Newcomers'
  BY <1>1, <1>3, <1>4, <1>5 DEF Newcomers, Fresh
<1>11. Calm'
  BY <1>1, <1>3, <1>4, <1>6 DEF Calm
<1>12. Kept'
  BY <1>1, <1>2, <1>3, <1>4, <1>5 DEF Kept, Loops, Deletes
<1> QED
  BY <1>7, <1>8, <1>9, <1>11, <1>12 DEF ListInv

-----------------------------------------------------------------------------
(***************************************************************************)
(* Steps of a thread that leave the list alone.                            *)
(***************************************************************************)
LEMMA ListStart ==
    ASSUME ListInv, NEW t \in Client, Server!Start(t)
    PROVE  ListInv'
<1> USE ListConstants
<1>1. /\ pc[t] = "new" /\ pc' = [pc EXCEPT ![t] = "recv"] /\ fd' = [fd EXCEPT ![t] = client_fd]
      /\ UNCHANGED <<who, inbox, course, client_fd, databuf, next, freed, cut, walk, alive, crossed>>
  BY DEF Server!Start, Server!Goto, Server!clients, Server!login, Server!users
<1>2. ListType /\ Ranks /\ Newcomers /\ Walks /\ Calm /\ Kept
  BY DEF ListInv
<1>3. /\ pc' \in [Server!Process -> ListPlace] /\ pc'[t] = "recv" /\ pc'[Main] = pc[Main]
      /\ \A u \in Client \ {t} : pc'[u] = pc[u]
  BY <1>1, <1>2 DEF ListType, ListPlace
<1>4. /\ fd' \in [Client -> Client \cup {Nil}] /\ fd'[t] = client_fd
      /\ \A u \in Client \ {t} : fd'[u] = fd[u]
  BY <1>1, <1>2 DEF ListType
<1>5. ListType'
  BY <1>1, <1>2, <1>3, <1>4 DEF ListType
<1>6. Ranks' /\ Walks'
  BY <1>1, <1>3, ListRests DEF Loops, Deletes, AllThere
<1>7. Newcomers'
  BY <1>1, <1>2, <1>3, <1>4 DEF Newcomers, Fresh
<1>9. Calm'
  BY <1>1, <1>2, <1>3 DEF Calm, AllThere, Deletes
<1>10. Kept'
  BY <1>1, <1>2, <1>3, <1>4 DEF Kept, Loops, Deletes
<1> QED
  BY <1>5, <1>6, <1>7, <1>9, <1>10 DEF ListInv

\* where a thread goes with what it has received
LEMMA Dispatched ==
    ASSUME NEW t, NEW d, Server!Dispatch(t, d)
    PROVE  \E l \in {"recv", "count", "find", "search"} :
               /\ pc' = [pc EXCEPT ![t] = l]
               /\ l = "find" => d = Server!Quit
               /\ l = "search" => d # Server!Quit
<1>1. CASE d = Nil
  BY <1>1 DEF Server!Dispatch, Server!Goto
<1>2. CASE d # Nil /\ d = Server!Quit
  BY <1>2 DEF Server!Dispatch, Server!Goto
<1>3. CASE d # Nil /\ d # Server!Quit /\ d.type = 0 /\ d.des = Server!All
  BY <1>3 DEF Server!Dispatch, Server!Goto
<1>4. CASE d # Nil /\ d # Server!Quit /\ ~(d.type = 0 /\ d.des = Server!All)
  BY <1>4 DEF Server!Dispatch, Server!Goto
<1> QED
  BY <1>1, <1>2, <1>3, <1>4

LEMMA ListRecv ==
    ASSUME ListInv, NEW t \in Client, Server!Recv(t)
    PROVE  ListInv'
<1> USE ListConstants
<1>1. /\ alive /\ pc[t] = "recv"
      /\ UNCHANGED <<who, course, client_fd, fd, next, freed, cut, walk, crossed>>
  BY DEF Server!Recv, Server!login, Server!users
<1>2. ListType /\ Ranks /\ Newcomers /\ Walks /\ Calm /\ Kept
  BY DEF ListInv
<1>3. PICK c \in Client : c = fd[t]
  BY <1>1, <1>2 DEF Newcomers
<1>4. \/ /\ inbox[c] # << >> /\ alive' = TRUE
         /\ databuf' = [databuf EXCEPT ![t] = Head(inbox[c])]
         /\ inbox' = [inbox EXCEPT ![c] = Tail(inbox[c])]
         /\ Server!Dispatch(t, Head(inbox[c]))
      \/ /\ who[c] = "gone" /\ alive' \in BOOLEAN
         /\ Server!Dispatch(t, databuf[t])
         /\ UNCHANGED <<databuf, inbox>>
  BY <1>3 DEF Server!Recv, Server!Closed
<1> DEFINE Came(d) == /\ inbox[c] # << >> /\ d = Head(inbox[c]) /\ alive' = TRUE
                      /\ databuf' = [databuf EXCEPT ![t] = d]
                      /\ inbox' = [inbox EXCEPT ![c] = Tail(inbox[c])]
           Ended == who[c] = "gone" /\ alive' \in BOOLEAN /\ UNCHANGED <<databuf, inbox>>
<1>5. \E d : Server!Dispatch(t, d) /\ (Came(d) \/ Ended)
  BY <1>4
<1>6. PICK d : Server!Dispatch(t, d) /\ (Came(d) \/ Ended)
  BY <1>5
<1>7. PICK l \in {"recv", "count", "find", "search"} :
         /\ pc' = [pc EXCEPT ![t] = l]
         /\ l = "find" => d = Server!Quit
         /\ l = "search" => d # Server!Quit
  <2> HIDE DEF Came, Ended
  <2>1. Server!Dispatch(t, d)
    BY <1>6
  <2> QED
    BY <2>1, Dispatched, Zenon
<1>8. /\ pc' \in [Server!Process -> ListPlace] /\ pc'[t] = l /\ pc'[Main] = pc[Main]
      /\ \A u \in Client \ {t} : pc'[u] = pc[u]
  BY <1>2, <1>7 DEF ListType, ListPlace, Loops, Deletes
<1>9. alive' \in BOOLEAN
  BY <1>6
<1>10. /\ DOMAIN databuf' = Server!Process /\ databuf' = [p \in Server!Process |-> databuf'[p]]
       /\ \A u \in Client \ {t} : databuf'[u] = databuf[u]
       /\ \/ who[c] = "gone"
          \/ inbox[c] # << >> /\ d = Head(inbox[c]) /\ databuf'[t] = d /\ alive'
  <2>1. DOMAIN databuf = Server!Process /\ databuf = [p \in Server!Process |-> databuf[p]]
    BY <1>2 DEF ListType
  <2>2. CASE /\ inbox[c] # << >> /\ d = Head(inbox[c]) /\ alive' = TRUE
             /\ databuf' = [databuf EXCEPT ![t] = d]
    <3>1. databuf' = [p \in Server!Process |-> IF p = t THEN d ELSE databuf[p]]
      BY <2>1, <2>2
    <3> QED
      BY <2>2, <3>1
  <2>3. CASE who[c] = "gone" /\ UNCHANGED databuf
    BY <2>1, <2>3
  <2> QED
    BY <1>6, <2>2, <2>3
<1>11. /\ inbox' \in [Client -> Seq(Texts \cup {Server!Quit})]
       /\ \A u \in Client : who[u] # "gone" => inbox'[u] \in Seq(Texts)
  <2>1. CASE UNCHANGED inbox
    BY <2>1, <1>2 DEF ListType
  <2>2. CASE inbox[c] # << >> /\ inbox' = [inbox EXCEPT ![c] = Tail(inbox[c])]
    <3>1. /\ inbox \in [Client -> Seq(Texts \cup {Server!Quit})]
          /\ \A u \in Client : who[u] # "gone" => inbox[u] \in Seq(Texts)
      BY <1>2 DEF ListType
    <3> HIDE DEF Texts
    <3>2. Tail(inbox[c]) \in Seq(Texts \cup {Server!Quit})
      BY <2>2, <3>1
    <3>3. who[c] # "gone" => Tail(inbox[c]) \in Seq(Texts)
      BY <2>2, <3>1
    <3> QED
      BY <2>2, <3>1, <3>2, <3>3
  <2> QED
    BY <1>6, <2>1, <2>2
<1>12. who[c] # "gone" => d \in Texts
  <2>1. who[c] # "gone" => inbox[c] \in Seq(Texts)
    BY <1>2 DEF ListType
  <2> QED
    BY <2>1, <1>10
<1> HIDE DEF Came, Ended
<1>13. ListType'
  BY <1>1, <1>2, <1>8, <1>9, <1>10, <1>11 DEF ListType
<1>14. Ranks' /\ Walks'
  BY <1>1, <1>7, <1>8, ListRests DEF Loops, Deletes, AllThere
<1>15. Newcomers'
  BY <1>1, <1>2, <1>8 DEF Newcomers, Fresh
<1>17. Calm'
  <2>1. AllThere' => AllThere /\ who[c] # "gone"
    BY <1>1 DEF AllThere
  <2>2. AllThere' => l # "find"
    BY <2>1, <1>7, <1>12, MessagesDiffer
  <2> QED
    BY <2>1, <2>2, <1>1, <1>2, <1>7, <1>8, <1>10, <1>12 DEF Calm, Deletes
<1>18. Kept'
  <2>1. ~crossed => c = t
    BY <1>1, <1>2, <1>3 DEF Kept
  <2>2. l = "find" => who[c] = "gone"
    BY <1>7, <1>12, MessagesDiffer
  <2>3. databuf'[t] = Server!Listing => who[c] = "gone"
    BY <1>10, <1>12, MessagesDiffer
  <2> QED
    BY <2>1, <2>2, <2>3, <1>1, <1>2, <1>7, <1>8, <1>10 DEF Kept, Loops, Deletes
<1> QED
  BY <1>13, <1>14, <1>15, <1>17, <1>18 DEF ListInv

LEMMA ListSearch ==
    ASSUME ListInv, NEW t \in Client, Server!Search(t)
    PROVE  ListInv'
<1> USE ListConstants
<1>1. /\ alive /\ pc[t] = "search"
      /\ UNCHANGED <<who, inbox, course, client_fd, fd, databuf, next, freed, cut, walk, crossed>>
  BY DEF Server!Search, Server!clients, Server!login, Server!users
<1>2. ListType /\ Ranks /\ Newcomers /\ Walks /\ Calm /\ Kept
  BY DEF ListInv
<1>3. PICK l \in {"deliver", "recv"} :
         /\ pc' = [pc EXCEPT ![t] = l]
         /\ l = "deliver" => databuf[t].des \in Server!Behind(next, Ulist)
         /\ alive' \in BOOLEAN /\ (alive' \/ who[fd[t]] = "gone")
  BY DEF Server!Search, Server!Goto, Server!Risks, Server!Closed, Server!Listed
<1>4. /\ pc' \in [Server!Process -> ListPlace] /\ pc'[t] = l /\ pc'[Main] = pc[Main]
      /\ \A u \in Client \ {t} : pc'[u] = pc[u]
  BY <1>2, <1>3 DEF ListType, ListPlace
<1>5. ListType'
  BY <1>1, <1>2, <1>3, <1>4 DEF ListType
<1>6. Ranks' /\ Walks'
  BY <1>1, <1>3, <1>4, ListRests DEF Loops, Deletes, AllThere
<1>7. Newcomers'
  BY <1>1, <1>2, <1>4 DEF Newcomers, Fresh
<1>9. Calm'
  <2>1. l = "deliver" => databuf[t].des \in Client
    BY <1>2, <1>3, BehindFacts DEF ListType
  <2>2. fd[t] \in Client
    BY <1>1, <1>2 DEF Newcomers
  <2>3. AllThere' => AllThere /\ alive'
    BY <2>2, <1>1, <1>3 DEF AllThere
  <2> QED
    BY <2>1, <2>3, <1>1, <1>2, <1>4 DEF Calm, Deletes
<1>10. Kept'
  BY <1>1, <1>2, <1>4 DEF Kept, Loops, Deletes
<1> QED
  BY <1>5, <1>6, <1>7, <1>9, <1>10 DEF ListInv

LEMMA ListDeliver ==
    ASSUME ListInv, NEW t \in Client, Server!Deliver(t)
    PROVE  ListInv'
<1> USE ListConstants
<1>1. /\ alive /\ pc[t] = "deliver" /\ pc' = [pc EXCEPT ![t] = "recv"]
      /\ UNCHANGED <<who, inbox, course, client_fd, fd, databuf, next, freed, cut, walk, crossed>>
  BY DEF Server!Deliver, Server!Goto, Server!clients, Server!login, Server!users
<1>2. /\ alive' \in BOOLEAN
      /\ alive' \/ who[databuf[t].des] = "gone" \/ who[databuf[t].src] = "gone"
  BY DEF Server!Deliver, Server!Risks, Server!Closed
<1>3. ListType /\ Ranks /\ Newcomers /\ Walks /\ Calm /\ Kept
  BY DEF ListInv
<1>4. /\ pc' \in [Server!Process -> ListPlace] /\ pc'[t] = "recv" /\ pc'[Main] = pc[Main]
      /\ \A u \in Client \ {t} : pc'[u] = pc[u]
  BY <1>1, <1>3 DEF ListType, ListPlace
<1>5. ListType'
  BY <1>1, <1>2, <1>3, <1>4 DEF ListType
<1>6. Ranks' /\ Walks'
  BY <1>1, <1>4, ListRests DEF Loops, Deletes, AllThere
<1>7. Newcomers'
  BY <1>1, <1>3, <1>4 DEF Newcomers, Fresh
<1>9. Calm'
  <2>1. AllThere => databuf[t].des \in Client /\ databuf[t].src \in Client
    BY <1>1, <1>3 DEF Calm, Texts
  <2>2. AllThere' => AllThere /\ alive'
    BY <2>1, <1>1, <1>2 DEF AllThere
  <2> QED
    BY <2>2, <1>1, <1>3, <1>4 DEF Calm, Deletes
<1>10. Kept'
  BY <1>1, <1>3, <1>4 DEF Kept, Loops, Deletes
<1> QED
  BY <1>5, <1>6, <1>7, <1>9, <1>10 DEF ListInv

-----------------------------------------------------------------------------
(***************************************************************************)
(* Steps of the clients.                                                   *)
(***************************************************************************)
LEMMA ListSay ==
    ASSUME ListInv, NEW c \in Client, Server!Say(c)
    PROVE  ListInv'
<1> USE ListConstants
<1>1. /\ who[c] = "in"
      /\ UNCHANGED <<pc, who, course, client_fd, fd, databuf, next, freed, cut, walk, alive, crossed>>
  BY DEF Server!Say, Server!login, Server!users
<1>2. ListType /\ Ranks /\ Newcomers /\ Walks /\ Calm /\ Kept
  BY DEF ListInv
<1>3. PICK m \in Texts : inbox' = [inbox EXCEPT ![c] = Append(inbox[c], m)]
  <2>1. PICK d \in {Server!All} \cup course.comes : Server!Send(c, Server!Text(c, d))
    BY DEF Server!Say
  <2>2. course \in Course
    BY <1>2 DEF ListType
  <2>3. d \in {Server!All} \cup Client
    BY <2>1, <2>2
  <2>4. Server!Text(c, d) \in Texts
    BY <2>3 DEF Server!Text, Texts
  <2> QED
    BY <2>1, <2>4 DEF Server!Send
<1>4. /\ inbox' \in [Client -> Seq(Texts \cup {Server!Quit})]
      /\ \A u \in Client : who[u] # "gone" => inbox'[u] \in Seq(Texts)
  <2>1. /\ inbox \in [Client -> Seq(Texts \cup {Server!Quit})]
        /\ \A u \in Client : who[u] # "gone" => inbox[u] \in Seq(Texts)
    BY <1>2 DEF ListType
  <2> HIDE DEF Texts
  <2>2. Append(inbox[c], m) \in Seq(Texts \cup {Server!Quit}) /\ Append(inbox[c], m) \in Seq(Texts)
    BY <1>1, <2>1
  <2> QED
    BY <1>3, <2>1, <2>2
<1>5. ListType'
  BY <1>1, <1>2, <1>4 DEF ListType
<1>6. Ranks' /\ Walks'
  BY <1>1, ListRests DEF AllThere
<1>7. Newcomers' /\ Calm' /\ Kept'
  BY <1>1, <1>2 DEF Newcomers, Fresh, Calm, Kept, AllThere
<1> QED
  BY <1>5, <1>6, <1>7 DEF ListInv

\* c ends, with or without a farewell
LEMMA ListGone ==
    ASSUME ListInv, NEW c \in Client, who[c] \in {"asking", "in"},
           who' = [who EXCEPT ![c] = "gone"],
           \/ UNCHANGED inbox
           \/ inbox' = [inbox EXCEPT ![c] = Append(inbox[c], Server!Quit)],
           UNCHANGED <<pc, course, client_fd, fd, databuf, next, freed, cut, walk, alive, crossed>>
    PROVE  ListInv'
<1> USE ListConstants
<1>1. ListType /\ Ranks /\ Newcomers /\ Walks /\ Calm /\ Kept
  BY DEF ListInv
<1>2. /\ who' \in [Client -> {"away", "asking", "in", "gone"}] /\ who'[c] = "gone"
      /\ \A u \in Client \ {c} : who'[u] = who[u]
  BY <1>1 DEF ListType
<1>3. /\ inbox' \in [Client -> Seq(Texts \cup {Server!Quit})]
      /\ \A u \in Client \ {c} : inbox'[u] = inbox[u]
  <2>1. inbox \in [Client -> Seq(Texts \cup {Server!Quit})]
    BY <1>1 DEF ListType
  <2> HIDE DEF Texts
  <2>2. Append(inbox[c], Server!Quit) \in Seq(Texts \cup {Server!Quit})
    BY <2>1
  <2> QED
    BY <2>1, <2>2
<1>4. ~AllThere'
  BY <1>2 DEF AllThere
<1>5. ListType'
  BY <1>1, <1>2, <1>3 DEF ListType
<1>6. Newcomers'
  BY <1>1, <1>2 DEF Newcomers, Fresh
<1>7. Kept'
  BY <1>1, <1>2 DEF Kept, Newcomers
<1>8. Ranks' /\ Walks'
  BY <1>4, ListRests
<1>9. Calm'
  BY <1>4 DEF Calm
<1> QED
  BY <1>5, <1>6, <1>7, <1>8, <1>9 DEF ListInv

LEMMA ListQuit ==
    ASSUME ListInv, NEW c \in Client, Server!client_quit(c)
    PROVE  ListInv'
<1>1. /\ who[c] = "in" /\ who' = [who EXCEPT ![c] = "gone"]
      /\ inbox' = [inbox EXCEPT ![c] = Append(inbox[c], Server!Quit)]
      /\ UNCHANGED <<pc, course, client_fd, fd, databuf, next, freed, cut, walk, alive, crossed>>
  BY DEF Server!client_quit, Server!Leaves, Server!Send, Server!login, Server!users
<1> QED
  BY <1>1, ListGone

LEMMA ListVanish ==
    ASSUME ListInv, NEW c \in Client, Server!Vanish(c)
    PROVE  ListInv'
<1>1. /\ who[c] \in {"asking", "in"} /\ who' = [who EXCEPT ![c] = "gone"]
      /\ UNCHANGED <<inbox, pc, course, client_fd, fd, databuf, next, freed, cut, walk, alive, crossed>>
  BY DEF Server!Vanish, Server!Leaves, Server!login, Server!users
<1> QED
  BY <1>1, ListGone

-----------------------------------------------------------------------------
(***************************************************************************)
(* Steps of a loop over the list.                                          *)
(***************************************************************************)
LEMMA LoopSteps ==
    ASSUME ListInv, NEW p \in Server!Process, NEW l \in Loops \cup {"spawn", "end", "recv"},
           NEW v \in ListWalk, pc[p] \in Loops,
           pc' = [pc EXCEPT ![p] = l], walk' = [walk EXCEPT ![p] = v],
           UNCHANGED <<who, inbox, course, client_fd, fd, databuf, next, freed, cut, crossed>>,
           Right(next, l, v), AllThere => Able(next, l, v),
           \A r : Ordered(r) => Descended(r, l, v),
           \A c \in Client : Fresh(c) => v.at # c,
           alive' \in BOOLEAN, AllThere => alive',
           l = "spawn" => p = Main,
           l = "end" => databuf[p] = Server!Listing
    PROVE  ListInv'
<1> USE ListConstants
<1>1. ListType /\ Ranks /\ Newcomers /\ Walks /\ Calm /\ Kept
  BY DEF ListInv
<1>2. /\ walk' \in [Server!Process -> ListWalk] /\ walk'[p] = v
      /\ \A u \in Server!Process \ {p} : walk'[u] = walk[u]
  BY <1>1 DEF ListType
<1>3. /\ pc' \in [Server!Process -> ListPlace] /\ pc'[p] = l
      /\ \A u \in Server!Process \ {p} : pc'[u] = pc[u]
  BY <1>1 DEF ListType, ListPlace
<1>4. ListType'
  BY <1>1, <1>2, <1>3 DEF ListType
<1>5. Ranks'
  <2>1. PICK r : Ordered(r)
    BY <1>1 DEF Ranks
  <2>2. ASSUME NEW u \in Server!Process PROVE Descended(r, pc'[u], walk'[u])
    BY <2>1, <1>2, <1>3 DEF Ordered
  <2>3. ASSUME NEW t \in Client PROVE Descends(r, pc'[t], cut'[t])
    <3>1. Descends(r, pc[t], cut[t])
      BY <2>1 DEF Ordered
    <3> QED
      BY <3>1, <1>3 DEF Descends, Loops
  <2>4. Ordered(r)'
    BY <2>1, <2>2, <2>3 DEF Ordered
  <2> QED
    BY <2>4 DEF Ranks
<1>6. Newcomers'
  <2>1. p = Main => pc[p] # "accept" /\ pc[p] \notin {"login", "check", "link", "head"}
    BY DEF Loops
  <2>2. ASSUME NEW c \in Client, Fresh(c) PROVE Fresh(c)'
    <3>1. pc'[c] = "none"
      BY <2>2, <1>3 DEF Fresh, Loops
    <3> QED
      BY <3>1, <2>2, <1>2 DEF Fresh
  <2>3. pc'[Main] \in {"login", "check", "link", "head"} => pc[Main] = pc'[Main]
    BY <1>3 DEF Loops
  <2>4. pc'[Main] # "accept" => pc[Main] # "accept"
    BY <2>1, <1>3
  <2>5. pc'[Main] # "accept" =>
           client_fd \in Client /\ who[client_fd] # "away" /\ pc'[client_fd] = "none"
    BY <2>4, <1>1, <1>3 DEF Newcomers, Loops
  <2>6. \A t \in Client : pc'[t] # "none" =>
           client_fd \in Client /\ (pc'[t] # "new" => fd[t] \in Client)
    BY <1>1, <1>3 DEF Newcomers, Loops
  <2> QED
    BY <2>2, <2>3, <2>5, <2>6, <1>1 DEF Newcomers
<1>7. Walks'
  <2>1. ASSUME NEW t \in Client, pc'[t] \in Deletes \ {"find", "free"} PROVE cut[t].p \in ListNode
    BY <2>1, <1>1, <1>3 DEF Walks, Loops, Deletes
  <2> QED
    BY <2>1, <1>1, <1>2, <1>3 DEF Walks, AllThere
<1>8. Calm'
  BY <1>1, <1>3 DEF Calm, AllThere, Loops, Deletes
<1>9. Kept'
  BY <1>1, <1>3 DEF Kept, Loops, Deletes
<1> QED
  BY <1>4, <1>5, <1>6, <1>7, <1>8, <1>9 DEF ListInv

\* what has been counted by then is before the loop, so not behind it
LEMMA CountedBefore ==
    ASSUME NEW links \in Links, NEW r, Ranked(links, r), NEW w \in ListWalk,
           Counting(links, w), Descended(r, "count", w), w.steady
    PROVE  w.due \cap Server!Behind(links, w.at) = {}
<1> USE ListConstants
<1>1. CASE w.at = Ulist
  BY <1>1 DEF Counting
<1>2. CASE w.at # Ulist
  <2>1. PICK a \in Client : a = w.at
    BY <1>2 DEF Counting, ListNode
  <2>2. PICK due \in SUBSET Client : due = w.due
    BY DEF ListWalk
  <2>3. \A d \in due \ {a} : r[a] < r[d]
    BY <2>1, <2>2 DEF Descended, Lower
  <2>4. r \in [Client -> Nat]
    BY DEF Ranked
  <2>5. \A x \in Server!Behind(links, a) : r[x] < r[a]
    BY BehindIsLower
  <2>6. Server!Behind(links, a) \subseteq Client
    BY <2>1, BehindFacts
  <2>7. ASSUME NEW d \in due, d \in Server!Behind(links, a) PROVE FALSE
    <3>1. PICK i \in Nat, j \in Nat : i = r[a] /\ j = r[d]
      BY <2>4, <2>7
    <3>2. j < i
      BY <3>1, <2>5, <2>7
    <3>3. d = a \/ i < j
      BY <3>1, <2>3
    <3> QED
      BY <3>1, <3>2, <3>3
  <2> QED
    BY <2>1, <2>2, <2>7
<1> QED
  BY <1>1, <1>2

LEMMA ListCount ==
    ASSUME ListInv, NEW p \in Server!Process, Server!Count(p)
    PROVE  ListInv'
<1> USE ListConstants
<1>1. /\ alive /\ pc[p] = "count"
      /\ UNCHANGED <<who, inbox, course, client_fd, fd, databuf, next, freed, cut, crossed>>
  BY DEF Server!Count, Server!clients, Server!login, Server!users
<1>2. ListType /\ Ranks /\ Newcomers /\ Walks /\ Calm /\ Kept
  BY DEF ListInv
<1>3. next \in Links /\ walk \in [Server!Process -> ListWalk]
  BY <1>2 DEF ListType
<1>4. PICK w \in ListWalk : w = walk[p]
  BY <1>3
<1>5. Counting(next, w) /\ (AllThere => Fits(next, w))
  BY <1>1, <1>2, <1>4 DEF Walks, Right, Able
<1>6. PICK a \in ListNode : a = w.at
  BY <1>5 DEF Counting
<1>7. PICK left \in Nat, due \in SUBSET Client, steady \in BOOLEAN :
         /\ w = [at |-> a, left |-> left, due |-> due, reached |-> {}, steady |-> steady]
         /\ w.left = left /\ w.due = due /\ w.reached = {} /\ w.steady = steady
  BY <1>5, <1>6 DEF ListWalk, Counting
<1>8. PICK r : Ordered(r)
  BY <1>2 DEF Ranks
<1>9. Ranked(next, r)
  BY <1>8 DEF Ordered
<1>10. steady => due \cap Server!Behind(next, a) = {}
  <2>1. Descended(r, "count", w)
    BY <1>1, <1>4, <1>8 DEF Ordered
  <2> QED
    BY <2>1, <1>3, <1>5, <1>6, <1>7, <1>9, CountedBefore
<1>11. PICK All \in SUBSET Client : All = Server!Behind(next, Ulist)
  BY <1>3, BehindFacts
<1>12. PICK n \in Nat : n = Cardinality(All)
  BY <1>3, <1>11, BehindCount
<1>13. PICK k \in Nat : k = Cardinality(Server!Behind(next, a))
  BY <1>3, BehindCount
<1>14. AllThere => left + k <= n
  BY <1>5, <1>6, <1>7, <1>11, <1>12, <1>13 DEF Fits
<1>15. steady => /\ All = due \cup Server!Behind(next, a) /\ a \in due \cup {Ulist}
                 /\ \A x \in ({Ulist} \cup due) \ {a} : next[x] \in due
                 /\ left = Cardinality(due)
  BY <1>5, <1>6, <1>7, <1>11 DEF Counting
<1>16. alive' \in BOOLEAN /\ (AllThere => alive')
  <2>1. alive' \in IF FALSE \/ {walk[p].at} \cap freed # {} THEN BOOLEAN ELSE {TRUE}
    BY DEF Server!Count, Server!Risks
  <2>2. AllThere => freed = {}
    BY <1>2 DEF Calm
  <2> QED
    BY <2>1, <2>2
<1>17. CASE next[a] = Nil
  <2>1. /\ pc' = [pc EXCEPT ![p] = "walk"]
        /\ walk' = [walk EXCEPT ![p].at = Ulist]
    BY <1>4, <1>6, <1>17 DEF Server!Count, Server!Goto
  <2>2. PICK v : v = [at |-> Ulist, left |-> left, due |-> due, reached |-> {}, steady |-> steady]
    OBVIOUS
  <2>3. walk' = [walk EXCEPT ![p] = v] /\ v \in ListWalk
    <3>1. v \in ListWalk
      BY <2>2 DEF ListWalk
    <3>2. PICK x : x = [w EXCEPT !.at = Ulist]
      OBVIOUS
    <3>3. /\ x \in ListWalk /\ x.at = Ulist
          /\ x.left = w.left /\ x.due = w.due /\ x.reached = w.reached /\ x.steady = w.steady
      BY <3>2, <1>4 DEF ListWalk
    <3>4. x = v
      BY <3>1, <3>3, <2>2, <1>7 DEF ListWalk
    <3> QED
      BY <3>1, <3>2, <3>4, <2>1, <1>4
  <2>4. Server!Behind(next, a) = {} /\ k = 0
    BY <1>3, <1>13, <1>17, BehindNone, FS_EmptySet
  <2>5. Going(next, v)
    <3>1. steady => All = due /\ left = n
      BY <2>4, <1>12, <1>15
    <3> QED
      BY <3>1, <2>2, <1>11, <1>12 DEF Going
  <2>6. AllThere => Short(next, v)
    BY <2>2, <2>4, <1>11, <1>12, <1>14 DEF Short
  <2>7. Right(next, "walk", v) /\ (AllThere => Able(next, "walk", v))
    BY <2>5, <2>6 DEF Right, Able, Loops
  <2>8. \A s : Descended(s, "walk", v)
    BY DEF Descended
  <2>9. v.at = Ulist
    BY <2>2
  <2> QED
    BY <2>1, <2>3, <2>7, <2>8, <2>9, <1>1, <1>16, LoopSteps DEF Loops
<1>18. CASE next[a] # Nil
  <2>1. PICK q \in Client : q = next[a]
    BY <1>3, <1>18 DEF Links
  <2>2. pc' = [pc EXCEPT ![p] = "count"]
    <3>1. UNCHANGED pc
      BY <1>4, <1>6, <1>18 DEF Server!Count
    <3> QED
      BY <3>1, <1>1, <1>2 DEF ListType
  <2>3. walk' = [walk EXCEPT ![p].at = q, ![p].left = @ + 1, ![p].due = @ \cup {q}]
    BY <2>1, <1>4, <1>6, <1>18 DEF Server!Count
  <2>4. PICK v : v = [at |-> q, left |-> left + 1, due |-> due \cup {q}, reached |-> {}, steady |-> steady]
    OBVIOUS
  <2>5. walk' = [walk EXCEPT ![p] = v] /\ v \in ListWalk
    BY <2>3, <2>4, <1>3, <1>4, <1>7 DEF ListWalk
  <2>6. PICK B \in SUBSET Client : B = Server!Behind(next, q)
    BY <1>3, BehindFacts DEF ListNode
  <2>7. Server!Behind(next, a) = {q} \cup B
    BY <2>1, <2>6, <1>3, BehindNext
  <2>8. q \notin B /\ k = Cardinality(B) + 1
    BY <2>1, <2>6, <1>3, <1>9, <1>13, NextCount
  <2>9. PICK m \in Nat : m = Cardinality(B)
    BY <2>6, <1>3, BehindCount DEF ListNode
  <2>10. steady => Cardinality(due \cup {q}) = left + 1
    <3>1. steady => q \notin due
      BY <2>7, <1>10
    <3>2. IsFiniteSet(due)
      BY FS_Subset, RoomsAssumption
    <3> QED
      <4> SUFFICES ASSUME steady PROVE Cardinality(due \cup {q}) = left + 1
        OBVIOUS
      <4>1. Cardinality(due \cup {q}) = Cardinality(due) + 1
        BY <3>1, <3>2, FS_AddElement
      <4> QED
        BY <4>1, <1>15
  <2>11. Counting(next, v)
    <3>1. steady => /\ All = (due \cup {q}) \cup B
                    /\ \A x \in ({Ulist} \cup due \cup {q}) \ {q} : next[x] \in due \cup {q}
      BY <2>1, <2>7, <1>15
    <3>2. q \in ListNode /\ q # Ulist
      BY DEF ListNode
    <3> QED
      BY <3>1, <3>2, <2>4, <2>6, <2>10, <1>11 DEF Counting
  <2>12. AllThere => Fits(next, v)
    <3>1. AllThere => left + 1 + m <= n
      BY <2>8, <2>9, <1>14
    <3> QED
      BY <3>1, <2>4, <2>6, <2>9, <1>11, <1>12 DEF Fits
  <2>13. Right(next, "count", v) /\ (AllThere => Able(next, "count", v))
    BY <2>11, <2>12 DEF Right, Able, Loops
  <2>14. ASSUME NEW s, Ordered(s) PROVE Descended(s, "count", v)
    <3>1. Ranked(next, s) /\ Descended(s, "count", w)
      BY <2>14, <1>1, <1>4 DEF Ordered
    <3>2. s \in [Client -> Nat]
      BY <3>1 DEF Ranked
    <3>3. ASSUME NEW d \in Client, d \in due \cup {q}, d # q, steady PROVE s[q] < s[d]
      <4>1. a \in Client /\ d \in due
        BY <3>3, <1>5, <1>6, <1>7, <1>15 DEF Counting, ListNode
      <4>2. s[q] < s[a]
        BY <4>1, <3>1, <2>1 DEF Ranked
      <4>3. d = a \/ s[a] < s[d]
        BY <4>1, <3>1, <3>3, <1>6, <1>7 DEF Descended, Lower
      <4>4. s[q] \in Nat /\ s[a] \in Nat /\ s[d] \in Nat
        BY <4>1, <3>2
      <4> QED
        BY <4>2, <4>3, <4>4
    <3> QED
      BY <3>3, <2>4 DEF Descended, Lower
  <2>15. \A c \in Client : Fresh(c) => v.at # c
    BY <2>1, <2>4 DEF Fresh
  <2> QED
    BY <2>2, <2>5, <2>13, <2>14, <2>15, <1>1, <1>16, LoopSteps DEF Loops
<1> QED
  BY <1>17, <1>18

LEMMA ListWalkEnds ==
    ASSUME ListInv, NEW p \in Server!Process, Server!WalkEnds(p)
    PROVE  ListInv'
<1> USE ListConstants
<1>1. /\ alive /\ pc[p] = "walk" /\ walk' = [walk EXCEPT ![p] = Server!NoWalk]
      /\ UNCHANGED <<who, inbox, course, client_fd, fd, databuf, next, freed, cut, alive, crossed>>
  BY DEF Server!WalkEnds, Server!clients, Server!login, Server!users
<1>2. PICK l \in {"spawn", "end", "recv"} :
         /\ pc' = [pc EXCEPT ![p] = l]
         /\ l = "spawn" <=> p = Main
         /\ l = "end" => databuf[p] = Server!Listing
  BY DEF Server!WalkEnds, Server!Goto
<1>3. next \in Links /\ alive' \in BOOLEAN
  BY <1>1 DEF ListInv, ListType
<1>4. Right(next, l, Server!NoWalk) /\ Able(next, l, Server!NoWalk)
  BY <1>2, <1>3, LoopRests
<1>5. Server!NoWalk \in ListWalk /\ Server!NoWalk.at = Ulist
  BY DEF Server!NoWalk, ListWalk
<1>6. \A r : Descended(r, l, Server!NoWalk)
  BY <1>2 DEF Descended
<1> QED
  BY <1>1, <1>2, <1>3, <1>4, <1>5, <1>6, LoopSteps DEF Loops

LEMMA ListSendNext ==
    ASSUME ListInv, NEW p \in Server!Process, Server!SendNext(p)
    PROVE  ListInv'
<1> USE ListConstants
<1>1. /\ alive /\ pc[p] = "walk" /\ walk[p].left > 0
      /\ UNCHANGED <<who, inbox, course, client_fd, fd, databuf, next, freed, cut, crossed>>
  BY DEF Server!SendNext, Server!clients, Server!login, Server!users
<1>2. ListType /\ Ranks /\ Newcomers /\ Walks /\ Calm /\ Kept
  BY DEF ListInv
<1>3. next \in Links /\ walk \in [Server!Process -> ListWalk]
  BY <1>2 DEF ListType
<1>4. PICK w \in ListWalk : w = walk[p]
  BY <1>3
<1>5. Going(next, w) /\ (AllThere => Short(next, w))
  BY <1>1, <1>2, <1>4 DEF Walks, Right, Able
<1>6. PICK a \in Client \cup {Ulist, Nil}, left \in Nat, due \in SUBSET Client,
           reached \in SUBSET Client, steady \in BOOLEAN :
         /\ w = [at |-> a, left |-> left, due |-> due, reached |-> reached, steady |-> steady]
         /\ w.at = a /\ w.left = left /\ w.due = due /\ w.reached = reached /\ w.steady = steady
  BY DEF ListWalk
<1>7. left > 0
  BY <1>1, <1>4, <1>6
<1>8. PICK q : q = IF a = Nil THEN Nil ELSE next[a]
  OBVIOUS
<1>9. CASE q = Nil
  <2>1. alive' = FALSE /\ UNCHANGED <<pc, walk>>
    BY <1>4, <1>6, <1>8, <1>9 DEF Server!SendNext
  <2>2. ~AllThere /\ ~AllThere'
    <3>1. CASE a \in ListNode
      <4>1. next[a] = Nil
        BY <3>1, <1>8, <1>9 DEF ListNode
      <4>2. Cardinality(Server!Behind(next, a)) = 0
        BY <3>1, <4>1, <1>3, BehindNone, FS_EmptySet
      <4> QED
        BY <4>2, <1>1, <1>5, <1>6, <1>7 DEF Short, AllThere
    <3>2. CASE a \notin ListNode
      BY <3>2, <1>1, <1>5, <1>6 DEF Short, AllThere
    <3> QED
      BY <3>1, <3>2
  <2>3. ListType'
    BY <2>1, <1>1, <1>2 DEF ListType
  <2>4. Ranks' /\ Walks'
    BY <2>1, <2>2, <1>1, ListRests
  <2>5. Newcomers' /\ Calm' /\ Kept'
    BY <2>1, <2>2, <1>1, <1>2 DEF Newcomers, Fresh, Calm, Kept
  <2> QED
    BY <2>3, <2>4, <2>5 DEF ListInv
<1>10. CASE q # Nil
  <2>1. a \in ListNode /\ q = next[a] /\ q \in Client
    BY <1>3, <1>8, <1>10 DEF Links, ListNode
  <2>2. /\ pc' = [pc EXCEPT ![p] = "move"]
        /\ walk' = [walk EXCEPT ![p].reached = @ \cup {q}]
        /\ alive' \in BOOLEAN /\ (alive' \/ who[q] = "gone" \/ {a, q} \cap freed # {})
    BY <1>4, <1>6, <1>8, <1>10 DEF Server!SendNext, Server!Goto, Server!Risks, Server!Closed
  <2>3. PICK v : v = [at |-> a, left |-> left, due |-> due, reached |-> reached \cup {q},
                      steady |-> steady]
    OBVIOUS
  <2>4. walk' = [walk EXCEPT ![p] = v] /\ v \in ListWalk
    <3>1. v \in ListWalk
      BY <2>1, <2>3 DEF ListWalk
    <3>2. PICK x : x = [w EXCEPT !.reached = @ \cup {q}]
      OBVIOUS
    <3>3. /\ x \in ListWalk /\ x.reached = reached \cup {q}
          /\ x.at = w.at /\ x.left = w.left /\ x.due = w.due /\ x.steady = w.steady
      BY <3>2, <2>1, <1>4, <1>6 DEF ListWalk
    <3>4. x = v
      BY <3>1, <3>3, <2>3, <1>6 DEF ListWalk
    <3> QED
      BY <3>1, <3>2, <3>4, <2>2, <1>4
  <2>5. PICK B \in SUBSET Client : B = Server!Behind(next, q)
    BY <2>1, <1>3, BehindFacts DEF ListNode
  <2>6. Server!Behind(next, a) = {q} \cup B
    BY <2>1, <2>5, <1>3, BehindNext
  <2>7. PICK r : Ranked(next, r)
    BY <1>2 DEF Ranks, Ordered
  <2>8. q \notin B /\ Cardinality(Server!Behind(next, a)) = Cardinality(B) + 1
    BY <2>1, <2>5, <2>7, <1>3, NextCount
  <2>9. Moving(next, v)
    <3>1. steady => /\ due \ (reached \cup {q}) = B /\ reached \cup {q} \subseteq due
                    /\ left = Cardinality(B) + 1
      BY <2>6, <2>8, <1>5, <1>6 DEF Going
    <3> QED
      BY <3>1, <2>1, <2>3, <2>5, <1>7 DEF Moving
  <2>10. AllThere => Short(next, v)
    BY <2>3, <1>5, <1>6 DEF Short
  <2>11. Right(next, "move", v) /\ (AllThere => Able(next, "move", v))
    BY <2>9, <2>10 DEF Right, Able, Loops
  <2>12. AllThere => alive'
    BY <2>1, <2>2, <1>2 DEF AllThere, Calm
  <2>13. \A s : Descended(s, "move", v)
    BY DEF Descended
  <2>14. \A c \in Client : Fresh(c) => v.at # c
    BY <2>3, <1>4, <1>6 DEF Fresh
  <2> QED
    BY <2>2, <2>4, <2>11, <2>12, <2>13, <2>14, <1>1, LoopSteps DEF Loops
<1> QED
  BY <1>9, <1>10

LEMMA ListMoveOn ==
    ASSUME ListInv, NEW p \in Server!Process, Server!MoveOn(p)
    PROVE  ListInv'
<1> USE ListConstants
<1>1. /\ alive /\ pc[p] = "move" /\ pc' = [pc EXCEPT ![p] = "walk"]
      /\ walk' = [walk EXCEPT ![p].at = next[@], ![p].left = @ - 1]
      /\ UNCHANGED <<who, inbox, course, client_fd, fd, databuf, next, freed, cut, crossed>>
  BY DEF Server!MoveOn, Server!Goto, Server!clients, Server!login, Server!users
<1>2. ListType /\ Ranks /\ Newcomers /\ Walks /\ Calm /\ Kept
  BY DEF ListInv
<1>3. next \in Links /\ walk \in [Server!Process -> ListWalk]
  BY <1>2 DEF ListType
<1>4. PICK w \in ListWalk : w = walk[p]
  BY <1>3
<1>5. Moving(next, w) /\ (AllThere => Short(next, w))
  BY <1>1, <1>2, <1>4 DEF Walks, Right, Able
<1>6. PICK a \in ListNode, left \in Nat, due \in SUBSET Client,
           reached \in SUBSET Client, steady \in BOOLEAN :
         /\ w = [at |-> a, left |-> left, due |-> due, reached |-> reached, steady |-> steady]
         /\ w.at = a /\ w.left = left /\ w.due = due /\ w.reached = reached /\ w.steady = steady
  BY <1>5 DEF ListWalk, Moving
<1>7. PICK q \in Client \cup {Nil} : q = next[a]
  BY <1>3 DEF Links
<1>8. PICK m \in Nat : left = m + 1
  <2>1. left > 0
    BY <1>5, <1>6 DEF Moving
  <2>2. left - 1 \in Nat /\ left = (left - 1) + 1
    BY <2>1
  <2> QED
    BY <2>2
<1>9. PICK v : v = [at |-> q, left |-> m, due |-> due, reached |-> reached, steady |-> steady]
  OBVIOUS
<1>10. walk' = [walk EXCEPT ![p] = v] /\ v \in ListWalk
  <2>1. left - 1 = m
    BY <1>8
  <2> QED
    BY <2>1, <1>1, <1>3, <1>4, <1>6, <1>7, <1>9 DEF ListWalk
<1>11. Going(next, v)
  <2>1. steady => /\ q \in Client /\ due \ reached = Server!Behind(next, q)
                  /\ reached \subseteq due /\ m + 1 = Cardinality(Server!Behind(next, q)) + 1
    BY <1>5, <1>6, <1>7, <1>8 DEF Moving
  <2>2. q \in Client => Cardinality(Server!Behind(next, q)) \in Nat
    BY <1>3, BehindCount DEF ListNode
  <2> QED
    BY <2>1, <2>2, <1>9 DEF Going, ListNode
<1>12. ASSUME AllThere PROVE Short(next, v)
  <2>1. m + 1 <= Cardinality(Server!Behind(next, a))
    BY <1>5, <1>6, <1>8, <1>12 DEF Short
  <2>2. q \in Client
    <3>1. q = Nil => Cardinality(Server!Behind(next, a)) = 0
      BY <1>3, <1>7, BehindNone, FS_EmptySet
    <3> QED
      BY <3>1, <2>1
  <2>3. PICK r : Ranked(next, r)
    BY <1>2 DEF Ranks, Ordered
  <2>4. Cardinality(Server!Behind(next, a)) = Cardinality(Server!Behind(next, q)) + 1
    BY <2>2, <2>3, <1>3, <1>7, NextCount
  <2>5. Cardinality(Server!Behind(next, q)) \in Nat /\ q \in ListNode
    BY <2>2, <1>3, BehindCount DEF ListNode
  <2>6. m <= Cardinality(Server!Behind(next, q))
    BY <2>1, <2>4, <2>5
  <2> QED
    BY <2>5, <2>6, <1>9 DEF Short
<1>13. Right(next, "walk", v) /\ (AllThere => Able(next, "walk", v))
  BY <1>11, <1>12 DEF Right, Able, Loops
<1>14. alive' \in BOOLEAN /\ (AllThere => alive')
  <2>1. alive' \in IF FALSE \/ {walk[p].at} \cap freed # {} THEN BOOLEAN ELSE {TRUE}
    BY DEF Server!MoveOn, Server!Risks
  <2>2. AllThere => freed = {}
    BY <1>2 DEF Calm
  <2> QED
    BY <2>1, <2>2
<1>15. \A s : Descended(s, "walk", v)
  BY DEF Descended
<1>16. \A c \in Client : Fresh(c) => v.at # c
  BY <1>7, <1>9 DEF Fresh
<1> QED
  BY <1>1, <1>10, <1>13, <1>14, <1>15, <1>16, LoopSteps DEF Loops

-----------------------------------------------------------------------------
(***************************************************************************)
(* What a write to the list leaves of the loops over it: one that has no   *)
(* pointer to follow that was written finds what it would have found.      *)
(***************************************************************************)
LEMMA CountsOn ==
    ASSUME NEW links \in Links, NEW others \in Links, NEW n \in ListNode,
           \A x \in ListNode \ {n} : others[x] = links[x],
           NEW w \in ListWalk, NEW v \in ListWalk,
           v.at = w.at, v.left = w.left, v.due = w.due, v.reached = w.reached,
           v.steady => w.steady /\ n \notin ({Ulist} \cup w.due) \ {w.at},
           NEW r, Ranked(links, r), Counting(links, w), Descended(r, "count", w)
    PROVE  Counting(others, v)
<1> USE ListConstants
<1>1. PICK a \in ListNode, due \in SUBSET Client : a = w.at /\ due = w.due
  BY DEF Counting, ListWalk
<1>2. SUFFICES ASSUME v.steady
               PROVE  /\ Server!Behind(others, Ulist) = due \cup Server!Behind(others, a)
                      /\ \A x \in ({Ulist} \cup due) \ {a} : others[x] \in due
  BY <1>1 DEF Counting
<1>3. /\ w.steady /\ n \notin ({Ulist} \cup due) \ {a}
      /\ Server!Behind(links, Ulist) = due \cup Server!Behind(links, a)
      /\ a \in due \cup {Ulist} /\ (a = Ulist => due = {})
      /\ \A x \in ({Ulist} \cup due) \ {a} : links[x] \in due
  BY <1>1, <1>2 DEF Counting
<1>4. \A x \in ({Ulist} \cup due) \ {a} : others[x] = links[x]
  BY <1>3
<1>5. CASE a = Ulist
  BY <1>3, <1>5
<1>6. CASE a # Ulist
  <2> DEFINE A == Server!Behind(links, a)
             L == Server!Behind(links, Ulist)
             B == Server!Behind(others, a)
             M == Server!Behind(others, Ulist)
  <2>1. /\ A \subseteq Client /\ \A x \in A \cup {a} : links[x] \in A \cup {Nil}
    BY BehindFacts
  <2>2. \A S \in SUBSET Client :
            (\A x \in S \cup {Ulist} : links[x] \in S \cup {Nil}) => L \subseteq S
    BY BehindFacts
  <2>3. /\ B \subseteq Client /\ \A x \in B \cup {a} : others[x] \in B \cup {Nil}
        /\ \A S \in SUBSET Client :
               (\A x \in S \cup {a} : others[x] \in S \cup {Nil}) => B \subseteq S
    BY BehindFacts
  <2>4. /\ M \subseteq Client /\ \A x \in M \cup {Ulist} : others[x] \in M \cup {Nil}
        /\ \A S \in SUBSET Client :
               (\A x \in S \cup {Ulist} : others[x] \in S \cup {Nil}) => M \subseteq S
    BY BehindFacts
  <2>5. due \cap A = {}
    BY <1>1, <1>3, CountedBefore
  <2>6. L = due \cup A
    BY <1>3
  <2> HIDE DEF A, L, B, M
  <2>7. M \subseteq due \cup B
    <3>1. due \cup B \in SUBSET Client
      BY <2>3
    <3>2. \A x \in (due \cup B) \cup {Ulist} : others[x] \in (due \cup B) \cup {Nil}
      BY <1>3, <1>4, <1>6, <2>3
    <3> QED
      BY <3>1, <3>2, <2>4
  <2>8. due \subseteq M
    <3>1. (M \cap due) \cup A \in SUBSET Client
      BY <2>1
    <3>2. \A x \in ((M \cap due) \cup A) \cup {Ulist} : links[x] \in ((M \cap due) \cup A) \cup {Nil}
      BY <1>3, <1>4, <1>6, <2>1, <2>4
    <3>3. L \subseteq (M \cap due) \cup A
      BY <3>1, <3>2, <2>2
    <3> QED
      BY <3>3, <2>5, <2>6
  <2>9. B \subseteq M
    BY <1>3, <1>6, <2>3, <2>4, <2>8
  <2>10. M = due \cup B
    BY <2>7, <2>8, <2>9
  <2>11. \A x \in ({Ulist} \cup due) \ {a} : others[x] \in due
    BY <1>3, <1>4
  <2> QED
    BY <2>10, <2>11 DEF M, B
<1> QED
  BY <1>5, <1>6

LEMMA GoesOn ==
    ASSUME NEW links \in Links, NEW others \in Links, NEW n \in ListNode,
           \A x \in ListNode \ {n} : others[x] = links[x],
           NEW w \in ListWalk, NEW v \in ListWalk,
           v.at = w.at, v.left = w.left, v.due = w.due, v.reached = w.reached,
           v.steady => /\ w.steady
                       /\ w.at # Nil => n \notin {w.at, links[w.at]} \cup (w.due \ w.reached)
    PROVE  /\ Going(links, w) => Going(others, v)
           /\ Moving(links, w) => Moving(others, v)
<1> USE ListConstants
<1>1. \A a \in ListNode : n \notin Server!Behind(links, a) \cup {a} =>
          Server!Behind(others, a) = Server!Behind(links, a)
  <2> SUFFICES ASSUME NEW a \in ListNode, n \notin Server!Behind(links, a) \cup {a}
               PROVE  Server!Behind(others, a) = Server!Behind(links, a)
    OBVIOUS
  <2>1. \A x \in Server!Behind(links, a) \cup {a} : others[x] = links[x]
    BY BehindFacts
  <2> QED
    BY <2>1, BehindSame
<1>2. ASSUME Going(links, w), v.steady PROVE Going(others, v)
  <2>1. PICK a \in ListNode : a = w.at
    BY <1>2 DEF Going
  <2>2. n \notin Server!Behind(links, a) \cup {a}
    BY <2>1, <1>2 DEF Going
  <2>3. Server!Behind(others, a) = Server!Behind(links, a)
    BY <2>2, <1>1
  <2> QED
    BY <2>1, <2>3, <1>2 DEF Going
<1>3. ASSUME Moving(links, w), v.steady PROVE Moving(others, v)
  <2>1. PICK a \in ListNode : a = w.at
    BY <1>3 DEF Moving
  <2>2. PICK q \in Client : q = links[a]
    BY <2>1, <1>3 DEF Moving
  <2>3. n \notin Server!Behind(links, q) \cup {q} /\ n # a
    BY <2>1, <2>2, <1>3 DEF Moving
  <2>4. others[a] = q /\ Server!Behind(others, q) = Server!Behind(links, q)
    BY <2>2, <2>3, <1>1
  <2> QED
    BY <2>1, <2>2, <2>4, <1>3 DEF Moving
<1>4. ASSUME ~v.steady PROVE Going(others, v) /\ (Moving(links, w) => Moving(others, v))
  BY <1>4 DEF Going, Moving
<1> QED
  BY <1>2, <1>3, <1>4

LEMMA ListWrite ==
    ASSUME ListInv, NEW n \in ListNode, NEW y \in Client \cup {Nil}, Server!Write(n, y),
           NEW r, Ordered(r)
    PROVE  /\ next' \in Links /\ next'[n] = y /\ \A x \in ListNode \ {n} : next'[x] = next[x]
           /\ walk' \in [Server!Process -> ListWalk]
           /\ \A u \in Server!Process :
                 /\ walk'[u].at = walk[u].at /\ walk'[u].left = walk[u].left
                 /\ walk'[u].due = walk[u].due /\ walk'[u].reached = walk[u].reached
                 /\ Right(next', pc[u], walk'[u]) /\ Descended(r, pc[u], walk'[u])
<1> USE ListConstants
<1>1. next \in Links /\ walk \in [Server!Process -> ListWalk] /\ Walks
  BY DEF ListInv, ListType
<1>2. next' \in Links /\ next'[n] = y /\ \A x \in ListNode \ {n} : next'[x] = next[x]
  BY <1>1 DEF Server!Write, Links
<1>3. walk' = [u \in Server!Process |-> [walk[u] EXCEPT !.steady = @ /\ n \notin Server!Ahead(u)]]
  BY DEF Server!Write
<1>4. PICK others \in Links : others = next'
  BY <1>2
<1>5. ASSUME NEW u \in Server!Process
      PROVE  /\ walk'[u] \in ListWalk
             /\ walk'[u].at = walk[u].at /\ walk'[u].left = walk[u].left
             /\ walk'[u].due = walk[u].due /\ walk'[u].reached = walk[u].reached
             /\ Right(others, pc[u], walk'[u]) /\ Descended(r, pc[u], walk'[u])
  <2>1. PICK w \in ListWalk : w = walk[u]
    BY <1>1
  <2>2. PICK b \in BOOLEAN : b = (n \notin Server!Ahead(u))
    OBVIOUS
  <2>3. PICK v : v = walk'[u]
    OBVIOUS
  <2>4. v = [w EXCEPT !.steady = @ /\ b]
    BY <2>1, <2>2, <2>3, <1>3
  <2>5. /\ v \in ListWalk /\ v.at = w.at /\ v.left = w.left /\ v.due = w.due
        /\ v.reached = w.reached /\ (v.steady => w.steady /\ b)
    BY <2>4 DEF ListWalk
  <2>6. Right(next, pc[u], w) /\ Descended(r, pc[u], w) /\ Ranked(next, r)
    BY <2>1, <1>1 DEF Walks, Ordered
  <2>7. Descended(r, pc[u], v)
    BY <2>5, <2>6 DEF Descended
  <2>8. CASE pc[u] \notin Loops
    <3>1. Server!Ahead(u) = {}
      BY <2>8 DEF Server!Ahead, Loops
    <3>2. b = TRUE /\ w = Server!NoWalk
      BY <3>1, <2>2, <2>6, <2>8 DEF Right
    <3>3. v = w
      <4>1. w.steady = TRUE
        BY <3>2 DEF Server!NoWalk
      <4>2. v.steady = TRUE
        BY <4>1, <3>2, <2>1, <2>4 DEF ListWalk
      <4> QED
        BY <4>1, <4>2, <2>1, <2>5 DEF ListWalk
    <3> QED
      BY <3>2, <3>3, <2>1, <2>3, <2>5, <2>7, <2>8 DEF Right, Loops
  <2>9. CASE pc[u] = "count"
    <3>1. Server!Ahead(u) = ({Ulist} \cup w.due) \ {w.at}
      BY <2>1, <2>9 DEF Server!Ahead
    <3>2. v.steady => w.steady /\ n \notin ({Ulist} \cup w.due) \ {w.at}
      BY <3>1, <2>2, <2>5
    <3>3. Counting(next, w) /\ Descended(r, "count", w)
      BY <2>6, <2>9 DEF Right
    <3>4. \A x \in ListNode \ {n} : others[x] = next[x]
      BY <1>2, <1>4
    <3>5. Counting(others, v)
      <4> HIDE DEF Links, ListNode
      <4> QED
        BY <3>2, <3>3, <3>4, <2>5, <2>6, <1>1, CountsOn
    <3> QED
      BY <3>5, <2>1, <2>3, <2>5, <2>7, <2>9 DEF Right, Loops
  <2>10. CASE pc[u] \in {"walk", "move"}
    <3>1. w.at # Nil => Server!Ahead(u) = {w.at, next[w.at]} \cup (w.due \ w.reached)
      BY <2>1, <2>10 DEF Server!Ahead
    <3>2. v.steady => /\ w.steady
                      /\ w.at # Nil => n \notin {w.at, next[w.at]} \cup (w.due \ w.reached)
      BY <3>1, <2>2, <2>5
    <3>3. \A x \in ListNode \ {n} : others[x] = next[x]
      BY <1>2, <1>4
    <3>4. (Going(next, w) => Going(others, v)) /\ (Moving(next, w) => Moving(others, v))
      <4> HIDE DEF Links, ListNode
      <4> QED
        BY <3>2, <3>3, <2>5, <1>1, GoesOn
    <3> QED
      BY <3>4, <2>1, <2>3, <2>5, <2>6, <2>7, <2>10 DEF Right, Loops
  <2> QED
    BY <2>8, <2>9, <2>10 DEF Loops
<1>6. walk' \in [Server!Process -> ListWalk]
  BY <1>3, <1>5
<1> QED
  BY <1>2, <1>4, <1>5, <1>6

-----------------------------------------------------------------------------
(***************************************************************************)
(* A thread takes its client's node out: it finds the node before, reads   *)
(* what is after it, writes that, and frees the node.                      *)
(***************************************************************************)
\* what all of these steps leave alone
LEMMA DeleteSteps ==
    ASSUME ListInv, NEW t \in Client, pc[t] \in Deletes, NEW l \in Deletes \cup {"count"},
           pc' = [pc EXCEPT ![t] = l], NEW d \in {databuf[t], Server!Listing},
           databuf' = [databuf EXCEPT ![t] = d], cut' \in [Client -> ListReads],
           \A u \in Client \ {t} : cut'[u] = cut[u], alive' \in BOOLEAN,
           UNCHANGED <<who, inbox, course, client_fd, fd, next, walk, crossed>>,
           freed' \subseteq Client,
           \A c \in Client : Fresh(c) =>
               cut'[t].p # c /\ cut'[t].q # c /\ cut'[t].after # c /\ c \notin freed',
           l \in {"take", "again", "after", "cut"} => cut'[t].p \in ListNode,
           \A r : Ordered(r) => Descends(r, l, cut'[t]),
           Kept'
    PROVE  ListInv'
<1> USE ListConstants
<1>1. ListType /\ Ranks /\ Newcomers /\ Walks /\ Calm
  BY DEF ListInv
<1>2. /\ pc' \in [Server!Process -> ListPlace] /\ pc'[t] = l /\ pc'[Main] = pc[Main]
      /\ \A u \in Server!Process \ {t} : pc'[u] = pc[u]
  BY <1>1 DEF ListType, ListPlace, Loops, Deletes
<1>3. /\ DOMAIN databuf' = Server!Process /\ databuf' = [p \in Server!Process |-> databuf'[p]]
      /\ \A u \in Server!Process \ {t} : databuf'[u] = databuf[u]
  BY <1>1 DEF ListType
<1>4. ~AllThere /\ ~AllThere'
  BY <1>1 DEF Calm, AllThere
<1>5. ListType'
  BY <1>1, <1>2, <1>3 DEF ListType
<1>6. Ranks' /\ Walks'
  <2>1. l \in {"after", "cut"} => cut'[t].p \in ListNode /\ \A r : Ordered(r) => Descends(r, pc'[t], cut'[t])
    BY <1>2
  <2>2. \A u \in Client \ {t} : cut'[u] = cut[u] /\ pc'[u] = pc[u]
    BY <1>2
  <2> QED
    BY <2>1, <2>2, <1>2, <1>4, ListRests DEF Loops, Deletes
<1>7. Newcomers'
  <2>1. ASSUME NEW c \in Client, Fresh(c) PROVE Fresh(c)'
    <3>1. c # t
      BY <2>1 DEF Fresh, Deletes
    <3> QED
      BY <2>1, <3>1, <1>2 DEF Fresh
  <2>2. \A u \in Client : pc'[u] # "none" => pc[u] # "none"
    BY <1>2 DEF Deletes
  <2>3. \A u \in Client : pc'[u] = "none" <=> pc[u] = "none"
    BY <1>2 DEF Deletes
  <2>4. \A u \in Client : pc'[u] = "new" <=> pc[u] = "new"
    BY <1>2 DEF Deletes
  <2> QED
    BY <2>1, <2>3, <2>4, <1>1, <1>2 DEF Newcomers
<1>8. Calm'
  BY <1>4 DEF Calm
<1> QED
  BY <1>5, <1>6, <1>7, <1>8 DEF ListInv

\* and what is kept by those that do not write
LEMMA DeleteKeeps ==
    ASSUME ListInv, NEW t \in Client, pc[t] \in Deletes \ {"free"},
           NEW l \in (Deletes \ {"free"}) \cup {"count"},
           pc' = [pc EXCEPT ![t] = l], NEW d \in {databuf[t], Server!Listing},
           databuf' = [databuf EXCEPT ![t] = d], \A u \in Client \ {t} : cut'[u] = cut[u],
           UNCHANGED <<who, client_fd, fd, next, freed, crossed>>
    PROVE  Kept'
<1> USE ListConstants
<1>1. ListType /\ Kept
  BY DEF ListInv
<1>2. /\ pc'[t] = l /\ \A u \in Server!Process \ {t} : pc'[u] = pc[u]
  BY <1>1 DEF ListType
<1>3. \A u \in Client \ {t} : databuf'[u] = databuf[u]
  BY <1>1 DEF ListType
<1> QED
  BY <1>1, <1>2, <1>3 DEF Kept, Loops, Deletes

LEMMA ListFind ==
    ASSUME ListInv, NEW t \in Client, Server!Find(t)
    PROVE  ListInv'
<1> USE ListConstants
<1>1. /\ pc[t] = "find"
      /\ UNCHANGED <<who, inbox, course, client_fd, fd, next, freed, walk, alive, crossed>>
  BY DEF Server!Find, Server!clients, Server!login, Server!users
<1>2. ListType
  BY DEF ListInv
<1>3. next \in Links /\ cut \in [Client -> ListReads] /\ freed \subseteq Client
      /\ alive \in BOOLEAN
      /\ DOMAIN databuf = Server!Process /\ databuf = [p \in Server!Process |-> databuf[p]]
  BY <1>2 DEF ListType
<1>4. PICK B \in SUBSET Client : B = Server!Behind(next, Ulist)
  BY <1>3, BehindFacts
<1>5. \/ /\ pc' = [pc EXCEPT ![t] = "count"] /\ UNCHANGED cut
         /\ databuf' = [databuf EXCEPT ![t] = Server!Listing]
      \/ /\ pc' = [pc EXCEPT ![t] = "take"] /\ UNCHANGED databuf
         /\ \E n \in B \cup {Ulist} : cut' = [cut EXCEPT ![t].p = n]
  <2> DEFINE before == {n \in {Ulist} \cup Server!Listed : next[n] = fd[t]}
  <2>1. CASE before = {}
    BY <2>1 DEF Server!Find, Server!Goto
  <2>2. CASE before # {}
    <3>1. (CHOOSE n \in before : TRUE) \in before
      BY <2>2
    <3>2. before \subseteq B \cup {Ulist}
      BY <1>4 DEF Server!Listed
    <3>3. /\ pc' = [pc EXCEPT ![t] = "take"] /\ UNCHANGED databuf
          /\ cut' = [cut EXCEPT ![t].p = CHOOSE n \in before : TRUE]
      BY <2>2 DEF Server!Find, Server!Goto
    <3> QED
      BY <3>1, <3>2, <3>3
  <2> QED
    BY <2>1, <2>2
<1>6. CASE /\ pc' = [pc EXCEPT ![t] = "count"] /\ UNCHANGED cut
           /\ databuf' = [databuf EXCEPT ![t] = Server!Listing]
  <2>1. Kept'
    BY <1>1, <1>6, DeleteKeeps DEF Deletes
  <2>2. \A c \in Client : Fresh(c) =>
            cut'[t].p # c /\ cut'[t].q # c /\ cut'[t].after # c /\ c \notin freed'
    BY <1>1, <1>6 DEF Fresh
  <2> QED
    <3>1. \A r : Descends(r, "count", cut'[t])
      BY DEF Descends
    <3> QED
      BY <3>1, <2>1, <2>2, <1>1, <1>3, <1>6, DeleteSteps DEF Deletes
<1>7. CASE /\ pc' = [pc EXCEPT ![t] = "take"] /\ UNCHANGED databuf
           /\ \E n \in B \cup {Ulist} : cut' = [cut EXCEPT ![t].p = n]
  <2>1. PICK n \in B \cup {Ulist} : cut' = [cut EXCEPT ![t].p = n]
    BY <1>7
  <2>2. /\ cut' \in [Client -> ListReads] /\ cut'[t].p = n
        /\ cut'[t].q = cut[t].q /\ cut'[t].after = cut[t].after
        /\ \A u \in Client \ {t} : cut'[u] = cut[u]
    BY <2>1, <1>3 DEF ListReads
  <2>3. n \in ListNode /\ \A c \in Client : Fresh(c) => c # n
    BY <1>3, <1>4, NotBehind DEF Fresh
  <2>4. databuf' = [databuf EXCEPT ![t] = databuf[t]]
    BY <1>3, <1>7
  <2>5. Kept'
    BY <2>2, <2>4, <1>1, <1>7, DeleteKeeps DEF Deletes
  <2>6. \A c \in Client : Fresh(c) =>
            cut'[t].p # c /\ cut'[t].q # c /\ cut'[t].after # c /\ c \notin freed'
    BY <2>2, <2>3, <1>1 DEF Fresh
  <2> QED
    <3>1. \A r : Descends(r, "take", cut'[t])
      BY DEF Descends
    <3> QED
      BY <3>1, <2>2, <2>3, <2>4, <2>5, <2>6, <1>1, <1>3, <1>7, DeleteSteps DEF Deletes
<1> QED
  BY <1>5, <1>6, <1>7

LEMMA ListTake ==
    ASSUME ListInv, NEW t \in Client, Server!Take(t)
    PROVE  ListInv'
<1> USE ListConstants
<1>1. /\ pc[t] = "take" /\ pc' = [pc EXCEPT ![t] = "again"]
      /\ cut' = [cut EXCEPT ![t].q = next[cut[t].p]] /\ alive' \in BOOLEAN
      /\ UNCHANGED <<who, inbox, course, client_fd, fd, databuf, next, freed, walk, crossed>>
  BY DEF Server!Take, Server!Goto, Server!Risks, Server!clients, Server!login
<1>2. ListType /\ Walks
  BY DEF ListInv
<1>3. next \in Links /\ cut \in [Client -> ListReads] /\ freed \subseteq Client
      /\ DOMAIN databuf = Server!Process /\ databuf = [p \in Server!Process |-> databuf[p]]
  BY <1>2 DEF ListType
<1>4. PICK p \in ListNode : p = cut[t].p
  BY <1>1, <1>2 DEF Walks, Deletes
<1>5. next[p] \in Client \cup {Nil} /\ \A c \in Client : Fresh(c) => next[p] # c
  BY <1>3 DEF Links, Fresh
<1>6. /\ cut' \in [Client -> ListReads] /\ cut'[t].p = p
      /\ cut'[t].q = next[p] /\ cut'[t].after = cut[t].after
      /\ \A u \in Client \ {t} : cut'[u] = cut[u]
  BY <1>1, <1>3, <1>4, <1>5 DEF ListReads
<1>7. databuf' = [databuf EXCEPT ![t] = databuf[t]]
  BY <1>1, <1>3
<1>8. Kept'
  BY <1>1, <1>6, <1>7, DeleteKeeps DEF Deletes
<1>9. \A c \in Client : Fresh(c) =>
          cut'[t].p # c /\ cut'[t].q # c /\ cut'[t].after # c /\ c \notin freed'
  BY <1>1, <1>4, <1>5, <1>6 DEF Fresh
<1> QED
  <2>1. \A r : Descends(r, "again", cut'[t])
    BY DEF Descends
  <2> QED
    BY <2>1, <1>1, <1>3, <1>6, <1>7, <1>8, <1>9, DeleteSteps DEF Deletes

LEMMA ListAfter ==
    ASSUME ListInv, NEW t \in Client, Server!After(t)
    PROVE  ListInv'
<1> USE ListConstants
<1>1. /\ pc[t] \in {"again", "after"}
      /\ UNCHANGED <<who, inbox, course, client_fd, fd, databuf, next, freed, walk, crossed>>
  BY DEF Server!After, Server!clients, Server!login
<1>2. ListType /\ Ranks /\ Newcomers /\ Walks /\ Calm /\ Kept
  BY DEF ListInv
<1>3. next \in Links /\ cut \in [Client -> ListReads] /\ freed \subseteq Client
      /\ DOMAIN databuf = Server!Process /\ databuf = [p \in Server!Process |-> databuf[p]]
  BY <1>2 DEF ListType
<1>4. PICK p \in ListNode : p = cut[t].p
  BY <1>1, <1>2 DEF Walks, Deletes
<1>5. PICK n \in Client \cup {Ulist, Nil} :
          n = IF pc[t] = "again" THEN cut[t].p ELSE cut[t].after
  BY <1>3 DEF ListReads
<1>6. CASE n = Nil
  <2>1. alive' = FALSE /\ UNCHANGED <<pc, cut>>
    <3>1. (IF pc[t] = "again" THEN cut[t].p ELSE cut[t].after) = Nil
      BY <1>5, <1>6
    <3> QED
      BY <3>1, Zenon DEF Server!After
  <2>2. ~AllThere /\ ~AllThere'
    BY <1>1, <1>2 DEF Calm, AllThere, Deletes
  <2>3. ListType' /\ Ranks' /\ Walks'
    BY <2>1, <2>2, <1>1, <1>2, ListRests DEF ListType
  <2>4. Newcomers' /\ Calm' /\ Kept'
    BY <2>1, <2>2, <1>1, <1>2 DEF Newcomers, Fresh, Calm, Kept
  <2> QED
    BY <2>3, <2>4 DEF ListInv
<1>7. CASE n # Nil
  <2>1. PICK l \in {"after", "cut"} :
            /\ l = IF pc[t] = "again" THEN "after" ELSE "cut"
            /\ pc' = [pc EXCEPT ![t] = l]
            /\ cut' = [cut EXCEPT ![t].after = next[n]] /\ alive' \in BOOLEAN
    BY <1>5, <1>7 DEF Server!After, Server!Goto, Server!Risks
  <2>2. n \in ListNode /\ next[n] \in Client \cup {Nil} /\ \A c \in Client : Fresh(c) => next[n] # c
    BY <1>3, <1>7 DEF Links, Fresh, ListNode
  <2>3. /\ cut' \in [Client -> ListReads] /\ cut'[t].p = p
        /\ cut'[t].q = cut[t].q /\ cut'[t].after = next[n]
        /\ \A u \in Client \ {t} : cut'[u] = cut[u]
    BY <2>1, <2>2, <1>3, <1>4 DEF ListReads
  <2>4. databuf' = [databuf EXCEPT ![t] = databuf[t]]
    BY <1>1, <1>3
  <2>5. Kept'
    BY <2>1, <2>3, <2>4, <1>1, DeleteKeeps DEF Deletes
  <2>6. \A c \in Client : Fresh(c) =>
            cut'[t].p # c /\ cut'[t].q # c /\ cut'[t].after # c /\ c \notin freed'
    BY <2>2, <2>3, <1>1, <1>4 DEF Fresh
  <2>7. ASSUME NEW r, Ordered(r) PROVE Descends(r, l, cut'[t])
    <3>1. /\ r \in [Client -> Nat] /\ \A x \in Client : next[x] \in Client => r[next[x]] < r[x]
          /\ Descends(r, pc[t], cut[t])
      BY <2>7 DEF Ordered, Ranked
    <3>2. ASSUME p \in Client, next[n] \in Client PROVE r[next[n]] < r[p]
      <4>1. CASE pc[t] = "again"
        <5>1. n = p
          BY <4>1, <1>4, <1>5
        <5> QED
          BY <5>1, <3>1, <3>2
      <4>2. CASE pc[t] = "after"
        <5>1. n = cut[t].after /\ n \in Client
          BY <4>2, <1>3, <1>5, <1>7 DEF ListReads
        <5>2. r[n] < r[p] /\ r[next[n]] < r[n]
          BY <5>1, <4>2, <3>1, <3>2, <1>4 DEF Descends, Lower
        <5>3. r[n] \in Nat /\ r[p] \in Nat /\ r[next[n]] \in Nat
          BY <5>1, <3>1, <3>2
        <5> QED
          BY <5>2, <5>3
      <4> QED
        BY <4>1, <4>2, <1>1
    <3> QED
      BY <3>2, <2>3 DEF Descends, Lower
  <2>8. cut'[t].p \in ListNode
    BY <2>3
  <2> QED
    <3>1. /\ \A r : Ordered(r) => Descends(r, l, cut'[t])
          /\ pc[t] \in Deletes /\ l \in Deletes \cup {"count"}
          /\ databuf[t] \in {databuf[t], Server!Listing}
      BY <2>1, <2>7, <1>1 DEF Deletes
    <3> QED
      <4>1. /\ pc' = [pc EXCEPT ![t] = l] /\ alive' \in BOOLEAN
            /\ cut' \in [Client -> ListReads] /\ \A u \in Client \ {t} : cut'[u] = cut[u]
            /\ UNCHANGED <<who, inbox, course, client_fd, fd, next, walk, crossed>>
            /\ freed' \subseteq Client
            /\ (l \in {"take", "again", "after", "cut"} => cut'[t].p \in ListNode)
        BY <2>1, <2>3, <2>8, <1>1, <1>3
      <4> QED
        BY <4>1, <3>1, <2>4, <2>5, <2>6, DeleteSteps
<1> QED
  BY <1>6, <1>7

LEMMA ListFree ==
    ASSUME ListInv, NEW t \in Client, Server!Free(t)
    PROVE  ListInv'
<1> USE ListConstants
<1>1. /\ pc[t] = "free" /\ pc' = [pc EXCEPT ![t] = "count"]
      /\ databuf' = [databuf EXCEPT ![t] = Server!Listing]
      /\ freed' = freed \cup ({cut[t].q} \ {Nil}) /\ alive' \in BOOLEAN
      /\ cut' = [cut EXCEPT ![t] = Server!NoCut]
      /\ UNCHANGED <<who, inbox, course, client_fd, fd, next, walk, crossed>>
  BY DEF Server!Free, Server!Goto, Server!Risks, Server!clients, Server!login
<1>2. ListType /\ Kept
  BY DEF ListInv
<1>3. cut \in [Client -> ListReads] /\ freed \subseteq Client
  BY <1>2 DEF ListType
<1>4. /\ cut' \in [Client -> ListReads]
      /\ cut'[t].p = Nil /\ cut'[t].q = Nil /\ cut'[t].after = Nil
      /\ \A u \in Client \ {t} : cut'[u] = cut[u]
  BY <1>1, <1>3 DEF Server!NoCut, ListReads
<1>5. PICK q \in Client \cup {Nil} : q = cut[t].q
  BY <1>3 DEF ListReads
<1>6. freed' \subseteq Client /\ \A x \in freed' : x \in freed \/ x = q
  BY <1>1, <1>3, <1>5
<1>7. \A c \in Client : Fresh(c) =>
          cut'[t].p # c /\ cut'[t].q # c /\ cut'[t].after # c /\ c \notin freed'
  BY <1>4, <1>5, <1>6 DEF Fresh
<1>8. Kept'
  <2> SUFFICES ASSUME ~crossed' PROVE Kept'
    BY DEF Kept
  <2>1. /\ pc'[t] = "count" /\ \A u \in Server!Process \ {t} : pc'[u] = pc[u]
        /\ \A u \in Client \ {t} : databuf'[u] = databuf[u]
    BY <1>1, <1>2 DEF ListType
  <2>2. who[t] = "gone" /\ q = t /\ t \notin Server!Behind(next, Ulist)
    BY <1>1, <1>2, <1>5 DEF Kept, Deletes
  <2>3. Server!Behind(next, Ulist) \cap freed' = {}
    BY <2>2, <1>1, <1>2, <1>6 DEF Kept
  <2> QED
    BY <2>1, <2>2, <2>3, <1>1, <1>2, <1>4 DEF Kept, Loops, Deletes
<1> QED
  <2>1. \A r : Descends(r, "count", cut'[t])
    BY DEF Descends
  <2> QED
    BY <2>1, <1>1, <1>4, <1>6, <1>7, <1>8, DeleteSteps DEF Deletes

LEMMA ListCutStep ==
    ASSUME ListInv, NEW t \in Client, Server!Cut(t)
    PROVE  ListInv'
<1> USE ListConstants
<1>1. /\ pc[t] = "cut" /\ pc' = [pc EXCEPT ![t] = "free"] /\ alive' \in BOOLEAN
      /\ Server!Write(cut[t].p, cut[t].after)
      /\ UNCHANGED <<who, inbox, course, client_fd, fd, databuf, freed, cut>>
  BY DEF Server!Cut, Server!Goto, Server!Risks, Server!clients, Server!login
<1>2. ListType /\ Ranks /\ Newcomers /\ Walks /\ Calm /\ Kept
  BY DEF ListInv
<1>3. next \in Links /\ cut \in [Client -> ListReads]
  BY <1>2 DEF ListType
<1>4. PICK p \in ListNode : p = cut[t].p
  BY <1>1, <1>2 DEF Walks, Deletes
<1>5. PICK q \in Client \cup {Nil}, y \in Client \cup {Nil} : q = cut[t].q /\ y = cut[t].after
  BY <1>3 DEF ListReads
<1>6. PICK r : Ordered(r)
  BY <1>2 DEF Ranks
<1>7. /\ next' \in Links /\ next'[p] = y /\ \A x \in ListNode \ {p} : next'[x] = next[x]
      /\ walk' \in [Server!Process -> ListWalk]
      /\ \A u \in Server!Process :
            /\ walk'[u].at = walk[u].at
            /\ Right(next', pc[u], walk'[u]) /\ Descended(r, pc[u], walk'[u])
  <2>1. Server!Write(p, y)
    BY <1>1, <1>4, <1>5
  <2> HIDE DEF ListNode
  <2> QED
    BY <2>1, <1>6, ListWrite
<1>8. /\ pc' \in [Server!Process -> ListPlace] /\ pc'[t] = "free" /\ pc'[Main] = pc[Main]
      /\ \A u \in Server!Process \ {t} : pc'[u] = pc[u]
  BY <1>1, <1>2 DEF ListType, ListPlace, Deletes
<1>9. ~AllThere /\ ~AllThere'
  BY <1>1, <1>2 DEF Calm, AllThere, Deletes
<1>10. /\ crossed' \in BOOLEAN
       /\ ~crossed' => /\ ~crossed /\ p \in Server!Behind(next, Ulist) \cup {Ulist}
                       /\ q = fd[t] /\ next[p] = q /\ next[q] = y
  BY <1>2, <1>4, <1>5 DEF Server!Cut, Server!Listed, ListType
<1>11. ListType'
  BY <1>1, <1>2, <1>7, <1>8, <1>10 DEF ListType
<1>12. Ranks'
  <2>1. /\ r \in [Client -> Nat] /\ \A x \in Client : next[x] \in Client => r[next[x]] < r[x]
        /\ Descends(r, "cut", cut[t])
    BY <1>1, <1>6 DEF Ordered, Ranked
  <2>2. p \in Client /\ y \in Client => r[y] < r[p]
    BY <2>1, <1>4, <1>5 DEF Descends, Lower
  <2>3. \A x \in Client : next'[x] \in Client => r[next'[x]] < r[x]
    BY <2>1, <2>2, <1>7
  <2>4. Ranked(next', r)
    BY <2>1, <2>3 DEF Ranked
  <2>5. ASSUME NEW u \in Server!Process PROVE Descended(r, pc'[u], walk'[u])
    BY <1>7, <1>8 DEF Descended
  <2>6. ASSUME NEW u \in Client PROVE Descends(r, pc'[u], cut'[u])
    <3>1. Descends(r, pc[u], cut[u])
      BY <1>6 DEF Ordered
    <3> QED
      BY <3>1, <1>1, <1>8 DEF Descends
  <2>7. Ordered(r)'
    BY <2>4, <2>5, <2>6 DEF Ordered
  <2> QED
    BY <2>7 DEF Ranks
<1>13. Newcomers'
  <2>1. ASSUME NEW c \in Client, Fresh(c) PROVE Fresh(c)'
    <3>1. c # t /\ y # c
      BY <2>1, <1>1, <1>5 DEF Fresh
    <3>2. \A x \in ListNode : next'[x] # c
      BY <2>1, <3>1, <1>7 DEF Fresh
    <3> QED
      BY <2>1, <3>1, <3>2, <1>1, <1>7, <1>8 DEF Fresh
  <2>2. \A u \in Client : (pc'[u] = "none" <=> pc[u] = "none") /\ (pc'[u] = "new" <=> pc[u] = "new")
    BY <1>1, <1>8
  <2> QED
    BY <2>1, <2>2, <1>1, <1>2, <1>8 DEF Newcomers
<1>14. Walks'
  <2>1. ASSUME NEW u \in Server!Process PROVE Right(next', pc'[u], walk'[u])
    <3>1. CASE u # t
      BY <3>1, <1>7, <1>8
    <3>2. CASE u = t
      <4>1. walk'[t] = Server!NoWalk
        BY <1>1, <1>7 DEF Right, Loops
      <4> QED
        BY <4>1, <3>2, <1>7, <1>8, LoopRests
    <3> QED
      BY <3>1, <3>2
  <2>2. ASSUME NEW u \in Client, pc'[u] \in Deletes \ {"find", "free"} PROVE cut'[u].p \in ListNode
    BY <2>2, <1>1, <1>2, <1>8 DEF Walks
  <2> QED
    BY <2>1, <2>2, <1>9 DEF Walks
<1>15. Calm'
  BY <1>9 DEF Calm
<1>16. Kept'
  <2> SUFFICES ASSUME ~crossed' PROVE Kept'
    BY DEF Kept
  <2>1. PICK B \in SUBSET Client : B = Server!Behind(next, Ulist)
    BY <1>3, BehindFacts
  <2>2. /\ p \in B \cup {Ulist} /\ q = t /\ who[t] = "gone" /\ next[p] = t /\ next[t] = y
    BY <2>1, <1>1, <1>2, <1>10 DEF Kept, Deletes
  <2>3. Server!Behind(next', Ulist) = B \ {t}
    <3>1. PICK others : others = [next EXCEPT ![p] = next[t]]
      OBVIOUS
    <3>2. Server!Behind(others, Ulist) = Server!Behind(next, Ulist) \ {t}
      <4>1. Ranked(next, r) /\ p \in Server!Behind(next, Ulist) \cup {Ulist} /\ next[p] = t
        BY <2>1, <2>2, <1>6 DEF Ordered
      <4> HIDE DEF Links
      <4> QED
        BY <4>1, <3>1, <1>3, TakenOut
    <3>3. next' = others
      BY <3>1, <2>2, <1>3, <1>7 DEF Links
    <3> QED
      BY <3>2, <3>3, <2>1
  <2>4. \A u \in Client : u \in B /\ who[u] = "in" => u \in B \ {t}
    BY <2>2
  <2> QED
    BY <2>1, <2>2, <2>3, <2>4, <1>1, <1>2, <1>5, <1>8, <1>10 DEF Kept, Loops, Deletes
<1> QED
  BY <1>11, <1>12, <1>13, <1>14, <1>15, <1>16 DEF ListInv

-----------------------------------------------------------------------------
(***************************************************************************)
(* main links a newcomer in: first its node, then the head.                *)
(***************************************************************************)
\* a link of a node that nothing leads to changes nothing for a loop
LEMMA NewNode ==
    ASSUME NEW links \in Links, NEW others \in Links, NEW c \in Client,
           \A x \in ListNode : links[x] # c, \A x \in ListNode \ {c} : others[x] = links[x],
           \A n \in ListNode \ {c} : Server!Behind(others, n) = Server!Behind(links, n),
           NEW w \in ListWalk, w.at # c, NEW l, Right(links, l, w)
    PROVE  Right(others, l, w) /\ (Able(links, l, w) => Able(others, l, w))
<1> USE ListConstants
<1>1. Ulist \in ListNode \ {c}
  OBVIOUS
<1>2. CASE l \notin Loops
  BY <1>2 DEF Right, Able, Loops
<1>3. CASE l = "count"
  <2>1. Counting(links, w)
    BY <1>3 DEF Right
  <2>2. PICK a \in ListNode \ {c}, due \in SUBSET Client : a = w.at /\ due = w.due
    BY <2>1 DEF Counting, ListWalk
  <2>3. Server!Behind(others, a) = Server!Behind(links, a)
        /\ Server!Behind(others, Ulist) = Server!Behind(links, Ulist)
    BY <2>2, <1>1
  <2>4. c \notin Server!Behind(links, Ulist)
    BY <1>1, NotBehind
  <2>5. w.steady => \A x \in ({Ulist} \cup due) \ {a} : x \in ListNode \ {c}
    BY <2>1, <2>2, <2>4 DEF Counting
  <2>6. Counting(others, w)
    BY <2>1, <2>2, <2>3, <2>5 DEF Counting
  <2>7. Fits(links, w) => Fits(others, w)
    BY <2>2, <2>3 DEF Fits
  <2> QED
    BY <2>6, <2>7, <1>3 DEF Right, Able, Loops
<1>4. CASE l \in {"walk", "move"}
  <2>1. Short(links, w) => Short(others, w)
    BY DEF Short
  <2>2. Going(links, w) => Going(others, w)
    BY DEF Going
  <2>3. Moving(links, w) => Moving(others, w)
    <3> SUFFICES ASSUME Moving(links, w) PROVE Moving(others, w)
      OBVIOUS
    <3>1. PICK a \in ListNode \ {c} : a = w.at
      BY DEF Moving
    <3>2. others[a] = links[a] /\ links[a] # c
      BY <3>1
    <3>3. links[a] \in Client => Server!Behind(others, links[a]) = Server!Behind(links, links[a])
      BY <3>2
    <3> QED
      BY <3>1, <3>2, <3>3 DEF Moving
  <2> QED
    BY <2>1, <2>2, <2>3, <1>4 DEF Right, Able, Loops
<1> QED
  BY <1>2, <1>3, <1>4 DEF Loops

LEMMA ListLink ==
    ASSUME ListInv, Server!Link
    PROVE  ListInv'
<1> USE ListConstants
<1>1. /\ pc[Main] = "link" /\ pc' = [pc EXCEPT ![Main] = "head"]
      /\ next' = [next EXCEPT ![client_fd] = next[Ulist]]
      /\ UNCHANGED <<who, inbox, course, client_fd, fd, databuf, freed, cut, walk, alive, crossed>>
  BY DEF Server!Link, Server!Goto, Server!clients, Server!login
<1>2. ListType /\ Ranks /\ Newcomers /\ Walks /\ Calm /\ Kept
  BY DEF ListInv
<1>3. next \in Links /\ walk \in [Server!Process -> ListWalk]
  BY <1>2 DEF ListType
<1>4. PICK c \in Client : c = client_fd
  BY <1>1, <1>2 DEF Newcomers
<1>5. /\ \A x \in ListNode : next[x] # c
      /\ \A u \in Server!Process : walk[u].at # c
      /\ \A t \in Client : cut[t].p # c /\ cut[t].q # c /\ cut[t].after # c
      /\ c \notin freed /\ pc[c] = "none"
  BY <1>1, <1>2, <1>4 DEF Newcomers, Fresh
<1>6. /\ next' \in Links /\ next'[c] = next[Ulist]
      /\ \A x \in ListNode \ {c} : next'[x] = next[x]
  BY <1>1, <1>3, <1>4 DEF Links
<1>7. /\ pc' \in [Server!Process -> ListPlace] /\ pc'[Main] = "head"
      /\ \A u \in Client : pc'[u] = pc[u]
  BY <1>1, <1>2 DEF ListType, ListPlace
<1>8. PICK others \in Links : others = next'
  BY <1>6
<1>9. \A n \in ListNode \ {c} : Server!Behind(others, n) = Server!Behind(next, n)
  <2> SUFFICES ASSUME NEW n \in ListNode \ {c} PROVE Server!Behind(others, n) = Server!Behind(next, n)
    OBVIOUS
  <2>1. c \notin Server!Behind(next, n) /\ Server!Behind(next, n) \subseteq Client
    BY <1>3, <1>5, NotBehind, BehindFacts
  <2>2. \A x \in Server!Behind(next, n) \cup {n} : others[x] = next[x]
    BY <2>1, <1>6, <1>8
  <2> QED
    BY <2>2, <1>3, BehindSame
<1>10. ListType'
  BY <1>1, <1>2, <1>6, <1>7 DEF ListType
<1>11. ASSUME NEW u \in Server!Process
       PROVE  /\ Right(next, pc[u], walk[u]) /\ (AllThere => Able(next, pc[u], walk[u]))
              /\ Right(others, pc'[u], walk[u]) /\ (AllThere => Able(others, pc'[u], walk[u]))
  <2>1. Right(next, pc[u], walk[u]) /\ (AllThere => Able(next, pc[u], walk[u]))
    BY <1>2 DEF Walks
  <2>2. PICK w \in ListWalk, l \in {pc'[u]} : w = walk[u] /\ l = pc'[u]
    BY <1>3
  <2>3. Right(next, l, w) /\ (AllThere => Able(next, l, w))
    BY <2>1, <2>2, <1>1, <1>7 DEF Right, Able, Loops
  <2>4. w.at # c /\ \A x \in ListNode \ {c} : others[x] = next[x]
    BY <2>2, <1>5, <1>6, <1>8
  <2>5. Right(others, l, w) /\ (AllThere => Able(others, l, w))
    <3> HIDE DEF Links, ListNode
    <3> QED
      BY <2>3, <2>4, <1>3, <1>5, <1>9, NewNode
  <2> QED
    BY <2>1, <2>2, <2>5
<1>12. Ranks'
  <2>1. PICK r : Ordered(r)
    BY <1>2 DEF Ranks
  <2>2. r \in [Client -> Nat] /\ \A x \in Client : next[x] \in Client => r[next[x]] < r[x]
    BY <2>1 DEF Ordered, Ranked
  <2>3. PICK k \in Nat : next[Ulist] \in Client => r[next[Ulist]] < k
    <3>1. CASE next[Ulist] \in Client
      <4>1. PICK j \in Nat : j = r[next[Ulist]]
        BY <2>2, <3>1
      <4>2. j + 1 \in Nat /\ j < j + 1
        OBVIOUS
      <4> QED
        BY <4>1, <4>2
    <3>2. CASE next[Ulist] \notin Client
      BY <3>2
    <3> QED
      BY <3>1, <3>2
  <2>4. PICK s : s = [r EXCEPT ![c] = k]
    OBVIOUS
  <2>5. /\ s \in [Client -> Nat] /\ s[c] = k /\ \A x \in Client \ {c} : s[x] = r[x]
    BY <2>2, <2>4
  <2>6. ASSUME NEW x \in Client, next'[x] \in Client PROVE s[next'[x]] < s[x]
    <3>1. CASE x = c
      <4>1. next'[x] # c /\ next'[x] = next[Ulist]
        BY <3>1, <1>5, <1>6
      <4> QED
        BY <4>1, <3>1, <2>3, <2>5, <2>6
    <3>2. CASE x # c
      <4>1. next'[x] # c /\ next'[x] = next[x]
        BY <3>2, <1>5, <1>6
      <4> QED
        BY <4>1, <3>2, <2>2, <2>5, <2>6
    <3> QED
      BY <3>1, <3>2
  <2>7. Ranked(next', s)
    BY <2>5, <2>6 DEF Ranked
  <2>8. ASSUME NEW t \in Client PROVE Descends(s, pc'[t], cut'[t])
    <3>1. Descends(r, pc[t], cut[t])
      BY <2>1 DEF Ordered
    <3>2. PICK p, y : p = cut[t].p /\ y = cut[t].after
      OBVIOUS
    <3>3. p # c /\ y # c
      BY <3>2, <1>5
    <3> QED
      BY <3>1, <3>2, <3>3, <2>5, <1>1, <1>7 DEF Descends, Lower
  <2>9. ASSUME NEW u \in Server!Process PROVE Descended(s, pc'[u], walk'[u])
    <3>1. PICK w \in ListWalk : w = walk[u]
      BY <1>3
    <3> SUFFICES ASSUME pc'[u] = "count", w.steady, NEW d \in w.due \ {w.at} PROVE Lower(s, d, w.at)
      BY <3>1, <1>1 DEF Descended
    <3>2. pc[u] = "count"
      BY <1>1, <1>7
    <3>3. Lower(r, d, w.at) /\ Counting(next, w)
      BY <3>1, <3>2, <1>11, <2>1 DEF Ordered, Descended, Right
    <3>4. c \notin Server!Behind(next, Ulist)
      BY <1>3, <1>5, NotBehind
    <3>5. d # c /\ w.at # c
      BY <3>1, <3>3, <3>4, <1>5 DEF Counting
    <3> QED
      BY <3>3, <3>5, <2>5 DEF Lower
  <2>10. Ordered(s)'
    BY <2>7, <2>8, <2>9 DEF Ordered
  <2> QED
    BY <2>10 DEF Ranks
<1>13. Newcomers'
  <2>1. ASSUME NEW d \in Client, Fresh(d) PROVE Fresh(d)'
    <3>1. \A x \in ListNode : next'[x] # d
      BY <2>1, <1>6 DEF Fresh
    <3> QED
      BY <3>1, <2>1, <1>1, <1>7 DEF Fresh
  <2>2. Fresh(c)
    BY <1>5 DEF Fresh
  <2> QED
    BY <2>1, <2>2, <1>1, <1>2, <1>4, <1>7 DEF Newcomers
<1>14. Walks'
  <2>1. \A t \in Client : pc'[t] \in Deletes \ {"find", "free"} => cut'[t].p \in ListNode
    BY <1>1, <1>2, <1>7 DEF Walks
  <2> QED
    BY <2>1, <1>1, <1>8, <1>11 DEF Walks, AllThere
<1>15. next'[client_fd] = next'[Ulist]
  BY <1>4, <1>6
<1>16. Calm'
  BY <1>15, <1>1, <1>2, <1>7 DEF Calm, AllThere
<1>17. Kept'
  <2>1. Server!Behind(next', Ulist) = Server!Behind(next, Ulist)
    BY <1>8, <1>9
  <2> QED
    BY <2>1, <1>1, <1>2, <1>7 DEF Kept, Loops
<1> QED
  BY <1>10, <1>12, <1>13, <1>14, <1>16, <1>17 DEF ListInv

\* one more user at the head: the users behind a loop still suffice
LEMMA OneMore ==
    ASSUME NEW links \in Links, NEW others \in Links, NEW c \in Client, links[c] = links[Ulist],
           others[Ulist] = c, \A x \in Client : others[x] = links[x],
           NEW r, Ranked(others, r), NEW w \in ListWalk, NEW v \in ListWalk,
           v.at = w.at, v.left = w.left, NEW l, Right(links, l, w), Able(links, l, w)
    PROVE  Able(others, l, v)
<1> USE ListConstants
<1>1. /\ \A n \in Client : Server!Behind(others, n) = Server!Behind(links, n)
      /\ Server!Behind(others, Ulist) = {c} \cup Server!Behind(links, c)
  <2> HIDE DEF Links
  <2> QED
    BY HeadMoved
<1>2. Server!Behind(links, c) = Server!Behind(links, Ulist)
  BY NextIsFirst
<1>3. PICK m \in Nat : m = Cardinality(Server!Behind(links, Ulist))
  BY BehindCount
<1>4. Cardinality(Server!Behind(others, Ulist)) = m + 1
  <2>1. Cardinality(Server!Behind(others, Ulist)) = Cardinality(Server!Behind(others, c)) + 1
    BY NextCount
  <2> QED
    BY <2>1, <1>1, <1>2, <1>3
<1>5. PICK left \in Nat : left = w.left
  BY DEF ListWalk
<1>6. CASE l = "count"
  <2>1. PICK a \in ListNode : a = w.at
    BY <1>6 DEF Right, Counting
  <2>2. PICK k \in Nat : k = Cardinality(Server!Behind(links, a))
    BY BehindCount
  <2>3. left + k <= m
    BY <2>1, <2>2, <1>3, <1>5, <1>6 DEF Able, Fits
  <2>4. Fits(others, v)
    <3>1. CASE a = Ulist
      <4>1. left = 0
        BY <3>1, <2>1, <1>5, <1>6 DEF Right, Counting
      <4> QED
        BY <4>1, <3>1, <2>1, <1>4, <1>5 DEF Fits
    <3>2. CASE a # Ulist
      <4>1. Server!Behind(others, a) = Server!Behind(links, a)
        BY <3>2, <1>1
      <4>2. left + k <= m + 1
        BY <2>3
      <4> QED
        BY <4>1, <4>2, <2>1, <2>2, <1>4, <1>5 DEF Fits
    <3> QED
      BY <3>1, <3>2
  <2> QED
    BY <2>4, <1>6 DEF Able
<1>7. CASE l \in {"walk", "move"}
  <2>1. PICK a \in ListNode : a = w.at
    BY <1>7 DEF Able, Short
  <2>2. left <= Cardinality(Server!Behind(links, a))
    BY <2>1, <1>5, <1>7 DEF Able, Short
  <2>3. left <= Cardinality(Server!Behind(others, a))
    <3>1. CASE a = Ulist
      BY <3>1, <2>2, <1>3, <1>4
    <3>2. CASE a # Ulist
      BY <3>2, <2>2, <1>1
    <3> QED
      BY <3>1, <3>2
  <2> QED
    BY <2>1, <2>3, <1>5, <1>7 DEF Able, Short
<1> QED
  BY <1>6, <1>7 DEF Able

LEMMA ListLinkHead ==
    ASSUME ListInv, Server!LinkHead
    PROVE  ListInv'
<1> USE ListConstants
<1>1. /\ pc[Main] = "head" /\ pc' = [pc EXCEPT ![Main] = "count"]
      /\ Server!Write(Ulist, client_fd)
      /\ databuf' = [databuf EXCEPT ![Main] = Server!Listing]
      /\ UNCHANGED <<who, inbox, course, client_fd, fd, freed, cut, alive>>
  BY DEF Server!LinkHead, Server!Goto, Server!clients, Server!login
<1>2. ListType /\ Ranks /\ Newcomers /\ Walks /\ Calm /\ Kept
  BY DEF ListInv
<1>3. next \in Links /\ walk \in [Server!Process -> ListWalk]
  BY <1>2 DEF ListType
<1>4. PICK c \in Client : c = client_fd
  BY <1>1, <1>2 DEF Newcomers
<1>5. /\ \A x \in ListNode : next[x] # c
      /\ \A u \in Server!Process : walk[u].at # c
      /\ c \notin freed /\ pc[c] = "none" /\ who[c] # "away"
  BY <1>1, <1>2, <1>4 DEF Newcomers, Fresh
<1>6. /\ crossed' \in BOOLEAN
      /\ ~crossed' => ~crossed /\ next[c] = next[Ulist]
  BY <1>2, <1>4 DEF Server!LinkHead, ListType
<1>7. PICK r : Ordered(r)
  BY <1>2 DEF Ranks
<1>8. /\ next' \in Links /\ next'[Ulist] = c /\ \A x \in ListNode \ {Ulist} : next'[x] = next[x]
      /\ walk' \in [Server!Process -> ListWalk]
      /\ \A u \in Server!Process :
            /\ walk'[u].at = walk[u].at /\ walk'[u].left = walk[u].left
            /\ Right(next', pc[u], walk'[u]) /\ Descended(r, pc[u], walk'[u])
  BY <1>1, <1>4, <1>7, ListWrite
<1>9. PICK others \in Links : others = next'
  BY <1>8
<1>10. others[Ulist] = c /\ \A x \in Client : others[x] = next[x]
  BY <1>8, <1>9
<1>11. /\ pc' \in [Server!Process -> ListPlace] /\ pc'[Main] = "count"
       /\ \A u \in Client : pc'[u] = pc[u]
  BY <1>1, <1>2 DEF ListType, ListPlace, Loops
<1>12. /\ DOMAIN databuf' = Server!Process /\ databuf' = [u \in Server!Process |-> databuf'[u]]
       /\ \A u \in Client : databuf'[u] = databuf[u]
  BY <1>1, <1>2 DEF ListType
<1>13. walk'[Main] = Server!NoWalk
  BY <1>1, <1>8 DEF Right, Loops
<1>14. ListType'
  BY <1>1, <1>2, <1>6, <1>8, <1>11, <1>12 DEF ListType
<1>15. Ranked(next, r) /\ Ranked(others, r)
  BY <1>7, <1>10 DEF Ordered, Ranked
<1>16. Ranks'
  <2>1. ASSUME NEW u \in Server!Process PROVE Descended(r, pc'[u], walk'[u])
    <3>1. CASE u = Main
      <4>1. walk'[u].due = {}
        BY <3>1, <1>13 DEF Server!NoWalk
      <4> QED
        BY <4>1 DEF Descended
    <3>2. CASE u # Main
      BY <3>2, <1>8, <1>11
    <3> QED
      BY <3>1, <3>2
  <2>2. ASSUME NEW t \in Client PROVE Descends(r, pc'[t], cut'[t])
    BY <1>1, <1>7, <1>11 DEF Ordered
  <2>3. Ordered(r)'
    BY <2>1, <2>2, <1>9, <1>15 DEF Ordered
  <2> QED
    BY <2>3 DEF Ranks
<1>17. Newcomers'
  <2>1. ASSUME NEW d \in Client, Fresh(d), d # c PROVE Fresh(d)'
    <3>1. \A x \in ListNode : next'[x] # d
      BY <2>1, <1>8 DEF Fresh
    <3> QED
      BY <3>1, <2>1, <1>1, <1>8, <1>11 DEF Fresh
  <2> QED
    BY <2>1, <1>1, <1>2, <1>4, <1>5, <1>11 DEF Newcomers
<1>18. Walks'
  <2>1. ASSUME NEW u \in Server!Process
        PROVE  Right(others, pc'[u], walk'[u]) /\ (AllThere => Able(others, pc'[u], walk'[u]))
    <3>1. CASE u = Main
      BY <3>1, <1>11, <1>13, LoopRests
    <3>2. CASE u # Main
      <4>1. PICK w \in ListWalk, v \in ListWalk, l \in {pc[u]} : w = walk[u] /\ v = walk'[u] /\ l = pc[u]
        BY <1>3, <1>8
      <4>2. /\ v.at = w.at /\ v.left = w.left /\ Right(others, l, v)
            /\ Right(next, l, w) /\ (AllThere => Able(next, l, w))
        BY <4>1, <1>2, <1>8, <1>9 DEF Walks
      <4>3. AllThere => next[c] = next[Ulist]
        BY <1>1, <1>2, <1>4 DEF Calm
      <4>4. AllThere => Able(others, l, v)
        <5> HIDE DEF Links
        <5> QED
          BY <4>2, <4>3, <1>3, <1>10, <1>15, OneMore
      <4> QED
        BY <4>1, <4>2, <4>4, <3>2, <1>11
    <3> QED
      BY <3>1, <3>2
  <2>2. \A t \in Client : pc'[t] \in Deletes \ {"find", "free"} => cut'[t].p \in ListNode
    BY <1>1, <1>2, <1>11 DEF Walks
  <2> QED
    BY <2>1, <2>2, <1>1, <1>9 DEF Walks, AllThere
<1>19. Calm'
  BY <1>1, <1>2, <1>11, <1>12 DEF Calm, AllThere
<1>20. Kept'
  <2> SUFFICES ASSUME ~crossed' PROVE Kept'
    BY DEF Kept
  <2>1. ~crossed /\ next[c] = next[Ulist]
    BY <1>6
  <2>2. Server!Behind(next', Ulist) = {c} \cup Server!Behind(next, Ulist)
    <3>1. Server!Behind(others, Ulist) = {c} \cup Server!Behind(next, c)
      <4>1. next \in Links
        BY <1>3
      <4> HIDE DEF Links
      <4> QED
        BY <4>1, <1>10, HeadMoved
    <3> QED
      BY <3>1, <2>1, <1>3, <1>9, NextIsFirst
  <2>3. \A t \in Client : pc[t] = "free" => t # c
    BY <1>5
  <2> QED
    BY <2>1, <2>2, <2>3, <1>1, <1>2, <1>4, <1>5, <1>11, <1>12 DEF Kept, Loops, Deletes
<1> QED
  BY <1>14, <1>16, <1>17, <1>18, <1>19, <1>20 DEF ListInv

LEMMA ListNextStep ==
    ASSUME ListInv, [Server!Next]_(Server!vars)
    PROVE  ListInv'
<1>1. CASE UNCHANGED Server!vars
  <2>1. UNCHANGED <<pc, who, inbox, course, client_fd, fd, databuf, next, freed, cut, walk, alive, crossed>>
    BY <1>1 DEF Server!vars, Server!clients, Server!login, Server!users
  <2>2. ListType' /\ Ranks' /\ Newcomers'
    BY <2>1 DEF ListInv, ListType, Ranks, Ordered, Newcomers, Fresh
  <2>3. Walks' /\ Calm'
    BY <2>1 DEF ListInv, Walks, Calm, AllThere
  <2>4. Kept'
    BY <2>1 DEF ListInv, Kept
  <2> QED
    BY <2>2, <2>3, <2>4 DEF ListInv
<1>2. CASE Server!Next
  <2>1. ASSUME NEW p \in Server!Process,
               Server!Count(p) \/ Server!SendNext(p) \/ Server!MoveOn(p) \/ Server!WalkEnds(p)
        PROVE  ListInv'
    BY <2>1, ListCount, ListSendNext, ListMoveOn, ListWalkEnds
  <2>2. ASSUME NEW c \in Client,
               Server!Accept(c) \/ Server!Say(c) \/ Server!client_quit(c) \/ Server!Vanish(c)
        PROVE  ListInv'
    BY <2>2, ListAccept, ListSay, ListQuit, ListVanish
  <2>3. ASSUME NEW c \in Client, Server!Step(c) PROVE ListInv'
    BY <2>3, ListStart, ListRecv, ListSearch, ListDeliver, ListFind, ListTake, ListAfter,
       ListCutStep, ListFree DEF Server!Step
  <2> QED
    BY <1>2, <2>1, <2>2, <2>3, ListRecvLogin, ListAnswer, ListLink, ListLinkHead, ListSpawn
    DEF Server!Next
<1> QED
  BY <1>1, <1>2

\* a loop that nothing disturbed and that has no send left has reached all
LEMMA ListReaches == ListInv => Server!WalksReach
<1> SUFFICES ASSUME ListInv PROVE Server!WalksReach
  OBVIOUS
<1> USE ListConstants
<1>1. next \in Links /\ Walks /\ Calm
  BY DEF ListInv, ListType
<1>2. ASSUME NEW p \in Server!Process, pc[p] = "walk", walk[p].left = 0, walk[p].steady
      PROVE  walk[p].due = walk[p].reached
  <2>1. Going(next, walk[p])
    BY <1>1, <1>2 DEF Walks, Right
  <2>2. PICK a \in ListNode : a = walk[p].at
    BY <2>1, <1>2 DEF Going
  <2>3. PICK B : B = Server!Behind(next, a)
    OBVIOUS
  <2>4. /\ walk[p].due \ walk[p].reached = B /\ walk[p].reached \subseteq walk[p].due
        /\ Cardinality(B) = 0
    BY <2>1, <2>2, <2>3, <1>2 DEF Going
  <2>5. B = {}
    <3>1. IsFiniteSet(B)
      BY <2>3, <1>1, BehindFacts, FS_Subset, RoomsAssumption
    <3> QED
      BY <3>1, <2>4, FS_EmptySet
  <2> QED
    BY <2>4, <2>5
<1>3. alive \/ \E c \in Client : who[c] = "gone"
  BY <1>1 DEF Calm, AllThere
<1> QED
  BY <1>2, <1>3 DEF Server!WalksReach

LEMMA ListKeeps == ListInv => Server!UsersKept
<1> SUFFICES ASSUME ListInv, ~crossed PROVE Server!UsersKept
  BY DEF Server!UsersKept
<1>1. Kept /\ next \in Links
  BY DEF ListInv, ListType
<1>2. Server!Behind(next, Ulist) \subseteq Client
  BY <1>1, BehindFacts DEF ListNode
<1> QED
  BY <1>1, <1>2 DEF Kept, Server!UsersKept, Server!Listed

LEMMA ListAlways == Spec => [](program = "server" => ListInv)
<1> DEFINE I == program = "server" => ListInv
<1>1. Init => I
  BY ListInitially DEF Init
<1>2. I /\ [Next]_vars => I'
  <2> SUFFICES ASSUME I, [Next]_vars, program' = "server" PROVE ListInv'
    OBVIOUS
  <2>1. program = "server" /\ [Server!Next]_(Server!vars)
    BY DEF Next, vars, Server!vars, Server!users, Server!clients, Server!login
  <2> QED
    BY <2>1, ListNextStep
<1> QED
  BY <1>1, <1>2, PTL DEF Spec

(***************************************************************************)
(* In the threaded room, data for all reach every user that the sender     *)
(* counted, unless a pointer was written that its loop had still to        *)
(* follow, though each is read on its own, without a lock; and the server  *)
(* ends only when a client has left (chat/server.c:164).                   *)
(***************************************************************************)
THEOREM AlwaysReachesAll == Spec => []WalksReach
<1>1. (program = "server" => ListInv) => WalksReach
  BY ListReaches DEF WalksReach
<1> QED
  BY <1>1, ListAlways, PTL

(***************************************************************************)
(* Until main copies a number over or a pointer of the list is written     *)
(* from what had changed since it was read, which is what crossed stands   *)
(* for, who is logged in is in the list, the list has no freed node, and   *)
(* every thread serves its own client (chat/server.c:79, :394).            *)
(***************************************************************************)
THEOREM AlwaysKeepsUsers == Spec => []UsersKept
<1>1. (program = "server" => ListInv) => UsersKept
  BY ListKeeps DEF UsersKept
<1> QED
  BY <1>1, ListAlways, PTL
=============================================================================
