------------------------ MODULE SelectRelay_proofs --------------------------
(***************************************************************************)
(* The relay server's table of slots, for every number of clients, slots   *)
(* and descriptors: its loops reach every client, it always has room, and  *)
(* the server reads only what select reported.                             *)
(***************************************************************************)
EXTENDS SelectRelay, TLAPS, FiniteSetTheorems, SequenceTheorems, NaturalsInduction

Types ==
    /\ clientSockets \in [Slot -> [id : Int, connectFd : Fd \cup {-1}]]
    /\ currentClients \in Nat /\ clientIndex \in Nat \cup {-1}
    /\ maxfd \in listenfd .. LastFd
    /\ allset \in SUBSET Fd
    /\ fdt \in [Fd -> SUBSET Client]
    /\ state \in [Client -> {"new", "backlog", "open", "gone"}]

\* ids and descriptors grow no further than their bounds, and a free slot has none
Bounded == \A s \in Slot : IF Taken(s) THEN /\ clientSockets[s].id \in 0 .. clientIndex
                                            /\ clientSockets[s].connectFd <= maxfd
                                       ELSE clientSockets[s].id = -1

\* a number belongs to one client at most, which is open, and a client to one number
Owners ==
    /\ \A f \in Fd : \A c \in fdt[f] : state[c] = "open"
    /\ \A f, g \in Fd : \A c \in fdt[f], d \in fdt[g] : f = g <=> c = d

TableInv == Types /\ Bounded /\ Owners /\ SlotsCounted /\ SlotsScanned /\ OneSlotEach

-----------------------------------------------------------------------------
\* Numbers have least elements.
LEMMA MinFacts ==
    ASSUME NEW S \in SUBSET Nat, S # {}
    PROVE  Min(S) \in S /\ \A y \in S : Min(S) <= y
<1>1. PICK m \in S : \A y \in S : ~(<<y, m>> \in OpToRel(<, Nat))
  BY NatLessThanWellFounded, WFMin
<1>2. ASSUME NEW y \in S, y < m PROVE FALSE
  <2>1. <<y, m>> \in OpToRel(<, Nat)
    BY <1>2 DEF OpToRel
  <2> QED
    BY <2>1, <1>1
<1>3. \A y \in S : m <= y
  BY <1>2
<1> QED
  BY <1>3 DEF Min

\* The slots are too few to hold all of them and leave a number free.
LEMMA Room ==
    ASSUME TableInv
    PROVE  TableHasRoom
<1> SUFFICES ASSUME NEW f \in FreeFds, FreeSlots = {} PROVE FALSE
  BY DEF TableHasRoom
<1> DEFINE T == Fd \ {f}
           g == [s \in Slot |-> clientSockets[s].connectFd]
<1>1. \A s \in Slot : Taken(s) /\ clientSockets[s].connectFd \in Fd
  BY NumbersAssumption DEF FreeSlots, Taken, TableInv, Types
<1>2. \A s \in Slot : clientSockets[s].connectFd \in T
  BY <1>1 DEF TableInv, OneSlotEach, FreeFds
<1>3. \A s, t \in Slot : g[s] = g[t] => s = t
  BY <1>1 DEF TableInv, OneSlotEach
<1>4. g \in Injection(Slot, T)
  BY <1>2, <1>3 DEF Injection, IsInjective
<1>5. IsFiniteSet(Fd) /\ Cardinality(Fd) = LastFd - listenfd
  BY FS_Interval, NumbersAssumption DEF Fd
<1>6. IsFiniteSet(T) /\ Cardinality(T) = LastFd - listenfd - 1
  BY <1>5, FS_RemoveElement DEF FreeFds
<1>7. Cardinality(Slot) = FD_SETSIZE
  BY FS_Interval, NumbersAssumption DEF Slot
<1>8. Cardinality(Slot) <= Cardinality(T)
  <2> HIDE DEF g, T
  <2> QED
    BY <1>4, <1>6, FS_Injection
<1> QED
  BY <1>6, <1>7, <1>8, NumbersAssumption

\* A slot below which all are taken is below every limit that covers their numbers
\* and one more.
LEMMA Scanned ==
    ASSUME TableInv, NEW k \in Slot, \A s \in Slot : s < k => Taken(s),
           NEW f \in Fd, fdt[f] = {}
    PROVE  k < NewMax(f)
<1> DEFINE m == NewMax(f)
           S == 0 .. k - 1
           T == (listenfd + 1 .. m) \ {f}
           g == [s \in S |-> clientSockets[s].connectFd]
<1>1. m \in listenfd + 1 .. LastFd /\ f <= m /\ maxfd <= m
  BY NumbersAssumption DEF NewMax, Fd, TableInv, Types
<1>2. \A s \in S : s \in Slot /\ Taken(s)
  BY NumbersAssumption DEF Slot
<1>3. \A s \in S : clientSockets[s].connectFd \in T
  <2> SUFFICES ASSUME NEW s \in S PROVE clientSockets[s].connectFd \in T
    OBVIOUS
  <2>1. s \in Slot /\ Taken(s)
    BY <1>2
  <2>2. clientSockets[s].connectFd \in Fd
    BY <2>1 DEF Taken, TableInv, Types
  <2>3. clientSockets[s].connectFd # f
    BY <2>1 DEF TableInv, OneSlotEach
  <2>4. clientSockets[s].connectFd <= maxfd
    BY <2>1 DEF TableInv, Bounded
  <2> QED
    BY <2>2, <2>3, <2>4, <1>1, NumbersAssumption DEF Fd, TableInv, Types
<1>4. \A s, t \in S : g[s] = g[t] => s = t
  BY <1>2 DEF TableInv, OneSlotEach
<1>5. g \in Injection(S, T)
  BY <1>3, <1>4 DEF Injection, IsInjective
<1>6. IsFiniteSet(listenfd + 1 .. m) /\ Cardinality(listenfd + 1 .. m) = m - listenfd
  BY <1>1, FS_Interval, NumbersAssumption
<1>7. f \in listenfd + 1 .. m
  BY <1>1, NumbersAssumption DEF Fd
<1>8. IsFiniteSet(T) /\ Cardinality(T) = m - listenfd - 1
  <2> HIDE DEF m
  <2> QED
    BY <1>6, <1>7, FS_RemoveElement
<1>9. Cardinality(S) = k
  BY FS_Interval DEF Slot
<1>10. Cardinality(S) <= Cardinality(T)
  <2> HIDE DEF g, S, T
  <2> QED
    BY <1>5, <1>8, FS_Injection
<1> HIDE DEF m, S, T
<1>11. k < m
  BY <1>1, <1>8, <1>9, <1>10, NumbersAssumption DEF Slot
<1> QED
  BY <1>11 DEF m

-----------------------------------------------------------------------------
LEMMA TableInit == Init => TableInv
<1> SUFFICES ASSUME Init PROVE TableInv
  OBVIOUS
<1>1. Types
  BY NumbersAssumption DEF Init, Types, Free
<1>2. \A s \in Slot : ~Taken(s)
  BY DEF Init, Taken, Free
<1>3. OneSlotEach
  BY <1>2 DEF Init, OneSlotEach
<1>4. Bounded
  BY <1>2 DEF Init, Bounded, Free
<1> QED
  BY <1>1, <1>2, <1>3, <1>4 DEF Init, TableInv, Owners, SlotsCounted, SlotsScanned

\* Most steps leave the table alone.
LEMMA TableKept ==
    ASSUME TableInv, UNCHANGED <<table, fdt, state>>
    PROVE  TableInv'
BY DEF TableInv, table, Types, Bounded, Owners, SlotsCounted, SlotsScanned, OneSlotEach, Taken

LEMMA TableConnect ==
    ASSUME TableInv, NEW c \in Client, Connect(c)
    PROVE  TableInv'
<1>1. UNCHANGED <<table, fdt>> /\ state[c] = "new" /\ state' = [state EXCEPT ![c] = "backlog"]
  BY DEF Connect
<1>2. \A d \in Client : state[d] = "open" => state'[d] = "open"
  BY <1>1 DEF TableInv, Types
<1>3. Types'
  BY <1>1 DEF TableInv, Types, table
<1>4. Owners'
  BY <1>1, <1>2 DEF TableInv, Types, Owners
<1> QED
  BY <1>1, <1>3, <1>4
     DEF TableInv, table, Bounded, SlotsCounted, SlotsScanned, OneSlotEach, Taken

LEMMA TableAccept ==
    ASSUME TableInv, Accept
    PROVE  TableInv'
<1>a. PICK f : f = Min(FreeFds)
  OBVIOUS
<1>b. PICK k : k = FreeSlot
  OBVIOUS
<1>1. PICK c \in Client :
         /\ state[c] = "backlog"
         /\ state' = [state EXCEPT ![c] = "open"]
         /\ fdt' = [fdt EXCEPT ![f] = {c}]
         /\ clientSockets' = [clientSockets EXCEPT
                                ![k] = [id |-> clientIndex + 1, connectFd |-> f]]
         /\ maxfd' = NewMax(f)
         /\ allset' = allset \cup {f}
  BY <1>a, <1>b DEF Accept
<1>2. clientIndex' = clientIndex + 1 /\ currentClients' = currentClients + 1
  BY DEF Accept
<1>3. f \in Fd /\ fdt[f] = {}
  <2>1. FreeFds \in SUBSET Nat /\ FreeFds # {}
    BY NumbersAssumption DEF Accept, FreeFds, Fd
  <2>2. f \in FreeFds
    BY <2>1, <1>a, MinFacts
  <2> QED
    BY <2>2 DEF FreeFds
<1>4. k \in Slot /\ ~Taken(k) /\ \A s \in Slot : s < k => Taken(s)
  <2>1. FreeSlots \in SUBSET Nat /\ FreeSlots # {}
    BY DEF Accept, FreeSlots, Slot
  <2>2. k \in FreeSlots /\ \A s \in FreeSlots : k <= s
    BY <2>1, <1>b, MinFacts DEF FreeSlot
  <2>3. \A s \in Slot : Taken(s) <=> s \notin FreeSlots
    BY NumbersAssumption DEF FreeSlots, Taken, TableInv, Types, Fd
  <2>4. k \in Nat /\ \A s \in Slot : s \in Nat
    BY <2>2, NumbersAssumption DEF FreeSlots, Slot
  <2>5. \A s \in Slot : s < k => s \notin FreeSlots
    BY <2>2, <2>4
  <2> QED
    BY <2>2, <2>3, <2>5 DEF FreeSlots
<1>5. k < NewMax(f)
  BY <1>3, <1>4, Scanned
<1>6. f # -1 /\ f \in Nat /\ NewMax(f) \in listenfd .. LastFd /\ f <= NewMax(f) /\ maxfd <= NewMax(f)
  BY <1>3, NumbersAssumption DEF Fd, NewMax, TableInv, Types
<1>7. Types'
  BY <1>1, <1>2, <1>3, <1>4, <1>6 DEF TableInv, Types
<1>8. /\ clientSockets'[k] = [id |-> clientIndex + 1, connectFd |-> f]
      /\ \A s \in Slot : s # k => clientSockets'[s] = clientSockets[s]
  BY <1>1, <1>4 DEF TableInv, Types
<1>9. Taken(k)' /\ \A s \in Slot : s # k => (Taken(s)' <=> Taken(s))
  <2>1. Taken(k)'
    BY <1>6, <1>8 DEF Taken
  <2> QED
    BY <2>1, <1>8 DEF Taken
<1>10. Bounded'
  <2> DEFINE B(s) == clientSockets'[s].id \in 0 .. clientIndex' /\ clientSockets'[s].connectFd <= maxfd'
  <2>3. \A s \in Slot : ~Taken(s)' => clientSockets'[s].id = -1
    BY <1>8, <1>9 DEF TableInv, Bounded
  <2> SUFFICES ASSUME NEW s \in Slot, Taken(s)' PROVE B(s)
    BY <2>3 DEF Bounded
  <2>1. CASE s = k
    BY <2>1, <1>1, <1>2, <1>6, <1>8 DEF TableInv, Types
  <2>2. CASE s # k
    <3>1. clientSockets[s].id \in 0 .. clientIndex /\ clientSockets[s].connectFd <= maxfd
      BY <2>2, <1>9 DEF TableInv, Bounded
    <3>2. /\ clientSockets[s].id \in Int /\ clientIndex \in Int /\ maxfd \in Int
          /\ clientSockets[s].connectFd \in Int /\ NewMax(f) \in Int
      BY <1>6, NumbersAssumption DEF TableInv, Types, Fd
    <3> QED
      BY <2>2, <3>1, <3>2, <1>1, <1>2, <1>6, <1>8
  <2> QED
    BY <2>1, <2>2
<1>11. Owners'
  <2>1. \A g \in Fd : c \notin fdt[g]
    BY <1>1 DEF TableInv, Owners
  <2>2. fdt'[f] = {c} /\ \A g \in Fd : g # f => fdt'[g] = fdt[g]
    BY <1>1, <1>3 DEF TableInv, Types
  <2>3. state'[c] = "open" /\ \A d \in Client : d # c => state'[d] = state[d]
    BY <1>1 DEF TableInv, Types
  <2>4. \A g \in Fd : \A d \in fdt'[g] : state'[d] = "open"
    BY <2>1, <2>2, <2>3 DEF TableInv, Owners, Types
  <2>5. \A g, h \in Fd : \A d \in fdt'[g], e \in fdt'[h] : g = h <=> d = e
    BY <2>1, <2>2 DEF TableInv, Owners
  <2> QED
    BY <2>4, <2>5 DEF Owners
<1>12. k < currentClients + 1
  <2>1. CASE k = 0
    BY <2>1 DEF TableInv, Types
  <2>2. CASE k # 0
    <3>1. k - 1 \in Slot /\ k - 1 < k
      BY <2>2, <1>4, NumbersAssumption DEF Slot
    <3>2. k - 1 < currentClients
      BY <3>1, <1>4 DEF TableInv, SlotsCounted
    <3> QED
      BY <3>1, <3>2, <1>4 DEF Slot, TableInv, Types
  <2> QED
    BY <2>1, <2>2
<1>13. SlotsCounted'
  BY <1>2, <1>9, <1>12 DEF TableInv, Types, SlotsCounted, Slot
<1>14. SlotsScanned'
  <2> SUFFICES ASSUME NEW s \in Slot, Taken(s)' PROVE s < NewMax(f)
    BY <1>1 DEF SlotsScanned
  <2>1. CASE s = k
    BY <2>1, <1>5
  <2>2. CASE s # k
    <3>1. s < maxfd
      BY <2>2, <1>9 DEF TableInv, SlotsScanned
    <3> QED
      BY <3>1, <1>6, NumbersAssumption DEF Slot, TableInv, Types
  <2> QED
    BY <2>1, <2>2
<1>15. OneSlotEach'
  <2>1. \A s \in Slot : Taken(s) => clientSockets[s].connectFd # f
    BY <1>3 DEF TableInv, OneSlotEach
  <2>2. allset' = {clientSockets'[s].connectFd : s \in {t \in Slot : Taken(t)'}}
    <3> DEFINE Fds == {clientSockets[s].connectFd : s \in {t \in Slot : Taken(t)}}
               Fds2 == {clientSockets'[s].connectFd : s \in {t \in Slot : Taken(t)'}}
    <3>1. allset = Fds
      BY DEF TableInv, OneSlotEach
    <3>2. \A x : x \in Fds => x \in Fds2
      BY <1>4, <1>8, <1>9
    <3>3. f \in Fds2
      BY <1>4, <1>8, <1>9
    <3>4. \A x : x \in Fds2 => x \in Fds \/ x = f
      BY <1>4, <1>8, <1>9
    <3> QED
      BY <1>1, <3>1, <3>2, <3>3, <3>4
  <2>3. allset' = {g \in Fd : fdt'[g] # {}}
    BY <1>1, <1>3 DEF TableInv, Types, OneSlotEach
  <2>4. \A s \in Slot : Taken(s) => clientSockets[s].id # clientIndex + 1
    BY DEF TableInv, Bounded, Types
  <2>5. ASSUME NEW s \in Slot, NEW t \in Slot, s # t, Taken(s)'
        PROVE  /\ clientSockets'[s].connectFd # clientSockets'[t].connectFd
               /\ clientSockets'[s].id # clientSockets'[t].id
    <3> DEFINE A(x, y) == /\ clientSockets[x].connectFd # clientSockets[y].connectFd
                          /\ clientSockets[x].id # clientSockets[y].id
    <3>1. CASE s # k /\ t # k
      BY <2>5, <3>1, <1>8, <1>9 DEF TableInv, OneSlotEach
    <3>2. CASE t = k
      BY <2>5, <3>2, <2>1, <2>4, <1>8, <1>9
    <3>3. CASE s = k
      <4>1. clientSockets'[t] = clientSockets[t]
        BY <2>5, <3>3, <1>8
      <4>2. CASE Taken(t)
        BY <3>3, <4>1, <4>2, <2>1, <2>4, <1>8
      <4>3. CASE ~Taken(t)
        BY <3>3, <4>1, <4>3, <1>6, <1>8 DEF Taken, TableInv, Bounded, Types
      <4> QED
        BY <4>2, <4>3
    <3> QED
      BY <3>1, <3>2, <3>3
  <2> QED
    BY <2>2, <2>3, <2>5 DEF OneSlotEach
<1> QED
  BY <1>7, <1>10, <1>11, <1>13, <1>14, <1>15 DEF TableInv

\* The client of a number is the only one it has.
LEMMA PeerFacts ==
    ASSUME TableInv, NEW s \in Slot, Taken(s)
    PROVE  LET f == clientSockets[s].connectFd IN
           f \in Fd /\ Peer(f) \in Client /\ fdt[f] = {Peer(f)}
<1> DEFINE f == clientSockets[s].connectFd
<1>1. f \in Fd /\ f \in allset
  BY DEF TableInv, Types, Taken, OneSlotEach
<1>2. PICK c \in Client : c \in fdt[f]
  BY <1>1 DEF TableInv, Types, OneSlotEach
<1>3. fdt[f] = {c}
  BY <1>1, <1>2 DEF TableInv, Types, Owners
<1> QED
  BY <1>1, <1>3 DEF Peer

LEMMA InLoopFacts ==
    ASSUME TableInv, i \in Nat, InLoop
    PROVE  i \in Slot
BY NumbersAssumption DEF InLoop, TableInv, Types, Slot

LEMMA TableDrop ==
    ASSUME TableInv, i \in Nat, Drop
    PROVE  TableInv'
<1>a. PICK k : k = i
  OBVIOUS
<1>b. PICK f : f = Here
  OBVIOUS
<1>c. PICK c : c = Peer(Here)
  OBVIOUS
<1>1. k \in Slot /\ Taken(k) /\ f = clientSockets[k].connectFd
  BY <1>a, <1>b, InLoopFacts DEF Drop, Here, Taken
<1>2. f \in Fd /\ c \in Client /\ fdt[f] = {c}
  BY <1>1, <1>b, <1>c, PeerFacts
<1>3. /\ state' = [state EXCEPT ![c] = "gone"]
      /\ fdt' = [fdt EXCEPT ![f] = {}]
      /\ allset' = allset \ {f}
      /\ clientSockets' = [clientSockets EXCEPT ![k] = Free]
      /\ UNCHANGED <<currentClients, clientIndex, maxfd>>
  BY <1>a, <1>b, <1>c DEF Drop, Watched, Emptied
<1>4. Types'
  BY <1>1, <1>2, <1>3 DEF TableInv, Types, Free
<1>5. clientSockets'[k] = Free /\ \A s \in Slot : s # k => clientSockets'[s] = clientSockets[s]
  BY <1>1, <1>3 DEF TableInv, Types
<1>6. ~Taken(k)' /\ \A s \in Slot : s # k => (Taken(s)' <=> Taken(s))
  BY <1>5 DEF Taken, Free
<1>7. Bounded'
  <2>1. clientSockets'[k].id = -1
    BY <1>5 DEF Free
  <2> QED
    BY <2>1, <1>3, <1>5, <1>6 DEF TableInv, Bounded
<1>8. fdt'[f] = {} /\ \A g \in Fd : g # f => fdt'[g] = fdt[g]
  BY <1>2, <1>3 DEF TableInv, Types
<1>9. Owners'
  <2>1. \A g \in Fd : g # f => c \notin fdt[g]
    BY <1>2 DEF TableInv, Owners
  <2>2. \A d \in Client : d # c => state'[d] = state[d]
    BY <1>3 DEF TableInv, Types
  <2>3. \A g \in Fd : \A d \in fdt'[g] : state'[d] = "open"
    BY <1>8, <2>1, <2>2 DEF TableInv, Owners, Types
  <2>4. \A g, h \in Fd : \A d \in fdt'[g], e \in fdt'[h] : g = h <=> d = e
    BY <1>8 DEF TableInv, Owners
  <2> QED
    BY <2>3, <2>4 DEF Owners
<1>10. SlotsCounted' /\ SlotsScanned'
  BY <1>3, <1>6 DEF TableInv, SlotsCounted, SlotsScanned
<1>11. OneSlotEach'
  <2> DEFINE Fds == {clientSockets[s].connectFd : s \in {t \in Slot : Taken(t)}}
             Fds2 == {clientSockets'[s].connectFd : s \in {t \in Slot : Taken(t)'}}
  <2>1. allset = Fds
    BY DEF TableInv, OneSlotEach
  <2>2. \A s \in Slot : (s # k /\ Taken(s)) => clientSockets[s].connectFd # f
    BY <1>1 DEF TableInv, OneSlotEach
  <2>3. \A x : x \in Fds /\ x # f => x \in Fds2
    BY <1>1, <1>5, <1>6
  <2>4. \A x : x \in Fds2 => x \in Fds /\ x # f
    BY <2>2, <1>5, <1>6
  <2>5. allset' = Fds2
    BY <1>3, <2>1, <2>3, <2>4
  <2>6. allset' = {g \in Fd : fdt'[g] # {}}
    BY <1>3, <1>8 DEF TableInv, OneSlotEach
  <2>7. ASSUME NEW s \in Slot, NEW t \in Slot, s # t, Taken(s)'
        PROVE  /\ clientSockets'[s].connectFd # clientSockets'[t].connectFd
               /\ clientSockets'[s].id # clientSockets'[t].id
    <3>1. s # k /\ Taken(s) /\ clientSockets'[s] = clientSockets[s]
      BY <2>7, <1>5, <1>6
    <3>2. CASE t # k
      BY <2>7, <3>1, <3>2, <1>5 DEF TableInv, OneSlotEach
    <3>3. CASE t = k
      <4>1. clientSockets[s].connectFd # -1
        BY <3>1 DEF Taken
      <4>3. clientSockets[s].id # -1
        BY <3>1 DEF TableInv, Bounded
      <4> QED
        BY <3>1, <3>3, <4>1, <4>3, <1>5 DEF Free
    <3> QED
      BY <3>2, <3>3
  <2> QED
    BY <2>5, <2>6, <2>7 DEF OneSlotEach
<1> QED
  BY <1>4, <1>7, <1>9, <1>10, <1>11 DEF TableInv

\* The steps of clients, of the operator, and of the server that do not touch the
\* table.
LEMMA KeptActions ==
    ASSUME Select \/ AcceptFails \/ Terminal \/ Skip \/ Relay \/ HandleDone
             \/ (\E c \in Client : Send(c) \/ Leave(c) \/ ResetArrives(c))
             \/ (\E k \in Key : Type(k)) \/ UNCHANGED vars
    PROVE  UNCHANGED <<table, fdt, state>>
BY DEF Select, AcceptFails, Terminal, Skip, Relay, HandleDone, Send, Leave, ResetArrives, Type,
       vars, clients, table

LEMMA TableNext == TableInv /\ i \in Nat /\ [Next]_vars => TableInv'
<1> SUFFICES ASSUME TableInv, i \in Nat, [Next]_vars PROVE TableInv'
  OBVIOUS
<1> QED
  BY TableKept, KeptActions, TableConnect, TableAccept, TableDrop DEF Next, Server

-----------------------------------------------------------------------------
\* What select reported is readable until handle has come to it.
Reading ==
    /\ i \in Nat
    /\ pend \in [Client -> Nat] /\ fin \in [Client -> BOOLEAN] /\ rst \in [Client -> BOOLEAN]
    /\ pc \in {"accept", "stdin"} => \A f \in Fd : f \in rset => Readable(f)
    /\ pc = "handle" => \A s \in Slot :
          (s >= i /\ Taken(s) /\ clientSockets[s].connectFd \in rset) =>
              Readable(clientSockets[s].connectFd)

IInv == TableInv /\ Reading

\* Numbers stay readable when clients send, leave or are reset.
LEMMA ReadingClients ==
    ASSUME IInv, NEW c \in Client,
           Connect(c) \/ Send(c) \/ Leave(c) \/ ResetArrives(c)
    PROVE  Reading'
<1>1. UNCHANGED <<table, fdt, i, pc, rset>>
  BY DEF Connect, Send, Leave, ResetArrives
<1>2. /\ pend' \in [Client -> Nat] /\ fin' \in [Client -> BOOLEAN] /\ rst' \in [Client -> BOOLEAN]
      /\ \A d \in Client : /\ pend[d] > 0 => pend'[d] > 0
                           /\ fin[d] => fin'[d]
                           /\ rst[d] => rst'[d]
  <2>1. CASE Send(c)
    BY <2>1 DEF Send, IInv, Reading
  <2>2. CASE Leave(c)
    BY <2>2 DEF Leave, IInv, Reading
  <2>3. CASE ResetArrives(c)
    BY <2>3 DEF ResetArrives, IInv, Reading
  <2>4. CASE Connect(c)
    BY <2>4 DEF Connect, IInv, Reading
  <2> QED
    BY <2>1, <2>2, <2>3, <2>4
<1>3. \A f \in Fd : Readable(f) => Readable(f)'
  <2> SUFFICES ASSUME NEW f \in Fd, NEW d \in fdt[f], pend[d] > 0 \/ fin[d] \/ rst[d]
               PROVE  Readable(f)'
    BY DEF Readable
  <2>1. d \in Client
    BY DEF IInv, TableInv, Types
  <2>2. pend'[d] > 0 \/ fin'[d] \/ rst'[d]
    BY <1>2, <2>1
  <2>3. d \in fdt'[f]
    BY <1>1
  <2> QED
    BY <2>2, <2>3 DEF Readable
<1>4. \A s \in Slot : Taken(s) => clientSockets[s].connectFd \in Fd
  BY DEF IInv, TableInv, Types, Taken
<1> QED
  BY <1>1, <1>2, <1>3, <1>4 DEF IInv, Reading, table, Taken

LEMMA ReadingSelect == ASSUME IInv, Select PROVE Reading'
<1>1. \A f \in Fd : f \in rset' => Readable(f)
  BY NumbersAssumption DEF Select, Reported, Ready, Fd, Listen, Stdin
<1>2. UNCHANGED <<pend, fin, rst, fdt, i>> /\ pc' \in {"accept", "stdin"}
  BY DEF Select, clients
<1> QED
  BY <1>1, <1>2 DEF IInv, Reading, Readable

LEMMA ReadingAccept == ASSUME IInv, Accept PROVE Reading'
<1>a. PICK f : f = Min(FreeFds)
  OBVIOUS
<1>1. PICK c \in Client : fdt' = [fdt EXCEPT ![f] = {c}]
  BY <1>a DEF Accept
<1>2. UNCHANGED <<pend, fin, rst, i, rset>> /\ pc' \in {"select", "stdin"} /\ pc = "accept"
  BY DEF Accept
<1>3. f \in Fd /\ fdt[f] = {}
  <2>1. FreeFds \in SUBSET Nat /\ FreeFds # {}
    BY NumbersAssumption DEF Accept, FreeFds, Fd
  <2>2. f \in FreeFds
    BY <2>1, <1>a, MinFacts
  <2> QED
    BY <2>2 DEF FreeFds
<1>4. \A g \in Fd : g \in rset => g # f /\ Readable(g)
  BY <1>2, <1>3 DEF IInv, Reading, Readable
<1>5. \A g \in Fd : g # f => fdt'[g] = fdt[g]
  BY <1>1 DEF IInv, TableInv, Types
<1>6. \A g \in Fd : g \in rset => Readable(g)'
  BY <1>2, <1>4, <1>5 DEF Readable
<1> QED
  BY <1>2, <1>6 DEF IInv, Reading

LEMMA ReadingTerminal == ASSUME IInv, Terminal PROVE Reading'
<1>1. UNCHANGED <<pend, fin, rst, fdt, table, rset>> /\ i' = 0 /\ pc = "stdin"
  BY DEF Terminal, clients
<1>2. \A f \in Fd : f \in rset' => Readable(f)'
  BY <1>1 DEF IInv, Reading, Readable
<1>3. \A s \in Slot : Taken(s)' => clientSockets'[s].connectFd \in Fd
  BY <1>1 DEF IInv, TableInv, Types, Taken, table
<1> QED
  BY <1>1, <1>2, <1>3 DEF IInv, Reading, Terminal

LEMMA ReadingSkip == ASSUME IInv, Skip PROVE Reading'
<1>1. UNCHANGED <<pend, fin, rst, fdt, table, rset, pc>> /\ i' = i + 1 /\ pc = "handle"
  BY DEF Skip, InLoop, clients
<1>2. \A s \in Slot : s >= i + 1 => s >= i
  BY NumbersAssumption DEF IInv, Reading, Slot
<1> QED
  BY <1>1, <1>2 DEF IInv, Reading, Readable, Taken, table

\* The rest of the slots is as it was when handle drops a client or reads from it.
LEMMA ReadingRead ==
    ASSUME IInv, Drop \/ Relay
    PROVE  Reading'
<1>a. PICK k : k = i
  OBVIOUS
<1>b. PICK f : f = Here
  OBVIOUS
<1>c. PICK c : c = Peer(Here)
  OBVIOUS
<1>1. k \in Slot /\ Taken(k) /\ f = clientSockets[k].connectFd
  BY <1>a, <1>b, InLoopFacts DEF IInv, Reading, Drop, Relay, Here, Taken
<1>2. f \in Fd /\ c \in Client /\ fdt[f] = {c}
  BY <1>1, <1>b, <1>c, PeerFacts DEF IInv
<1>3. UNCHANGED <<fin, rst, rset>> /\ i' = i + 1 /\ pc = "handle"
  BY DEF Drop, Relay, InLoop
<1>4. /\ pend' \in [Client -> Nat]
      /\ \A d \in Client : d # c => pend'[d] = pend[d]
  <2>1. CASE Drop
    BY <2>1 DEF Drop, IInv, Reading
  <2>2. CASE Relay
    <3>1. PICK n \in 1 .. pend[c] : pend' = [pend EXCEPT ![c] = @ - n]
      BY <2>2, <1>c DEF Relay
    <3> QED
      BY <3>1, <1>2 DEF IInv, Reading
  <2> QED
    BY <2>1, <2>2
<1>5. \A g \in Fd : g # f => fdt'[g] = fdt[g]
  <2>1. CASE Drop
    BY <2>1, <1>b DEF Drop, IInv, TableInv, Types
  <2>2. CASE Relay
    BY <2>2 DEF Relay
  <2> QED
    BY <2>1, <2>2
<1>6. \A s \in Slot : s # k => clientSockets'[s] = clientSockets[s]
  <2>1. CASE Drop
    BY <2>1, <1>a DEF Drop, IInv, TableInv, Types
  <2>2. CASE Relay
    BY <2>2 DEF Relay, table
  <2> QED
    BY <2>1, <2>2
<1>7. ASSUME NEW s \in Slot, s >= i + 1, Taken(s)', clientSockets'[s].connectFd \in rset
      PROVE  Readable(clientSockets[s].connectFd)'
  <2>1. s # k /\ s >= i
    BY <1>7, <1>a, NumbersAssumption DEF IInv, Reading, Slot
  <2>2. clientSockets'[s] = clientSockets[s] /\ Taken(s)
    BY <2>1, <1>6, <1>7 DEF Taken
  <2>3. PICK g : g = clientSockets[s].connectFd
    OBVIOUS
  <2>4. g \in Fd /\ g # f
    BY <1>1, <2>1, <2>2, <2>3 DEF IInv, TableInv, Types, Taken, OneSlotEach
  <2>5. Readable(g)
    BY <1>3, <1>7, <2>1, <2>2, <2>3 DEF IInv, Reading
  <2>6. PICK d \in fdt[g] : pend[d] > 0 \/ fin[d] \/ rst[d]
    BY <2>5 DEF Readable
  <2>7. d \in Client /\ d # c
    BY <2>4, <1>2, <2>6 DEF IInv, TableInv, Types, Owners
  <2>8. d \in fdt'[g] /\ (pend'[d] > 0 \/ fin'[d] \/ rst'[d])
    BY <1>3, <1>4, <1>5, <2>4, <2>6, <2>7
  <2>9. Readable(g)'
    BY <2>8 DEF Readable
  <2>10. g = clientSockets'[s].connectFd
    BY <2>2, <2>3
  <2> QED
    BY <2>9, <2>10 DEF Readable
<1>8. pc' # "accept" /\ pc' # "stdin"
  BY <1>3 DEF Drop, Relay
<1>9. i' \in Nat
  <2>1. i \in Nat
    BY DEF IInv, Reading
  <2> QED
    BY <2>1, <1>3
<1>10. fin' \in [Client -> BOOLEAN] /\ rst' \in [Client -> BOOLEAN] /\ pend' \in [Client -> Nat]
  BY <1>3, <1>4 DEF IInv, Reading
<1>11. ASSUME NEW s \in Slot, s >= i', Taken(s)', (clientSockets[s].connectFd \in rset)'
       PROVE  Readable(clientSockets[s].connectFd)'
  BY <1>3, <1>7, <1>11
<1> QED
  BY <1>8, <1>9, <1>10, <1>11 DEF Reading

LEMMA ReadingOther ==
    ASSUME IInv, AcceptFails \/ HandleDone \/ (\E k \in Key : Type(k)) \/ UNCHANGED vars
    PROVE  Reading'
<1>1. UNCHANGED <<pend, fin, rst, fdt, table, rset, i>>
  BY DEF AcceptFails, HandleDone, Type, vars, clients
<1>2. pc' = pc \/ pc' \notin {"accept", "stdin", "handle"}
  BY DEF AcceptFails, HandleDone, Type, vars
<1> QED
  BY <1>1, <1>2 DEF IInv, Reading, Readable, Taken, table

LEMMA IInvNext == IInv /\ [Next]_vars => IInv'
<1> SUFFICES ASSUME IInv, [Next]_vars PROVE IInv'
  OBVIOUS
<1>1. TableInv'
  BY TableNext DEF IInv, Reading
<1>2. Reading'
  BY ReadingClients, ReadingSelect, ReadingAccept, ReadingTerminal, ReadingSkip, ReadingRead,
     ReadingOther DEF Next, Server
<1> QED
  BY <1>1, <1>2 DEF IInv

LEMMA IInvInit == Init => IInv
<1> SUFFICES ASSUME Init PROVE IInv
  OBVIOUS
<1>1. Reading
  BY DEF Init, Reading
<1> QED
  BY <1>1, TableInit DEF IInv

LEMMA SpecIInv == Spec => []IInv
  BY IInvInit, IInvNext, PTL DEF Spec

-----------------------------------------------------------------------------
\* The writing loop, which stops at currentClients, reaches every client, for any
\* number of clients and slots and any order of coming and going.
THEOREM AllAreWritten == Spec => []SlotsCounted
<1>1. IInv => SlotsCounted
  BY DEF IInv, TableInv
<1> QED
  BY <1>1, SpecIInv, PTL

\* The reading loop, which stops at the largest descriptor, reaches every slot that
\* is taken.
THEOREM AllAreRead == Spec => []SlotsScanned
<1>1. IInv => SlotsScanned
  BY DEF IInv, TableInv
<1> QED
  BY <1>1, SpecIInv, PTL

\* Slots, open descriptors and the watched set correspond one to one, and ids are
\* unique.
THEOREM TableIsRight == Spec => []OneSlotEach
<1>1. IInv => OneSlotEach
  BY DEF IInv, TableInv
<1> QED
  BY <1>1, SpecIInv, PTL

\* The table is never full while the process can accept.
THEOREM NeverTooMany == Spec => []TableHasRoom
<1>1. IInv => TableHasRoom
  BY Room DEF IInv
<1> QED
  BY <1>1, SpecIInv, PTL

\* Slots, counters, descriptors and the watched set fit together for ever.
THEOREM TableAlwaysRight == Spec => []TableRight
<1>1. SlotsCounted /\ SlotsScanned /\ OneSlotEach /\ TableHasRoom => TableRight
  BY DEF TableRight
<1> QED
  BY <1>1, AllAreWritten, AllAreRead, TableIsRight, NeverTooMany, PTL

\* handle never reads from a socket that has nothing for it.
THEOREM NeverBlocksInRead == Spec => []ReadsOnlyReady
<1>1. IInv => ReadsOnlyReady
  <2> SUFFICES ASSUME IInv, InLoop, Here # -1, Here \in rset PROVE Readable(Here)
    BY DEF ReadsOnlyReady
  <2>1. i \in Slot /\ i \in Nat /\ Taken(i) /\ pc = "handle"
    BY InLoopFacts DEF IInv, Reading, Here, Taken, InLoop
  <2> QED
    BY <2>1 DEF IInv, Reading, Here
<1> QED
  BY <1>1, SpecIInv, PTL

-----------------------------------------------------------------------------
(***************************************************************************)
(* What the clients are written, and how the server ends.                  *)
(***************************************************************************)

\* An open client has a number, and nobody was written anything before that.
Records ==
    /\ log \in Seq(Client) /\ inbox \in [Client -> Seq(Client)] /\ joined \in [Client -> Nat]
    /\ \A c \in Client : joined[c] <= Len(log)
    /\ \A c \in Client : state[c] \in {"new", "backlog"} => inbox[c] = << >>
    /\ \A c \in Client : state[c] = "open" => \E f \in Fd : c \in fdt[f]
    /\ currentClients = clientIndex + 1

WrittenTo(c) ==
    /\ Len(inbox[c]) = Cardinality(For(c, Len(log)))
    /\ \A m \in For(c, Len(log)) : inbox[c][Cardinality(For(c, m))] = log[m]

Written == \A c \in Client : state[c] = "open" => WrittenTo(c)

RInv == IInv /\ Records /\ Written /\ EndsRightly

\* t is s and a chunk of k messages from one client.
Chunked(t, s, k, c) == t = s \o [m \in 1 .. k |-> c]

LEMMA ChunkAdded ==
    ASSUME NEW S, NEW s \in Seq(S), NEW c \in S, NEW k \in Nat, NEW t, Chunked(t, s, k, c)
    PROVE  /\ t \in Seq(S) /\ Len(t) = Len(s) + k
           /\ \A l \in 1 .. Len(s) : t[l] = s[l]
           /\ \A l \in Len(s) + 1 .. Len(s) + k : t[l] = c
<1> DEFINE chunk == [m \in 1 .. k |-> c]
<1>1. chunk \in Seq(S) /\ Len(chunk) = k /\ \A m \in 1 .. k : chunk[m] = c
  OBVIOUS
<1> HIDE DEF chunk
<1>2. /\ s \o chunk \in Seq(S) /\ Len(s \o chunk) = Len(s) + k
      /\ \A l \in 1 .. Len(s) + k : (s \o chunk)[l] =
                     IF l <= Len(s) THEN s[l] ELSE chunk[l - Len(s)]
  BY <1>1, ConcatProperties
<1>3. t = s \o chunk
  BY DEF Chunked, chunk
<1>4. Len(s) \in Nat
  BY LenProperties
<1>5. \A l \in 1 .. Len(s) + k : t[l] = IF l <= Len(s) THEN s[l] ELSE chunk[l - Len(s)]
  BY <1>2, <1>3
<1>6. \A l \in 1 .. Len(s) : t[l] = s[l]
  BY <1>4, <1>5
<1>7. ASSUME NEW l \in Len(s) + 1 .. Len(s) + k PROVE t[l] = c
  <2>1. l \in 1 .. Len(s) + k /\ ~(l <= Len(s)) /\ l - Len(s) \in 1 .. k
    BY <1>4
  <2> QED BY <2>1, <1>1, <1>5
<1>8. t \in Seq(S) /\ Len(t) = Len(s) + k
  BY <1>2, <1>3
<1> QED BY <1>6, <1>7, <1>8

\* The messages for a client are finitely many.
LEMMA ForFinite ==
    ASSUME Records, NEW c \in Client, NEW m \in Nat
    PROVE  /\ IsFiniteSet(For(c, m)) /\ Cardinality(For(c, m)) \in Nat
           /\ \A l \in For(c, m) : l \in joined[c] + 1 .. m /\ l \in Nat
<1>1. joined[c] \in Nat
  BY DEF Records
<1>2. For(c, m) \in SUBSET (joined[c] + 1 .. m) /\ joined[c] + 1 \in Int /\ m \in Int
  BY <1>1 DEF For
<1>3. IsFiniteSet(joined[c] + 1 .. m)
  BY <1>2, FS_Interval
<1>4. IsFiniteSet(For(c, m))
  BY <1>2, <1>3, FS_Subset
<1> QED BY <1>1, <1>2, <1>4, FS_CardinalityType

\* A message is written to the open clients but its sender.
LEMMA AllButSender ==
    ASSUME TableInv, Records, NEW k \in Slot, Taken(k), k = i, NEW d \in Client, state[d] = "open"
    PROVE  d \in Receivers <=> d # Peer(Here)
<1> DEFINE c == Peer(Here)
<1>1. Here \in Fd /\ c \in Client /\ fdt[Here] = {c} /\ Here = clientSockets[k].connectFd
  BY PeerFacts DEF Here
<1> HIDE DEF c
<1>2. ASSUME NEW s \in Others PROVE Peer(clientSockets[s].connectFd) # c
  <2>1. s \in Slot /\ Taken(s) /\ s # k
    BY <1>2 DEF Others, Reached, Taken
  <2>2. PICK f : f = clientSockets[s].connectFd
    OBVIOUS
  <2>3. f \in Fd /\ f # Here
    BY <1>1, <2>1, <2>2 DEF TableInv, Types, Taken, OneSlotEach
  <2>4. fdt[f] = {Peer(f)}
    BY <2>1, <2>2, PeerFacts
  <2>5. Peer(f) \in fdt[f] /\ c \in fdt[Here]
    BY <1>1, <2>4
  <2>6. Peer(f) # c
    BY <1>1, <2>3, <2>5 DEF TableInv, Owners
  <2> QED BY <2>2, <2>6
<1>3. ASSUME d # c PROVE d \in Receivers
  <2>1. PICK f \in Fd : d \in fdt[f]
    BY DEF Records
  <2>2. f \in allset
    BY <2>1 DEF TableInv, OneSlotEach
  <2>3. PICK s \in Slot : Taken(s) /\ f = clientSockets[s].connectFd
    BY <2>2 DEF TableInv, OneSlotEach
  <2>4. fdt[f] = {Peer(f)}
    BY <2>3, PeerFacts
  <2>5. Peer(f) = d
    BY <2>1, <2>4
  <2>6. s # k
    BY <1>1, <1>3, <2>1, <2>3
  <2>7. s < currentClients /\ clientSockets[s].id # clientSockets[k].id
    BY <2>3, <2>6 DEF TableInv, SlotsCounted, OneSlotEach
  <2>8. s \in Others
    BY <2>3, <2>7 DEF Others, Reached, Taken
  <2> QED BY <2>3, <2>5, <2>8 DEF Receivers
<1> QED BY <1>2, <1>3 DEF Receivers, c

-----------------------------------------------------------------------------
\* Steps that pass nothing on.
LEMMA WrittenKept ==
    ASSUME Written, UNCHANGED <<inbox, joined, log>>,
           \A c \in Client : state'[c] = "open" => state[c] = "open"
    PROVE  Written'
BY DEF Written, WrittenTo, For

LEMMA QuietKeeps ==
    ASSUME RInv, UNCHANGED <<state, inbox, joined, log, fdt, currentClients, clientIndex>>,
           pc' = pc \/ pc' \notin {"exit", "undefined"}
    PROVE  (Records /\ Written /\ EndsRightly)'
<1>1. Records'
  BY DEF RInv, Records
<1>2. Written'
  BY WrittenKept DEF RInv
<1> QED BY <1>1, <1>2 DEF RInv, EndsRightly

LEMMA RelaysQuiet ==
    ASSUME RInv,
           Select \/ AcceptFails \/ Terminal \/ Skip
             \/ (\E c \in Client : Send(c) \/ Leave(c) \/ ResetArrives(c))
             \/ (\E k \in Key : Type(k)) \/ UNCHANGED vars
    PROVE  (Records /\ Written /\ EndsRightly)'
<1>1. UNCHANGED <<state, inbox, joined, log, fdt, currentClients, clientIndex>>
  BY DEF Select, AcceptFails, Terminal, Skip, Send, Leave, ResetArrives, Type, vars, clients, table
<1>2. pc' = pc \/ pc' \notin {"exit", "undefined"}
  BY DEF Select, AcceptFails, Terminal, Skip, Send, Leave, ResetArrives, Type, vars
<1> QED BY <1>1, <1>2, QuietKeeps

LEMMA RelaysConnect ==
    ASSUME RInv, NEW c \in Client, Connect(c)
    PROVE  (Records /\ Written /\ EndsRightly)'
<1>1. /\ state[c] = "new" /\ state' = [state EXCEPT ![c] = "backlog"]
      /\ UNCHANGED <<inbox, joined, log, fdt, currentClients, clientIndex, pc>>
      /\ pc \notin {"exit", "undefined"}
  BY DEF Connect, table, Up
<1>2. /\ state'[c] = "backlog"
      /\ \A d \in Client : d # c => state'[d] = state[d]
  BY <1>1 DEF RInv, IInv, TableInv, Types
<1>3. Records'
  BY <1>1, <1>2 DEF RInv, Records
<1>4. Written'
  BY <1>1, <1>2, WrittenKept DEF RInv
<1> QED BY <1>1, <1>3, <1>4 DEF EndsRightly

LEMMA RelaysAccept ==
    ASSUME RInv, Accept
    PROVE  (Records /\ Written /\ EndsRightly)'
<1>a. PICK f : f = Min(FreeFds)
  OBVIOUS
<1>1. PICK c \in Client :
         /\ state[c] = "backlog"
         /\ state' = [state EXCEPT ![c] = "open"]
         /\ joined' = [joined EXCEPT ![c] = Len(log)]
         /\ fdt' = [fdt EXCEPT ![f] = {c}]
  BY <1>a DEF Accept
<1>2. /\ UNCHANGED <<log, inbox>> /\ pc' \notin {"exit", "undefined"}
      /\ clientIndex' = clientIndex + 1 /\ currentClients' = currentClients + 1
  BY DEF Accept
<1>3. f \in Fd /\ fdt[f] = {}
  <2>1. FreeFds \in SUBSET Nat /\ FreeFds # {}
    BY NumbersAssumption DEF Accept, FreeFds, Fd
  <2>2. f \in FreeFds
    BY <2>1, <1>a, MinFacts
  <2> QED BY <2>2 DEF FreeFds
<1>4. Records /\ Types
  BY DEF RInv, IInv, TableInv
<1>5. /\ state'[c] = "open" /\ joined'[c] = Len(log) /\ fdt'[f] = {c}
      /\ \A d \in Client : d # c => state'[d] = state[d] /\ joined'[d] = joined[d]
      /\ \A g \in Fd : g # f => fdt'[g] = fdt[g]
  BY <1>1, <1>3, <1>4 DEF Records, Types
<1>6. Len(log) \in Nat
  BY <1>4, LenProperties DEF Records
<1>7. Records'
  <2>1. joined' \in [Client -> Nat]
    BY <1>1, <1>4, <1>6 DEF Records
  <2>2. \A d \in Client : joined'[d] <= Len(log)
    <3> SUFFICES ASSUME NEW d \in Client PROVE joined'[d] <= Len(log)
      OBVIOUS
    <3>1. CASE d = c
      BY <1>5, <1>6, <3>1
    <3>2. CASE d # c
      BY <1>4, <1>5, <3>2 DEF Records
    <3> QED BY <3>1, <3>2
  <2>3. \A d \in Client : state'[d] \in {"new", "backlog"} => inbox[d] = << >>
    BY <1>4, <1>5 DEF Records
  <2>4. \A d \in Client : state'[d] = "open" => \E g \in Fd : d \in fdt'[g]
    BY <1>3, <1>4, <1>5 DEF Records
  <2>5. currentClients' = clientIndex' + 1
    BY <1>2, <1>4 DEF Records, Types
  <2> QED BY <1>2, <1>4, <2>1, <2>2, <2>3, <2>4, <2>5 DEF Records
<1>8. Written'
  <2> SUFFICES ASSUME NEW d \in Client, state'[d] = "open" PROVE WrittenTo(d)'
    BY DEF Written
  <2>1. CASE d = c
    <3>1. inbox'[c] = << >>
      BY <1>1, <1>2, <1>4 DEF Records
    <3>2. For(c, Len(log))' = {}
      BY <1>2, <1>5, <1>6 DEF For
    <3>3. Cardinality({}) = 0 /\ Len(<< >>) = 0
      BY FS_EmptySet
    <3> QED BY <2>1, <3>1, <3>2, <3>3 DEF WrittenTo
  <2>2. CASE d # c
    <3>1. WrittenTo(d) /\ joined'[d] = joined[d]
      BY <2>2, <1>5 DEF RInv, Written
    <3> QED BY <3>1, <1>2 DEF WrittenTo, For
  <2> QED BY <2>1, <2>2
<1> QED BY <1>2, <1>7, <1>8 DEF EndsRightly

LEMMA RelaysDrop ==
    ASSUME RInv, Drop
    PROVE  (Records /\ Written /\ EndsRightly)'
<1>a. PICK f : f = Here
  OBVIOUS
<1>b. PICK c : c = Peer(Here)
  OBVIOUS
<1>0. Records /\ TableInv /\ Types /\ i \in Nat
  BY DEF RInv, IInv, TableInv, Reading
<1>1. f \in Fd /\ c \in Client /\ fdt[f] = {c}
  <2>1. i \in Slot /\ Taken(i) /\ f = clientSockets[i].connectFd
    BY <1>a, <1>0, InLoopFacts DEF Drop, Here, Taken
  <2> QED BY <2>1, <1>0, <1>a, <1>b, PeerFacts
<1>2. /\ state' = [state EXCEPT ![c] = "gone"] /\ fdt' = [fdt EXCEPT ![f] = {}]
      /\ UNCHANGED <<inbox, joined, log, currentClients, clientIndex, pc>> /\ pc = "handle"
  BY <1>a, <1>b DEF Drop, InLoop
<1>3. /\ state'[c] = "gone" /\ \A d \in Client : d # c => state'[d] = state[d]
      /\ \A g \in Fd : g # f => fdt'[g] = fdt[g]
  BY <1>0, <1>1, <1>2 DEF Types
<1>4. \A d \in Client : state'[d] = "open" => \E g \in Fd : d \in fdt'[g]
  <2> SUFFICES ASSUME NEW d \in Client, state'[d] = "open" PROVE \E g \in Fd : d \in fdt'[g]
    OBVIOUS
  <2>1. d # c /\ state[d] = "open"
    BY <1>3
  <2>2. PICK g \in Fd : d \in fdt[g]
    BY <2>1, <1>0 DEF Records
  <2>3. g # f
    BY <1>1, <2>1, <2>2
  <2> QED BY <1>3, <2>2, <2>3
<1>5. Records'
  BY <1>0, <1>2, <1>3, <1>4 DEF Records
<1>6. Written'
  BY <1>2, <1>3, WrittenKept DEF RInv
<1> QED BY <1>2, <1>5, <1>6 DEF EndsRightly

\* The server stops when all slots below the counter are empty: then all are.
LEMMA RelaysHandleDone ==
    ASSUME RInv, HandleDone
    PROVE  (Records /\ Written /\ EndsRightly)'
<1>0. Records /\ TableInv /\ Written
  BY DEF RInv, IInv
<1>1. UNCHANGED <<state, inbox, joined, log, fdt, currentClients, clientIndex>>
  BY DEF HandleDone, clients, table
<1>2. Records' /\ Written'
  BY <1>0, <1>1, WrittenKept DEF Records
<1>3. ASSUME pc' = "exit", NEW c \in Client, state[c] = "open" PROVE FALSE
  <2>1. AllClosed
    BY <1>3 DEF HandleDone
  <2>2. PICK f \in Fd : c \in fdt[f]
    BY <1>0, <1>3 DEF Records
  <2>3. PICK s \in Slot : Taken(s)
    BY <1>0, <2>2 DEF TableInv, OneSlotEach
  <2> QED BY <1>0, <2>1, <2>3 DEF AllClosed, Reached, Taken, TableInv, SlotsCounted
<1>4. pc' = "undefined" => clientIndex >= FD_SETSIZE
  BY <1>0, NumbersAssumption DEF HandleDone, Records, TableInv, Types
<1> QED BY <1>1, <1>2, <1>3, <1>4 DEF EndsRightly

\* The sender is owed nothing new.
LEMMA NothingForSender ==
    ASSUME Records, Written, NEW d \in Client, state[d] = "open", NEW k \in Nat,
           joined' = joined, inbox'[d] = inbox[d], Len(log') = Len(log) + k,
           \A l \in 1 .. Len(log) : log'[l] = log[l],
           \A l \in Len(log) + 1 .. Len(log) + k : log'[l] = d
    PROVE  WrittenTo(d)'
<1>1. PICK n \in Nat : n = Len(log) /\ Len(log') = n + k
  BY LenProperties DEF Records
<1>2. joined[d] \in Nat /\ joined[d] <= n
  BY <1>1 DEF Records
<1>3. For(d, n + k)' = For(d, n)
  BY <1>1, <1>2 DEF For
<1>4. \A m \in For(d, n) : For(d, m)' = For(d, m) /\ log'[m] = log[m]
  <2> SUFFICES ASSUME NEW m \in For(d, n) PROVE For(d, m)' = For(d, m) /\ log'[m] = log[m]
    OBVIOUS
  <2>1. m \in 1 .. n /\ m \in Nat
    BY <1>1, <1>2 DEF For
  <2>2. For(d, m)' = For(d, m)
    BY <1>1, <1>2, <2>1 DEF For
  <2> QED BY <1>1, <2>1, <2>2
<1>5. /\ Len(inbox[d]) = Cardinality(For(d, n))
      /\ \A m \in For(d, n) : inbox[d][Cardinality(For(d, m))] = log[m]
  BY <1>1 DEF Written, WrittenTo
<1>6. For(d, Len(log))' = For(d, n)
  BY <1>1, <1>3 DEF For
<1>7. Len(inbox'[d]) = Cardinality(For(d, Len(log))')
  BY <1>5, <1>6
<1>8. ASSUME NEW m \in For(d, Len(log))'
      PROVE  inbox'[d][Cardinality(For(d, m)')] = log'[m]
  BY <1>4, <1>5, <1>6, <1>8
<1> QED BY <1>7, <1>8 DEF WrittenTo

\* Everybody else is owed the whole chunk, and written it.
LEMMA ChunkForOthers ==
    ASSUME Records, Written, NEW c \in Client, NEW d \in Client, d # c, state[d] = "open",
           NEW k \in Nat, joined' = joined, Len(log') = Len(log) + k,
           \A l \in 1 .. Len(log) : log'[l] = log[l],
           \A l \in Len(log) + 1 .. Len(log) + k : log'[l] = c,
           Len(inbox'[d]) = Len(inbox[d]) + k,
           \A l \in 1 .. Len(inbox[d]) : inbox'[d][l] = inbox[d][l],
           \A l \in Len(inbox[d]) + 1 .. Len(inbox[d]) + k : inbox'[d][l] = c
    PROVE  WrittenTo(d)'
<1>1. PICK n \in Nat : n = Len(log) /\ Len(log') = n + k
  BY LenProperties DEF Records
<1>2. joined[d] \in Nat /\ joined[d] <= n
  BY <1>1 DEF Records
<1>3. /\ Len(inbox[d]) = Cardinality(For(d, n))
      /\ \A m \in For(d, n) : inbox[d][Cardinality(For(d, m))] = log[m]
  BY <1>1 DEF Written, WrittenTo
<1>4. PICK b \in Nat : b = Cardinality(For(d, n)) /\ b = Len(inbox[d])
  BY <1>3, ForFinite
\* the messages up to the j-th of the chunk
<1>5. ASSUME NEW j \in 0 .. k
      PROVE  Cardinality(For(d, n + j)') = b + j
  <2>1. PICK a \in Int, z \in Int : a = n + 1 /\ z = n + j
    BY <1>5
  <2>2. PICK P : P = For(d, n)
    OBVIOUS
  <2>3. PICK T : T = a .. z
    OBVIOUS
  <2>4. IsFiniteSet(T) /\ Cardinality(T) = IF a > z THEN 0 ELSE z - a + 1
    BY <2>3, FS_Interval
  <2>5. Cardinality(T) = j
    BY <1>5, <2>1, <2>4
  <2>6. IsFiniteSet(P) /\ Cardinality(P) = b
    BY <1>4, <2>2, ForFinite
  <2>7. For(d, n + j)' = P \cup T
    BY <1>1, <1>2, <1>5, <2>1, <2>2, <2>3 DEF For
  <2>8. P \cap T = {}
    BY <1>2, <2>1, <2>2, <2>3 DEF For
  <2>9. Cardinality(P \cup T) = Cardinality(P) + Cardinality(T) - Cardinality(P \cap T)
    BY <2>4, <2>6, FS_Union
  <2>10. Cardinality(P \cup T) = b + j - 0
    BY <2>5, <2>6, <2>8, <2>9, FS_EmptySet
  <2>11. Cardinality(P \cup T) = b + j
    BY <1>5, <2>10
  <2> QED BY <2>7, <2>11
<1>6. \A m \in For(d, n) : For(d, m)' = For(d, m) /\ log'[m] = log[m]
  <2> SUFFICES ASSUME NEW m \in For(d, n) PROVE For(d, m)' = For(d, m) /\ log'[m] = log[m]
    OBVIOUS
  <2>1. m \in 1 .. n /\ m \in Nat
    BY <1>1, <1>2 DEF For
  <2>2. For(d, m)' = For(d, m)
    BY <1>1, <1>2, <2>1 DEF For
  <2> QED BY <1>1, <2>1, <2>2
<1>7. \A m \in For(d, n) : Cardinality(For(d, m)) \in 1 .. b
  <2> SUFFICES ASSUME NEW m \in For(d, n) PROVE Cardinality(For(d, m)) \in 1 .. b
    OBVIOUS
  <2>1. m \in Nat /\ m \in joined[d] + 1 .. n
    BY <1>2, ForFinite
  <2>2. m \in For(d, m) /\ For(d, m) \in SUBSET For(d, n)
    BY <1>2, <2>1 DEF For
  <2>3. /\ IsFiniteSet(For(d, m)) /\ Cardinality(For(d, m)) \in Nat
        /\ Cardinality(For(d, m)) <= Cardinality(For(d, n))
    BY <2>1, <2>2, ForFinite, FS_Subset
  <2>4. Cardinality(For(d, m)) # 0
    BY <2>2, <2>3, FS_EmptySet
  <2> QED BY <1>4, <2>3, <2>4
<1>8. For(d, Len(log))' = For(d, n + k)'
  BY <1>1 DEF For
<1>9. Len(inbox'[d]) = Cardinality(For(d, n + k)')
  BY <1>4, <1>5
<1>10. ASSUME NEW m \in For(d, n + k)'
       PROVE  inbox'[d][Cardinality(For(d, m)')] = log'[m]
  <2>1. m \in joined[d] + 1 .. n + k /\ log'[m] # d
    BY <1>10 DEF For
  <2>2. CASE m <= n
    <3>1. m \in For(d, n)
      BY <1>1, <1>2, <2>1, <2>2 DEF For
    <3>2. Cardinality(For(d, m)) \in 1 .. b
      BY <1>7, <3>1
    <3>3. inbox'[d][Cardinality(For(d, m))] = inbox[d][Cardinality(For(d, m))]
      BY <1>4, <3>2
    <3> QED BY <1>3, <1>6, <3>1, <3>3
  <2>3. CASE m > n
    <3>1. PICK j \in 1 .. k : m = n + j
      <4>1. m - n \in 1 .. k /\ m = n + (m - n)
        BY <1>2, <2>1, <2>3
      <4> QED BY <4>1
    <3>2. Cardinality(For(d, m)') = b + j
      <4>1. j \in 0 .. k
        OBVIOUS
      <4> QED BY <1>5, <3>1, <4>1
    <3>3. inbox'[d][b + j] = c
      BY <1>4
    <3>4. log'[m] = c
      BY <1>1, <3>1
    <3> QED BY <3>2, <3>3, <3>4
  <2> QED BY <1>2, <2>1, <2>2, <2>3
<1> QED BY <1>8, <1>9, <1>10 DEF WrittenTo

LEMMA RelaysRelay ==
    ASSUME RInv, Relay
    PROVE  (Records /\ Written /\ EndsRightly)'
<1>a. PICK q : q = i
  OBVIOUS
<1>b. PICK c : c = Peer(Here)
  OBVIOUS
<1>0. Records /\ TableInv /\ Written /\ i \in Nat
  BY DEF RInv, IInv, Reading
<1>1. q \in Slot /\ Taken(q)
  BY <1>a, <1>0, InLoopFacts DEF Relay, Here, Taken
<1>2. c \in Client
  BY <1>0, <1>1, <1>a, <1>b, PeerFacts DEF Here
<1>3. PICK k \in 1 .. pend[c] :
         /\ log' = log \o [m \in 1 .. k |-> c]
         /\ inbox' = [d \in Client |-> IF d \in Receivers THEN inbox[d] \o [m \in 1 .. k |-> c]
                                                          ELSE inbox[d]]
         /\ pc' = IF currentClients > FD_SETSIZE THEN "undefined"
                  ELSE IF \E d \in Receivers : rst[d] THEN "killed" ELSE pc
  BY <1>b DEF Relay
<1>4. UNCHANGED <<state, joined, fdt, currentClients, clientIndex>> /\ pc = "handle"
  BY DEF Relay, table, InLoop
<1>5. k \in Nat
  <2>1. pend[c] \in Nat
    BY <1>2 DEF RInv, IInv, Reading
  <2> QED BY <2>1
<1>6. /\ log' \in Seq(Client) /\ Len(log') = Len(log) + k
      /\ \A l \in 1 .. Len(log) : log'[l] = log[l]
      /\ \A l \in Len(log) + 1 .. Len(log) + k : log'[l] = c
  <2>1. PICK old \in Seq(Client) : old = log
    BY <1>0 DEF Records
  <2>2. PICK new : new = log'
    OBVIOUS
  <2>3. Chunked(new, old, k, c)
    BY <1>3, <2>1, <2>2 DEF Chunked
  <2>4. /\ new \in Seq(Client) /\ Len(new) = Len(old) + k
        /\ \A l \in 1 .. Len(old) : new[l] = old[l]
        /\ \A l \in Len(old) + 1 .. Len(old) + k : new[l] = c
    BY <1>2, <1>5, <2>1, <2>3, ChunkAdded
  <2> QED BY <2>1, <2>2, <2>4
<1>7. ASSUME NEW d \in Client, d \in Receivers
      PROVE  /\ inbox'[d] \in Seq(Client) /\ Len(inbox'[d]) = Len(inbox[d]) + k
             /\ \A l \in 1 .. Len(inbox[d]) : inbox'[d][l] = inbox[d][l]
             /\ \A l \in Len(inbox[d]) + 1 .. Len(inbox[d]) + k : inbox'[d][l] = c
  <2>1. inbox[d] \in Seq(Client)
    BY <1>0 DEF Records
  <2>2. PICK old \in Seq(Client) : old = inbox[d]
    BY <2>1
  <2>3. PICK new : new = inbox'[d]
    OBVIOUS
  <2>4. Chunked(new, old, k, c)
    BY <1>3, <1>7, <2>2, <2>3 DEF Chunked
  <2>5. /\ new \in Seq(Client) /\ Len(new) = Len(old) + k
        /\ \A l \in 1 .. Len(old) : new[l] = old[l]
        /\ \A l \in Len(old) + 1 .. Len(old) + k : new[l] = c
    BY <1>2, <1>5, <2>4, ChunkAdded
  <2> QED BY <2>2, <2>3, <2>5
<1>8. \A d \in Client : d \notin Receivers => inbox'[d] = inbox[d]
  BY <1>3
<1>9. inbox' \in [Client -> Seq(Client)]
  <2>1. inbox' = [d \in Client |-> inbox'[d]]
    BY <1>3
  <2>2. \A d \in Client : inbox'[d] \in Seq(Client)
    BY <1>0, <1>7, <1>8 DEF Records
  <2> QED BY <2>1, <2>2
<1>10. \A d \in Client : state[d] = "open" => (d \in Receivers <=> d # c)
  BY <1>0, <1>1, <1>a, <1>b, AllButSender
<1>11. \A s \in Slot : Taken(s) => state[Peer(clientSockets[s].connectFd)] = "open"
  <2> SUFFICES ASSUME NEW s \in Slot, Taken(s)
               PROVE  state[Peer(clientSockets[s].connectFd)] = "open"
    OBVIOUS
  <2>1. PICK f \in Fd : f = clientSockets[s].connectFd /\ fdt[f] = {Peer(f)}
    BY <1>0, PeerFacts
  <2> QED BY <1>0, <2>1 DEF TableInv, Owners
<1>12. \A d \in Receivers : state[d] = "open"
  BY <1>11 DEF Receivers, Others, Reached, Taken
<1>13. Records'
  <2>1. \A d \in Client : joined'[d] <= Len(log')
    <3>1. Len(log) \in Nat /\ \A d \in Client : joined[d] \in Nat /\ joined[d] <= Len(log)
      BY <1>0, LenProperties DEF Records
    <3> QED BY <1>4, <1>5, <1>6, <3>1
  <2>2. \A d \in Client : state'[d] \in {"new", "backlog"} => inbox'[d] = << >>
    BY <1>0, <1>4, <1>8, <1>12 DEF Records
  <2>3. joined' \in [Client -> Nat] /\ currentClients' = clientIndex' + 1
        /\ \A d \in Client : state'[d] = "open" => \E f \in Fd : d \in fdt'[f]
    BY <1>0, <1>4 DEF Records
  <2> QED BY <1>6, <1>9, <2>1, <2>2, <2>3 DEF Records
<1>14. Written'
  <2> SUFFICES ASSUME NEW d \in Client, state'[d] = "open" PROVE WrittenTo(d)'
    BY DEF Written
  <2>0. state[d] = "open" /\ joined' = joined
    BY <1>4
  <2>1. CASE d = c
    <3>1. inbox'[d] = inbox[d]
      BY <1>8, <1>10, <2>0, <2>1
    <3> QED BY <1>0, <1>5, <1>6, <2>0, <2>1, <3>1, NothingForSender
  <2>2. CASE d # c
    <3>1. d \in Receivers
      BY <1>10, <2>0, <2>2
    <3> QED BY <1>0, <1>2, <1>5, <1>6, <1>7, <2>0, <2>2, <3>1, ChunkForOthers
  <2> QED BY <2>1, <2>2
<1>15. EndsRightly'
  <2>1. pc' # "exit"
    BY <1>3, <1>4
  <2>2. pc' = "undefined" => currentClients > FD_SETSIZE
    BY <1>3, <1>4
  <2>3. currentClients > FD_SETSIZE => clientIndex >= FD_SETSIZE
    BY <1>0, NumbersAssumption DEF Records, TableInv, Types
  <2> QED BY <1>4, <2>1, <2>2, <2>3 DEF EndsRightly
<1> QED BY <1>13, <1>14, <1>15

LEMMA RInvInit == Init => RInv
<1> SUFFICES ASSUME Init PROVE RInv
  OBVIOUS
<1>1. Records
  <2>1. << >> \in Seq(Client) /\ Len(<< >>) = 0
    BY EmptySeq
  <2> QED BY <2>1 DEF Init, Records
<1>2. Written /\ EndsRightly
  BY DEF Init, Written, EndsRightly
<1> QED BY <1>1, <1>2, IInvInit DEF RInv

LEMMA RInvNext == RInv /\ [Next]_vars => RInv'
<1> SUFFICES ASSUME RInv, [Next]_vars PROVE RInv'
  OBVIOUS
<1>1. IInv'
  BY IInvNext DEF RInv
<1>2. (Records /\ Written /\ EndsRightly)'
  BY RelaysQuiet, RelaysConnect, RelaysAccept, RelaysDrop, RelaysHandleDone, RelaysRelay
     DEF Next, Server
<1> QED BY <1>1, <1>2 DEF RInv

\* Every client is written what the server reads from the others, all of it, once
\* and in order, and the server ends by itself only when nobody is connected: for
\* any number of clients, descriptors, slots and messages.
THEOREM RelaysForEver == Spec => []Relays
<1>1. RInv => Relays
  BY DEF RInv, Relays, RelayedToAll, Written, WrittenTo
<1> QED BY <1>1, RInvInit, RInvNext, PTL DEF Spec
=============================================================================
