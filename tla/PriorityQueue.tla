---------------------------- MODULE PriorityQueue ---------------------------
(***************************************************************************)
(* The binary heap of simple_http_server (priority_queue.c), which orders  *)
(* the server's timers.  One action per call up to its first change of the *)
(* array, then one per iteration of the swim or sink loop, then the        *)
(* shrinking that ends st_pq_del_min.  Cell 0 of the C array is the unused *)
(* sentinel; the sequence queue holds cells 1..n_alloc, so n_alloc is      *)
(* Len(queue); size counts the allocated cells, sentinel included.         *)
(***************************************************************************)
EXTENDS Integers, Sequences

CONSTANTS Item,      \* items that may be queued (pointers to timer nodes)
          KeyOf,     \* the key comp orders an item by
          InitSize   \* the size given to st_pq_init (PQ_DEFAULT_SIZE)

ASSUME KeyAssumption == KeyOf \in [Item -> Nat]
ASSUME InitSizeAssumption == InitSize \in Nat

VARIABLES queue,     \* the live cells of the array
          size,      \* the number of cells allocated
          pc,        \* the loop running now, or "idle" between calls
          cur        \* the loop's index

vars == <<queue, size, pc, cur>>

-----------------------------------------------------------------------------
n_alloc == Len(queue)

Held == {queue[i] : i \in 1 .. n_alloc}

comp_reversed(x, y) == KeyOf[x] > KeyOf[y]

\* timer_comp: strictly smaller key
comp(x, y) == KeyOf[x] < KeyOf[y]

Parent(i) == i \div 2

exch(q, i, j) == [q EXCEPT ![i] = q[j], ![j] = q[i]]

\* st_pq_init adds the sentinel's cell
Init == /\ queue = << >>
        /\ size = InitSize + 1
        /\ pc = "idle"
        /\ cur = 0

(***************************************************************************)
(* resize: a size too small for the live cells, or a malloc that fails,    *)
(* leaves the array as it was (the call then returns -1).                  *)
(***************************************************************************)
Resizable(newSize, n) == newSize > n

GrowDue_late == n_alloc = size

GrowDue == n_alloc + 1 = size

\* no more than a quarter of the cells are live
ShrinkDue == n_alloc > 0 /\ n_alloc <= (size - 1) \div 4

\* where an inserted item goes, and the climb starts
NewCell == n_alloc + 1

-----------------------------------------------------------------------------
\* st_pq_insert up to its call of swim; the caller never queues an item twice
Insert(x) ==
    /\ pc = "idle"
    /\ x \notin Held
    /\ \/ GrowDue /\ Resizable(size * 2, n_alloc) /\ size' = size * 2
       \/ ~GrowDue /\ size' = size
    /\ queue' = Append(queue, x)
    /\ pc' = "swim"
    /\ cur' = NewCell

\* st_pq_insert when the array cannot grow: nothing is queued, -1 is returned
InsertFails(x) ==
    /\ pc = "idle"
    /\ x \notin Held
    /\ GrowDue
    /\ UNCHANGED vars

\* one iteration of swim's loop
Swim ==
    /\ pc = "swim"
    /\ cur > 1
    /\ comp(queue[cur], queue[Parent(cur)])
    /\ queue' = exch(queue, cur, Parent(cur))
    /\ cur' = Parent(cur)
    /\ UNCHANGED <<size, pc>>

SwimDone ==
    /\ pc = "swim"
    /\ ~(cur > 1 /\ comp(queue[cur], queue[Parent(cur)]))
    /\ pc' = "idle"
    /\ cur' = 0
    /\ UNCHANGED <<queue, size>>

\* st_pq_del_min up to its call of sink: the last cell's item goes to the root
DelMin ==
    /\ pc = "idle"
    /\ n_alloc > 0
    /\ queue' = SubSeq(exch(queue, 1, n_alloc), 1, n_alloc - 1)
    /\ pc' = "sink"
    /\ cur' = 1
    /\ UNCHANGED size

LesserChild_left(i) == 2 * i

\* the smaller child of cell i
LesserChild(i) ==
    IF 2 * i < n_alloc /\ comp(queue[2 * i + 1], queue[2 * i])
    THEN 2 * i + 1 ELSE 2 * i

SinkStops == 2 * cur <= n_alloc => ~comp(queue[LesserChild(cur)], queue[cur])

\* one iteration of sink's loop
Sink ==
    /\ pc = "sink"
    /\ ~SinkStops
    /\ queue' = exch(queue, LesserChild(cur), cur)
    /\ cur' = LesserChild(cur)
    /\ UNCHANGED <<size, pc>>

\* sink returns; st_pq_del_min halves an array that is mostly empty
SinkDone ==
    /\ pc = "sink"
    /\ SinkStops
    /\ \/ ShrinkDue /\ Resizable(size \div 2, n_alloc) /\ size' = size \div 2
       \/ size' = size    \* nothing to shrink, or resize's malloc failed
    /\ pc' = "idle"
    /\ cur' = 0
    /\ UNCHANGED queue

Next == \/ \E x \in Item : Insert(x) \/ InsertFails(x)
        \/ Swim \/ SwimDone \/ DelMin \/ Sink \/ SinkDone

Spec == Init /\ [][Next]_vars

-----------------------------------------------------------------------------
\* The array holds items, and the loop running and its index are among those of the code.
TypeOK ==
    /\ queue \in Seq(Item)
    /\ size \in Nat
    /\ pc \in {"idle", "swim", "sink"}
    /\ cur \in 0 .. n_alloc \/ (pc = "sink" /\ cur = 1)

\* Every live cell lies inside the allocated array, whatever sequence of
\* insertions, removals and failed resizes came before (the growth test is an
\* equality, so one missed growth would write past the end for ever after).
InBounds == n_alloc < size

\* Neither resize can be refused for its size: growth and shrinking always ask
\* for room for the live cells, so only malloc can make resize fail.
ResizeNeverTooSmall ==
    /\ GrowDue => Resizable(size * 2, n_alloc)
    /\ ShrinkDue => Resizable(size \div 2, n_alloc)

\* No pointer is in two cells: exchanges and the drop of the last cell never
\* duplicate a timer node (a duplicate would be freed twice).
NoDuplicates == \A i, j \in 1 .. n_alloc : queue[i] = queue[j] => i = j

HeapEdge(i) == KeyOf[queue[Parent(i)]] <= KeyOf[queue[i]]

\* the two cells around the one being moved are ordered with each other
Bridge == \A i \in 2 .. n_alloc :
            (Parent(i) = cur /\ cur > 1) =>
                KeyOf[queue[Parent(cur)]] <= KeyOf[queue[i]]

\* Between calls every cell's key is at least its parent's; during swim only
\* the edge above cur, and during sink only the edges below it, may be out of
\* order.
HeapOrder ==
    /\ pc = "idle" => \A i \in 2 .. n_alloc : HeapEdge(i)
    /\ pc = "swim" => Bridge /\ \A i \in 2 .. n_alloc : i # cur => HeapEdge(i)
    /\ pc = "sink" => Bridge /\ \A i \in 2 .. n_alloc : Parent(i) # cur => HeapEdge(i)

\* What the server relies on: between calls st_pq_min (the root) is an item of
\* least key, so no timer is overdue while a later one is looked at.
RootIsLeast ==
    (pc = "idle" /\ n_alloc > 0) => \A i \in 1 .. n_alloc : KeyOf[queue[1]] <= KeyOf[queue[i]]

Pool == INSTANCE OrderedPool WITH items <- Held

\* The heap implements the pool of items from which only a least one is taken:
\* insertion and removal each change the held set once, by one item, and every
\* exchange and resize leaves it alone.
ImplementsPool == Pool!Spec
=============================================================================
