------------------------ MODULE PriorityQueue_proofs ------------------------
(***************************************************************************)
(* Proofs, for every set of items, every keys and every initial size, of   *)
(* the heap's type, bounds, order and minimum, and that it implements      *)
(* OrderedPool.                                                            *)
(***************************************************************************)
EXTENDS PriorityQueue, TLAPS, WellFoundedInduction, NaturalsInduction

\* where the index of a running loop is
CurInv == /\ pc = "swim" => cur \in 1 .. n_alloc
          /\ pc = "sink" => cur = 1 \/ cur \in 1 .. n_alloc

IInv == TypeOK /\ CurInv /\ InBounds /\ NoDuplicates /\ HeapOrder

\* The parent of a cell other than the root is an earlier cell, of which it is
\* the left or the right child.
LEMMA ParentFacts ==
    /\ \A i \in Nat : i >= 2 => Parent(i) \in Nat /\ 1 <= Parent(i) /\ Parent(i) < i
    /\ \A i \in Nat : Parent(i) \in Nat
    /\ \A i, j \in Nat : Parent(i) = j <=> (i = 2 * j \/ i = 2 * j + 1)
BY DEF Parent

\* exch permutes: it keeps the length and swaps exactly two cells.
LEMMA ExchFacts ==
    ASSUME NEW q \in Seq(Item), NEW i \in 1 .. Len(q), NEW j \in 1 .. Len(q)
    PROVE  /\ exch(q, i, j) \in Seq(Item)
           /\ Len(exch(q, i, j)) = Len(q)
           /\ \A k \in 1 .. Len(q) :
                 exch(q, i, j)[k] = IF k = j THEN q[i] ELSE IF k = i THEN q[j] ELSE q[k]
BY DEF exch

\* exch makes no duplicate.
LEMMA ExchDistinct ==
    ASSUME NEW q \in Seq(Item), NEW i \in 1 .. Len(q), NEW j \in 1 .. Len(q),
           \A k, l \in 1 .. Len(q) : q[k] = q[l] => k = l
    PROVE  \A k, l \in 1 .. Len(q) : exch(q, i, j)[k] = exch(q, i, j)[l] => k = l
<1>1. \A m \in 1 .. Len(q) :
         exch(q, i, j)[m] = IF m = j THEN q[i] ELSE IF m = i THEN q[j] ELSE q[m]
  BY ExchFacts
<1> DEFINE n == Len(q)
           e == exch(q, i, j)
<1>2. SUFFICES ASSUME NEW k \in 1 .. n, NEW l \in 1 .. n, e[k] = e[l] PROVE k = l
  OBVIOUS
<1>3. /\ e[k] = IF k = j THEN q[i] ELSE IF k = i THEN q[j] ELSE q[k]
      /\ e[l] = IF l = j THEN q[i] ELSE IF l = i THEN q[j] ELSE q[l]
  BY <1>1
<1> HIDE DEF e, n
<1> QED
  BY <1>2, <1>3 DEF n

LEMMA InitIInv == Init => IInv
BY KeyAssumption, InitSizeAssumption
   DEF Init, IInv, TypeOK, CurInv, InBounds, NoDuplicates, HeapOrder, n_alloc, Bridge

LEMMA InsertIInv == ASSUME IInv, NEW x \in Item, Insert(x) PROVE IInv'
<1> USE KeyAssumption DEF n_alloc
<1>1. /\ pc = "idle" /\ x \notin Held
      /\ queue' = Append(queue, x) /\ pc' = "swim" /\ cur' = Len(queue) + 1
  BY DEF Insert, NewCell
<1>2. /\ queue \in Seq(Item) /\ queue' \in Seq(Item)
      /\ Len(queue') = Len(queue) + 1
      /\ \A i \in 1 .. Len(queue) : queue'[i] = queue[i]
      /\ queue'[Len(queue) + 1] = x
  BY <1>1 DEF IInv, TypeOK
<1>3. size' \in Nat /\ Len(queue') < size'
  BY <1>2 DEF IInv, TypeOK, InBounds, Insert, GrowDue
<1>4. (TypeOK /\ CurInv /\ InBounds)'
  BY <1>1, <1>2, <1>3 DEF TypeOK, CurInv, InBounds
<1>5. NoDuplicates'
  BY <1>1, <1>2 DEF IInv, NoDuplicates, Held
<1>6. HeapOrder'
  <2>1. \A i \in 2 .. Len(queue') : Parent(i) # cur'
    BY <1>1, <1>2, ParentFacts
  <2>2. ASSUME NEW i \in 2 .. Len(queue'), i # cur' PROVE HeapEdge(i)'
    <3>1. i \in 2 .. Len(queue) /\ HeapEdge(i)
      BY <1>1, <1>2, <2>2 DEF IInv, HeapOrder
    <3>2. Parent(i) \in 1 .. Len(queue)
      BY <3>1, ParentFacts
    <3> QED
      BY <1>2, <3>1, <3>2 DEF HeapEdge
  <2> QED
    BY <1>1, <2>1, <2>2 DEF HeapOrder, Bridge
<1> QED
  BY <1>4, <1>5, <1>6 DEF IInv

LEMMA SwimIInv == ASSUME IInv, Swim PROVE IInv'
<1> USE KeyAssumption DEF n_alloc
<1> DEFINE n == Len(queue)
           p == Parent(cur)
           k(i) == KeyOf[queue[i]]
           kk(i) == KeyOf[queue'[i]]
<1>1. /\ pc = "swim" /\ pc' = "swim" /\ size' = size /\ cur' = p /\ cur > 1
      /\ queue' = exch(queue, cur, p)
      /\ k(cur) < k(p)
  BY DEF Swim, comp
<1>2. queue \in Seq(Item) /\ n \in Nat /\ cur \in 2 .. n
  BY <1>1 DEF IInv, TypeOK, CurInv
<1>3. cur \in 2 .. n /\ n \in Nat /\ p \in 1 .. n /\ p < cur
  BY <1>2, ParentFacts
<1>4. /\ \A i \in 2 .. n : i # cur => k(Parent(i)) <= k(i)
      /\ \A i \in 2 .. n : Parent(i) = cur => k(p) <= k(i)
  BY <1>1 DEF IInv, HeapOrder, HeapEdge, Bridge
<1>5. \A i \in 1 .. n : k(i) \in Nat
  BY <1>2
<1>6. /\ queue' \in Seq(Item) /\ Len(queue') = n
      /\ \A i \in 1 .. n : queue'[i] = IF i = p THEN queue[cur] ELSE IF i = cur THEN queue[p] ELSE queue[i]
  <2>1. cur \in 1 .. Len(queue) /\ p \in 1 .. Len(queue)
    BY <1>3
  <2> HIDE DEF p
  <2>2. /\ exch(queue, cur, p) \in Seq(Item) /\ Len(exch(queue, cur, p)) = n
        /\ \A i \in 1 .. Len(queue) : exch(queue, cur, p)[i] =
              IF i = p THEN queue[cur] ELSE IF i = cur THEN queue[p] ELSE queue[i]
    BY <2>1, <1>2, ExchFacts
  <2> QED
    BY <2>2, <1>1
<1>7. \A i \in 1 .. n : kk(i) = IF i = p THEN k(cur) ELSE IF i = cur THEN k(p) ELSE k(i)
  BY <1>6
<1>8. (TypeOK /\ CurInv /\ InBounds)'
  BY <1>1, <1>3, <1>6 DEF IInv, TypeOK, CurInv, InBounds
<1>9. NoDuplicates'
  <2>1. cur \in 1 .. Len(queue) /\ p \in 1 .. Len(queue)
    BY <1>3
  <2>2. \A i, j \in 1 .. Len(queue) : queue[i] = queue[j] => i = j
    BY DEF IInv, NoDuplicates
  <2> HIDE DEF p
  <2>3. \A i, j \in 1 .. Len(queue) :
           exch(queue, cur, p)[i] = exch(queue, cur, p)[j] => i = j
    BY <2>1, <2>2, <1>2, ExchDistinct
  <2> QED
    BY <2>3, <1>1, <1>6 DEF NoDuplicates
<1>10. \A i \in 2 .. n : Parent(i) \in 1 .. n /\ Parent(i) < i
  BY <1>2, ParentFacts
<1>11. k(cur) < k(p)
  BY <1>1
<1>12. p = Parent(cur)
  OBVIOUS
<1> HIDE DEF n, p, k, kk
<1>13. ASSUME NEW i \in 2 .. n, i # p PROVE kk(Parent(i)) <= kk(i)
  <2>1. CASE i = cur
    BY <2>1, <1>3, <1>5, <1>7, <1>11, <1>12
  <2>2. CASE i # cur
    BY <2>2, <1>3, <1>4, <1>5, <1>7, <1>10, <1>11, <1>13
  <2> QED
    BY <2>1, <2>2
<1>14. ASSUME NEW i \in 2 .. n, Parent(i) = p, p > 1 PROVE kk(Parent(p)) <= kk(i)
  <2>1. /\ p \in 2 .. n /\ p # cur /\ Parent(p) \in 1 .. n /\ Parent(p) < p
        /\ k(Parent(p)) <= k(p)
    BY <1>3, <1>4, <1>10, <1>14
  <2>2. kk(Parent(p)) = k(Parent(p)) /\ i # p
    BY <2>1, <1>3, <1>7, <1>10, <1>14
  <2>3. CASE i = cur
    BY <2>1, <2>2, <2>3, <1>3, <1>7
  <2>4. CASE i # cur
    BY <2>1, <2>2, <2>4, <1>3, <1>4, <1>5, <1>7, <1>14
  <2> QED
    BY <2>3, <2>4
<1>15. HeapOrder'
  BY <1>1, <1>6, <1>13, <1>14 DEF HeapOrder, HeapEdge, Bridge, n, p, k, kk
<1> QED
  BY <1>8, <1>9, <1>15 DEF IInv

LEMMA SwimDoneIInv == ASSUME IInv, SwimDone PROVE IInv'
<1> USE KeyAssumption DEF n_alloc
<1>1. /\ pc = "swim" /\ pc' = "idle" /\ cur' = 0 /\ queue' = queue /\ size' = size
      /\ ~(cur > 1 /\ KeyOf[queue[cur]] < KeyOf[queue[Parent(cur)]])
  BY DEF SwimDone, comp
<1>2. (TypeOK /\ CurInv /\ InBounds /\ NoDuplicates)'
  BY <1>1 DEF IInv, TypeOK, CurInv, InBounds, NoDuplicates
<1>3. ASSUME NEW i \in 2 .. Len(queue) PROVE HeapEdge(i)
  <2>1. Parent(i) \in 1 .. Len(queue) /\ queue \in Seq(Item)
    BY ParentFacts DEF IInv, TypeOK
  <2>2. CASE i = cur
    BY <1>1, <2>1, <2>2 DEF HeapEdge
  <2>3. CASE i # cur
    BY <1>1, <2>3 DEF IInv, HeapOrder
  <2> QED
    BY <2>2, <2>3
<1>4. HeapOrder'
  BY <1>1, <1>3 DEF HeapOrder, HeapEdge
<1> QED
  BY <1>2, <1>4 DEF IInv

LEMMA DelMinIInv == ASSUME IInv, DelMin PROVE IInv'
<1> USE KeyAssumption DEF n_alloc
<1> DEFINE n == Len(queue)
           e == exch(queue, 1, n)
<1>1. /\ pc = "idle" /\ pc' = "sink" /\ cur' = 1 /\ size' = size /\ n > 0
      /\ queue' = SubSeq(e, 1, n - 1)
  BY DEF DelMin
<1>2. queue \in Seq(Item) /\ n \in Nat /\ 1 \in 1 .. n /\ n \in 1 .. n
  BY <1>1 DEF IInv, TypeOK
<1>3. /\ e \in Seq(Item) /\ Len(e) = n
      /\ \A k \in 1 .. n : e[k] = IF k = n THEN queue[1] ELSE IF k = 1 THEN queue[n] ELSE queue[k]
  BY <1>2, ExchFacts
<1> HIDE DEF e
<1>4. /\ queue' \in Seq(Item) /\ Len(queue') = n - 1
      /\ \A k \in 1 .. n - 1 : queue'[k] = IF k = 1 THEN queue[n] ELSE queue[k]
  BY <1>1, <1>2, <1>3
<1>5. (TypeOK /\ CurInv /\ InBounds)'
  BY <1>1, <1>2, <1>4 DEF IInv, TypeOK, CurInv, InBounds
<1>6. NoDuplicates'
  <2>1. \A i, j \in 1 .. n : queue[i] = queue[j] => i = j
    BY DEF IInv, NoDuplicates
  <2> HIDE DEF n
  <2>2. ASSUME NEW i \in 1 .. n - 1, NEW j \in 1 .. n - 1, queue'[i] = queue'[j]
        PROVE  i = j
    <3>1. i \in 1 .. n /\ j \in 1 .. n /\ n \in 1 .. n /\ i # n /\ j # n
      BY <1>2
    <3>2. /\ queue'[i] = IF i = 1 THEN queue[n] ELSE queue[i]
          /\ queue'[j] = IF j = 1 THEN queue[n] ELSE queue[j]
      BY <1>4
    <3> QED
      BY <2>1, <2>2, <3>1, <3>2
  <2> QED
    BY <2>2, <1>4 DEF NoDuplicates
<1>7. ASSUME NEW i \in 2 .. n - 1, Parent(i) # 1 PROVE HeapEdge(i)'
  <2>1. i \in 2 .. n /\ i \in Nat /\ i >= 2
    BY <1>2
  <2>2. HeapEdge(i)
    BY <1>1, <2>1 DEF IInv, HeapOrder
  <2>3. Parent(i) \in Nat /\ 1 <= Parent(i) /\ Parent(i) < i
    BY <2>1, ParentFacts
  <2> HIDE DEF n
  <2>4. Parent(i) \in 1 .. n - 1 /\ i \in 1 .. n - 1 /\ i # 1
    BY <1>2, <2>1, <2>3
  <2>5. queue'[i] = queue[i] /\ queue'[Parent(i)] = queue[Parent(i)]
    BY <1>4, <1>7, <2>4
  <2> QED
    BY <2>2, <2>5 DEF HeapEdge
<1>8. HeapOrder'
  BY <1>1, <1>2, <1>4, <1>7 DEF HeapOrder, Bridge
<1> QED
  BY <1>5, <1>6, <1>8 DEF IInv

LEMMA SinkIInv == ASSUME IInv, Sink PROVE IInv'
<1> USE KeyAssumption DEF n_alloc
<1> DEFINE n == Len(queue)
           c == LesserChild(cur)
           k(i) == KeyOf[queue[i]]
           kk(i) == KeyOf[queue'[i]]
<1>1. /\ pc = "sink" /\ pc' = "sink" /\ size' = size /\ cur' = c
      /\ queue' = exch(queue, c, cur)
      /\ 2 * cur <= n /\ k(c) < k(cur)
  BY DEF Sink, SinkStops, comp
<1>2. queue \in Seq(Item) /\ n \in Nat /\ cur \in 1 .. n
  BY <1>1 DEF IInv, TypeOK, CurInv
<1>3. /\ c = 2 * cur \/ c = 2 * cur + 1
      /\ c \in 2 .. n /\ c # cur
      /\ \A i \in 2 .. n : (i = 2 * cur \/ i = 2 * cur + 1) => k(c) <= k(i)
  BY <1>1, <1>2 DEF LesserChild, comp
<1>4. n \in Nat /\ cur \in 1 .. n /\ c \in 2 .. n /\ c # cur /\ k(c) < k(cur)
  BY <1>1, <1>2, <1>3
<1>5. \A i \in 2 .. n : Parent(i) \in 1 .. n /\ Parent(i) < i
  BY <1>2, ParentFacts
<1>6. Parent(c) = cur /\ \A i \in 2 .. n : Parent(i) = cur => k(c) <= k(i)
  <2>1. cur \in Nat /\ \A i \in 2 .. n : i \in Nat
    BY <1>4
  <2>2. \A i \in 2 .. n : Parent(i) = cur <=> (i = 2 * cur \/ i = 2 * cur + 1)
    BY <2>1, ParentFacts
  <2> HIDE DEF c, k
  <2> QED
    BY <2>2, <1>3
<1>7. /\ \A i \in 2 .. n : Parent(i) # cur => k(Parent(i)) <= k(i)
      /\ cur > 1 => \A i \in 2 .. n : Parent(i) = cur => k(Parent(cur)) <= k(i)
  BY <1>1 DEF IInv, HeapOrder, HeapEdge, Bridge
<1>8. \A i \in 1 .. n : k(i) \in Nat
  BY <1>2
<1>9. /\ queue' \in Seq(Item) /\ Len(queue') = n
      /\ \A i \in 1 .. n : queue'[i] = IF i = cur THEN queue[c] ELSE IF i = c THEN queue[cur] ELSE queue[i]
  <2>1. c \in 1 .. Len(queue) /\ cur \in 1 .. Len(queue)
    BY <1>4
  <2> HIDE DEF c
  <2>2. /\ exch(queue, c, cur) \in Seq(Item) /\ Len(exch(queue, c, cur)) = n
        /\ \A i \in 1 .. Len(queue) : exch(queue, c, cur)[i] =
              IF i = cur THEN queue[c] ELSE IF i = c THEN queue[cur] ELSE queue[i]
    BY <2>1, <1>2, ExchFacts
  <2> QED
    BY <2>2, <1>1
<1>10. \A i \in 1 .. n : kk(i) = IF i = cur THEN k(c) ELSE IF i = c THEN k(cur) ELSE k(i)
  BY <1>9
<1>11. (TypeOK /\ CurInv /\ InBounds)'
  BY <1>1, <1>4, <1>9 DEF IInv, TypeOK, CurInv, InBounds
<1>12. NoDuplicates'
  <2>1. c \in 1 .. Len(queue) /\ cur \in 1 .. Len(queue)
    BY <1>4
  <2> HIDE DEF c
  <2> QED
    <3>1. \A i, j \in 1 .. Len(queue) : queue[i] = queue[j] => i = j
      BY DEF IInv, NoDuplicates
    <3>2. \A i, j \in 1 .. Len(queue) :
             exch(queue, c, cur)[i] = exch(queue, c, cur)[j] => i = j
      BY <2>1, <3>1, <1>2, ExchDistinct
    <3> QED
      BY <3>2, <1>1, <1>9 DEF NoDuplicates
<1> HIDE DEF n, c, k, kk
<1>13. ASSUME NEW i \in 2 .. n, Parent(i) # c PROVE kk(Parent(i)) <= kk(i)
  <2>1. CASE i = c
    BY <2>1, <1>4, <1>6, <1>8, <1>10
  <2>2. CASE i = cur
    <3>1. Parent(cur) \in 1 .. n /\ Parent(cur) # cur /\ Parent(cur) # c /\ cur > 1
      BY <2>2, <1>4, <1>5, <1>13
    <3> QED
      BY <2>2, <3>1, <1>4, <1>6, <1>7, <1>10
  <2>3. CASE i # c /\ i # cur /\ Parent(i) = cur
    BY <2>3, <1>4, <1>6, <1>10
  <2>4. CASE i # c /\ i # cur /\ Parent(i) # cur
    BY <2>4, <1>5, <1>7, <1>10, <1>13
  <2> QED
    BY <2>1, <2>2, <2>3, <2>4
<1>14. ASSUME NEW i \in 2 .. n, Parent(i) = c PROVE kk(Parent(c)) <= kk(i)
  <2>1. i # c /\ i # cur /\ Parent(i) # cur
    BY <1>4, <1>5, <1>6, <1>14
  <2> QED
    BY <2>1, <1>4, <1>6, <1>7, <1>10, <1>14
<1>15. HeapOrder'
  BY <1>1, <1>9, <1>13, <1>14 DEF HeapOrder, HeapEdge, Bridge, n, c, k, kk
<1> QED
  BY <1>11, <1>12, <1>15 DEF IInv

LEMMA SinkDoneIInv == ASSUME IInv, SinkDone PROVE IInv'
<1> USE KeyAssumption DEF n_alloc
<1>1. /\ pc = "sink" /\ pc' = "idle" /\ cur' = 0 /\ queue' = queue
      /\ 2 * cur <= Len(queue) => ~(KeyOf[queue[LesserChild(cur)]] < KeyOf[queue[cur]])
  BY DEF SinkDone, SinkStops, comp
<1>2. queue \in Seq(Item) /\ Len(queue) \in Nat /\ cur \in Nat /\ cur >= 1
  BY <1>1 DEF IInv, TypeOK, CurInv
<1>3. size' \in Nat /\ Len(queue) < size'
  BY <1>2 DEF IInv, TypeOK, InBounds, SinkDone, Resizable
<1>4. (TypeOK /\ CurInv /\ InBounds /\ NoDuplicates)'
  BY <1>1, <1>2, <1>3 DEF IInv, TypeOK, CurInv, InBounds, NoDuplicates
<1>5. ASSUME NEW i \in 2 .. Len(queue) PROVE HeapEdge(i)
  <2>1. CASE Parent(i) # cur
    BY <1>1, <2>1 DEF IInv, HeapOrder
  <2>2. CASE Parent(i) = cur
    <3>1. i = 2 * cur \/ i = 2 * cur + 1
      BY <1>2, <2>2, ParentFacts
    <3>2. /\ LesserChild(cur) \in 2 .. Len(queue)
          /\ KeyOf[queue[LesserChild(cur)]] <= KeyOf[queue[i]]
      BY <3>1, <1>2 DEF LesserChild, comp
    <3>3. cur \in 1 .. Len(queue) /\ 2 * cur <= Len(queue)
      BY <3>1, <1>2
    <3> QED
      BY <1>1, <1>2, <2>2, <3>2, <3>3 DEF HeapEdge
  <2> QED
    BY <2>1, <2>2
<1>6. HeapOrder'
  BY <1>1, <1>5 DEF HeapOrder, HeapEdge
<1> QED
  BY <1>4, <1>6 DEF IInv

\* The inductive invariant is preserved by every step.
LEMMA NextIInv == IInv /\ [Next]_vars => IInv'
<1> SUFFICES ASSUME IInv, [Next]_vars PROVE IInv'
  OBVIOUS
<1>1. ASSUME NEW x \in Item, Insert(x) PROVE IInv'
  BY <1>1, InsertIInv
<1>2. CASE UNCHANGED vars
  BY <1>2 DEF vars, IInv, TypeOK, CurInv, InBounds, NoDuplicates, HeapOrder, HeapEdge,
              Bridge, n_alloc
<1>3. ASSUME NEW x \in Item, InsertFails(x) PROVE IInv'
  BY <1>2, <1>3 DEF InsertFails
<1>4. CASE Swim
  BY <1>4, SwimIInv
<1>5. CASE SwimDone
  BY <1>5, SwimDoneIInv
<1>6. CASE DelMin
  BY <1>6, DelMinIInv
<1>7. CASE Sink
  BY <1>7, SinkIInv
<1>8. CASE SinkDone
  BY <1>8, SinkDoneIInv
<1> QED
  BY <1>1, <1>2, <1>3, <1>4, <1>5, <1>6, <1>7, <1>8 DEF Next

THEOREM SpecIInv == Spec => []IInv
<1>1. Init => IInv
  BY InitIInv
<1>2. IInv /\ [Next]_vars => IInv'
  BY NextIInv
<1> QED
  BY <1>1, <1>2, PTL DEF Spec

\* In a heap-ordered array no cell has a key below the root's: otherwise the
\* least such cell would have a parent that is an even earlier one.
LEMMA HeapRootLeast ==
    ASSUME TypeOK, \A i \in 2 .. n_alloc : HeapEdge(i), n_alloc > 0
    PROVE  \A i \in 1 .. n_alloc : KeyOf[queue[1]] <= KeyOf[queue[i]]
<1> USE KeyAssumption DEF n_alloc
<1> DEFINE n == Len(queue)
           k(i) == KeyOf[queue[i]]
           Bad == {i \in 1 .. n : k(i) < k(1)}
<1>1. n \in Nat /\ 1 \in 1 .. n /\ \A i \in 1 .. n : k(i) \in Nat
  BY DEF TypeOK
<1>2. \A i \in 2 .. n : k(Parent(i)) <= k(i)
  BY DEF HeapEdge
<1> HIDE DEF n, k
<1>3. SUFFICES ASSUME Bad # {} PROVE FALSE
  BY <1>1 DEF n, k
<1>4. Bad \subseteq Nat
  BY <1>1
<1>5. PICK b \in Bad : \A j \in Bad : ~(<<j, b>> \in OpToRel(<, Nat))
  <2>1. IsWellFoundedOn(OpToRel(<, Nat), Nat)
    BY NatLessThanWellFounded
  <2> HIDE DEF Bad
  <2> QED
    BY <2>1, <1>3, <1>4, WFMin
<1>6. b \in 2 .. n /\ b \in Nat /\ b >= 2 /\ k(b) < k(1)
  BY <1>1
<1>7. Parent(b) \in 1 .. n /\ Parent(b) < b /\ Parent(b) \in Nat
  <2>1. Parent(b) \in Nat /\ 1 <= Parent(b) /\ Parent(b) < b
    BY <1>6, ParentFacts
  <2> QED
    BY <2>1, <1>6, <1>1
<1>8. Parent(b) \in Bad
  BY <1>1, <1>2, <1>6, <1>7
<1>9. <<Parent(b), b>> \in OpToRel(<, Nat)
  BY <1>6, <1>7 DEF OpToRel
<1> QED
  BY <1>5, <1>8, <1>9

\* Whatever is inserted, removed or fails to be, the type invariant holds.
THEOREM TypeCorrect == Spec => []TypeOK
BY SpecIInv, PTL DEF IInv

\* No live cell is ever outside the allocated array.
THEOREM AlwaysInBounds == Spec => []InBounds
BY SpecIInv, PTL DEF IInv

\* No timer node is ever in two cells.
THEOREM NeverDuplicated == Spec => []NoDuplicates
BY SpecIInv, PTL DEF IInv

\* Between calls, the item st_pq_min returns has the least key of all.
THEOREM RootAlwaysLeast == Spec => []RootIsLeast
<1>1. IInv => RootIsLeast
  BY HeapRootLeast DEF IInv, HeapOrder, RootIsLeast
<1> QED
  BY <1>1, SpecIInv, PTL

\* resize is never refused for its size.
THEOREM ResizeAlwaysFits == Spec => []ResizeNeverTooSmall
<1>1. IInv => ResizeNeverTooSmall
  BY DEF IInv, TypeOK, InBounds, ResizeNeverTooSmall, GrowDue, ShrinkDue, Resizable, n_alloc
<1> QED
  BY <1>1, SpecIInv, PTL

\* Exchanging two cells leaves the held set alone.
LEMMA ExchHeld ==
    ASSUME TypeOK, NEW i \in 1 .. n_alloc, NEW j \in 1 .. n_alloc,
           queue' = exch(queue, i, j)
    PROVE  Held' = Held
<1> DEFINE n == Len(queue)
           e == exch(queue, i, j)
<1>1. /\ queue \in Seq(Item) /\ i \in 1 .. n /\ j \in 1 .. n
  BY DEF TypeOK, n_alloc
<1>2. /\ Len(e) = n
      /\ \A m \in 1 .. n : e[m] = IF m = j THEN queue[i] ELSE IF m = i THEN queue[j] ELSE queue[m]
  BY <1>1, ExchFacts
<1>3. Held = {queue[m] : m \in 1 .. n} /\ Held' = {e[m] : m \in 1 .. n}
  BY <1>2 DEF Held, n_alloc
<1> HIDE DEF e, n
<1> QED
  BY <1>1, <1>2, <1>3

\* Every step of the heap is a step of the pool of items, or changes nothing in
\* it: the least item is the only one ever taken out.
THEOREM HeapImplementsPool == Spec => ImplementsPool
<1> USE DEF n_alloc
<1>1. Init => Pool!Init
  BY DEF Init, Pool!Init, Held
<1>2. IInv /\ [Next]_vars => [Pool!Next]_Held
  <2> SUFFICES ASSUME IInv, [Next]_vars PROVE Pool!Next \/ Held' = Held
    OBVIOUS
  <2>0. queue \in Seq(Item) /\ Len(queue) \in Nat /\ TypeOK
    BY DEF IInv, TypeOK
  <2>1. ASSUME NEW x \in Item, Insert(x) PROVE Pool!Next
    <3>1. x \notin Held /\ queue' = Append(queue, x)
      BY <2>1 DEF Insert
    <3>2. /\ Len(queue') = Len(queue) + 1 /\ queue'[Len(queue) + 1] = x
          /\ \A m \in 1 .. Len(queue) : queue'[m] = queue[m]
      BY <3>1, <2>0
    <3>3. Held' = Held \cup {x}
      BY <3>2, <2>0 DEF Held
    <3> QED
      BY <3>1, <3>3 DEF Pool!Next, Pool!Insert
  <2>2. ASSUME NEW x \in Item, InsertFails(x) PROVE Held' = Held
    BY <2>2 DEF InsertFails, vars, Held
  <2>3. CASE Swim
    <3>1. cur \in 2 .. Len(queue) /\ cur \in Nat /\ cur >= 2
      BY <2>0, <2>3 DEF Swim, IInv, CurInv
    <3>2. Parent(cur) \in Nat /\ 1 <= Parent(cur) /\ Parent(cur) < cur
      BY <3>1, ParentFacts
    <3>3. cur \in 1 .. n_alloc /\ Parent(cur) \in 1 .. n_alloc
      BY <2>0, <3>1, <3>2
    <3> QED
      BY <2>0, <2>3, <3>3, ExchHeld DEF Swim
  <2>4. CASE Sink
    <3>1. cur \in 1 .. n_alloc /\ LesserChild(cur) \in 1 .. n_alloc
      BY <2>0, <2>4 DEF Sink, SinkStops, IInv, CurInv, LesserChild
    <3> QED
      BY <2>0, <2>4, <3>1, ExchHeld DEF Sink
  <2>5. CASE SwimDone \/ SinkDone \/ UNCHANGED vars
    BY <2>5 DEF SwimDone, SinkDone, vars, Held
  <2>6. CASE DelMin
    <3> DEFINE n == Len(queue)
               e == exch(queue, 1, n)
    <3>1. pc = "idle" /\ n > 0 /\ queue' = SubSeq(e, 1, n - 1)
      BY <2>6 DEF DelMin
    <3>2. /\ e \in Seq(Item) /\ Len(e) = n
          /\ \A m \in 1 .. n : e[m] = IF m = n THEN queue[1] ELSE IF m = 1 THEN queue[n] ELSE queue[m]
      <4>1. 1 \in 1 .. Len(queue) /\ Len(queue) \in 1 .. Len(queue)
        BY <2>0, <3>1
      <4> QED
        BY <2>0, <4>1, ExchFacts
    <3> HIDE DEF e
    <3>3. /\ Len(queue') = n - 1
          /\ \A m \in 1 .. n - 1 : queue'[m] = IF m = 1 THEN queue[n] ELSE queue[m]
      BY <2>0, <3>1, <3>2
    <3>4. \A a, b \in 1 .. n : queue[a] = queue[b] => a = b
      BY DEF IInv, NoDuplicates
    <3>5. Held = {queue[m] : m \in 1 .. n} /\ Held' = {queue'[m] : m \in 1 .. n - 1}
      BY <3>3 DEF Held
    <3>6. n \in Nat /\ n > 0
      BY <2>0, <3>1
    <3> HIDE DEF n
    <3>7. ASSUME NEW y \in Held' PROVE y \in Held \ {queue[1]}
      BY <3>3, <3>4, <3>5, <3>6, <3>7
    <3>8. ASSUME NEW y \in Held \ {queue[1]} PROVE y \in Held'
      <4>1. PICK m \in 2 .. n : y = queue[m]
        BY <3>5, <3>6, <3>8
      <4>2. CASE m = n
        <5>1. 1 \in 1 .. n - 1 /\ queue'[1] = queue[n]
          BY <4>1, <4>2, <3>3, <3>6
        <5> QED
          BY <4>1, <4>2, <5>1, <3>5
      <4>3. CASE m # n
        <5>1. m \in 1 .. n - 1 /\ queue'[m] = queue[m]
          BY <4>1, <4>3, <3>3, <3>6
        <5> QED
          BY <4>1, <5>1, <3>5
      <4> QED
        BY <4>2, <4>3
    <3>9. Held' = Held \ {queue[1]}
      BY <3>7, <3>8
    <3>10. \A i \in 1 .. n : KeyOf[queue[1]] <= KeyOf[queue[i]]
      BY <2>0, <3>1, <3>6, HeapRootLeast DEF IInv, HeapOrder, n
    <3>11. queue[1] \in Pool!Least(Held)
      BY <3>5, <3>6, <3>10 DEF Pool!Least
    <3> QED
      BY <3>9, <3>11 DEF Pool!Next, Pool!RemoveLeast
  <2> QED
    BY <2>1, <2>2, <2>3, <2>4, <2>5, <2>6 DEF Next
<1> QED
  BY <1>1, <1>2, SpecIInv, PTL DEF Spec, ImplementsPool, Pool!Spec
=============================================================================
