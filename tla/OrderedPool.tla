---------------------------- MODULE OrderedPool ----------------------------
(***************************************************************************)
(* What a priority queue promises its callers, with nothing said of how:   *)
(* it holds a set of items, an item may be added, and the only item that   *)
(* may be taken out is one of least key.                                   *)
(***************************************************************************)
EXTENDS Naturals

CONSTANTS Item,   \* the things that can be queued
          KeyOf   \* the key each is ordered by

VARIABLE items    \* the items now held

Least(S) == {m \in S : \A x \in S : KeyOf[m] <= KeyOf[x]}

Init == items = {}

Insert(x) == /\ x \notin items
             /\ items' = items \cup {x}

RemoveLeast == \E m \in Least(items) : items' = items \ {m}

Next == RemoveLeast \/ \E x \in Item : Insert(x)

Spec == Init /\ [][Next]_items
=============================================================================
