-------------------------- MODULE MC_PriorityQueue --------------------------
\* The heap with seven items, two pairs of them with equal keys: three full
\* levels, growths 2 -> 4 -> 8 and a shrink back, from an initial size of 1.
EXTENDS PriorityQueue

MCItem == 1 .. 7
MCKeyOf == [i \in MCItem |-> CASE i = 1 -> 1 [] i \in {2, 3} -> 2 [] i \in {4, 5} -> 4 [] OTHER -> 5]
=============================================================================
