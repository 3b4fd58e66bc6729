----------------------------- MODULE BucketSort -----------------------------
(***************************************************************************)
(* multi_thread_bucket_sort_new.c: the numbers of a file are divided among *)
(* k threads by splitters; each thread picks the numbers of its bucket out *)
(* of the common array and puts them, in order, into its part of the       *)
(* result.  Parts and arrays count from 0 in the code and here.            *)
(*                                                                         *)
(* Memory that is read before it is written holds any number.  The arrays  *)
(* elements_in_bucket and sorted_arr_bound are written past their ends,    *)
(* which stays inside malloc's smallest piece for the k of this model.     *)
(*                                                                         *)
(* A definition named X_y is a wrong form of the definition X after it, on *)
(* which the property is seen to fail.                                     *)
(***************************************************************************)
EXTENDS Integers, SequencesExt, FiniteSetsExt

CONSTANTS File,           \* contents of files: sequences of numbers
          Number,         \* the numbers in them
          MaxThreads,     \* bound: k
          None,           \* a place that is not yet written
          LOWER_INFINITE, UPPER_INFINITE

VARIABLES
    pc,                  \* where main is
    k,                   \* the number of threads, from the command line
    arr,                 \* the numbers; before they are read, the file's
    final_splitter,
    elements_in_bucket,
    thread,              \* per thread: its local_arr, and how far it is in it; -1 before
    sorted               \* the result

vars == <<pc, k, arr, final_splitter, elements_in_bucket, thread, sorted>>

Id == 0..(k - 1)
Len0(f) == Cardinality(DOMAIN f)
Array(s) == [i \in 0..(Len(s) - 1) |-> s[i + 1]]

\* the number of i of a set that satisfy what is true of them in f
Count(f) == Cardinality({i \in DOMAIN f : f[i]})

Init ==
    /\ pc = "read" /\ k \in 1..MaxThreads
    /\ arr \in {Array(s) : s \in File}
    /\ final_splitter = << >> /\ elements_in_bucket = << >>
    /\ thread = << >> /\ sorted = << >>

\* while(!feof(fp)): after a last newline, or in an empty file, one time too many
Read ==
    /\ pc = "read" /\ pc' = "split"
    /\ \/ arr # << >> /\ UNCHANGED arr
       \/ \E any \in Number : arr' = [i \in 0..Len0(arr) |-> IF i = Len0(arr) THEN any ELSE arr[i]]
    /\ UNCHANGED <<k, final_splitter, elements_in_bucket, thread, sorted>>

\* the elements of a from p to p + n - 1 in order
Qsort(a, p, n) ==
    LET part == SortSeq([i \in 1..n |-> a[p + i - 1]], LAMBDA x, y : x < y)
    IN [i \in DOMAIN a |-> IF p <= i /\ i < p + n THEN part[i - p + 1] ELSE a[i]]

Gap == Len0(arr) \div (k * k)
PartLen(i) == IF i + Gap * k > Len0(arr) THEN Len0(arr) - i ELSE Gap * k

\* the sizes of parts of the array, and the parts from 0, k, 2k, ... on, one after the other
PartsSorted ==
    LET after[j \in 0..k] ==
            IF j = 0 THEN arr ELSE Qsort(after[j - 1], (j - 1) * k, PartLen((j - 1) * k))
    IN after[k]

\* every kth of the elements that stand Gap apart, those at multiples of k left out
Splitters(a) ==
    LET place(j) == j + j \div (k - 1) + 1
        candidate == [j \in 0..(k * (k - 1) - 1) |-> a[place(j) * Gap]]
        ordered == Qsort(candidate, 0, k * (k - 1))
    IN [i \in 0..(k - 2) |-> ordered[(i + 1) * k - 1]]

\* qsort of a negative length ends the program
FindSplitters ==
    /\ pc = "split"
    /\ IF \E i \in Id : PartLen(i * k) < 0
       THEN pc' = "crashed" /\ UNCHANGED <<arr, final_splitter>>
       ELSE /\ pc' = "count" /\ arr' = PartsSorted
            /\ final_splitter' = Splitters(arr')
    /\ UNCHANGED <<k, elements_in_bucket, thread, sorted>>

Bucket(x) ==
    LET above == {j \in DOMAIN final_splitter : final_splitter[j] >= x}
    IN IF above = {} THEN k - 1 ELSE Min(above)

CountElements ==
    /\ pc = "count" /\ pc' = "create"
    /\ elements_in_bucket' = [j \in Id |-> Count([i \in DOMAIN arr |-> Bucket(arr[i]) = j])]
    /\ sorted' = [i \in DOMAIN arr |-> None]
    /\ UNCHANGED <<k, arr, final_splitter, thread>>

Bound_upto(i) == MapThenSumSet(LAMBDA j : elements_in_bucket[j], 0..i)

\* find_arr_bound_in_sorted
Bound(i) == MapThenSumSet(LAMBDA j : elements_in_bucket[j], 0..(i - 1))

\* a thread's parameters
Param(i) ==
    [lower |-> Bound(i), count |-> elements_in_bucket[i],
     lower_value |-> IF i = 0 THEN LOWER_INFINITE ELSE final_splitter[i - 1],
     upper_value |-> IF i = k - 1 THEN UPPER_INFINITE ELSE final_splitter[i]]

\* pthread_create, in order; the threads begin when they like
Create ==
    /\ pc = "create"
    /\ LET i == Len0(thread) IN
           IF i = k THEN pc' = "join" /\ UNCHANGED thread
           ELSE thread' = [j \in 0..i |-> IF j = i THEN [at |-> -1, local |-> << >>] ELSE thread[j]]
                /\ UNCHANGED pc
    /\ UNCHANGED <<k, arr, final_splitter, elements_in_bucket, sorted>>

\* local_arr has room for count numbers; those that are not found are any
Pick(i) ==
    /\ i \in DOMAIN thread /\ thread[i].at = -1
    /\ LET p == Param(i)
           found == SelectSeq([n \in 1..Len0(arr) |-> arr[n - 1]],
                              LAMBDA x : x <= p.upper_value /\ x > p.lower_value)
       IN \E any \in [(Len(found) + 1)..p.count -> Number] :
             LET local == [n \in 1..p.count |-> IF n \in DOMAIN found THEN found[n] ELSE any[n]]
             IN thread' = [thread EXCEPT ![i] = [at |-> 0, local |-> Qsort(Array(local), 0, p.count)]]
    /\ UNCHANGED <<pc, k, arr, final_splitter, elements_in_bucket, sorted>>

\* one number after the other into the thread's part of the result
Put(i) ==
    /\ i \in DOMAIN thread /\ thread[i].at >= 0
    /\ thread[i].at < Param(i).count
    /\ sorted' = [sorted EXCEPT ![Param(i).lower + thread[i].at] = thread[i].local[thread[i].at]]
    /\ thread' = [thread EXCEPT ![i].at = @ + 1]
    /\ UNCHANGED <<pc, k, arr, final_splitter, elements_in_bucket>>

Ended(i) == thread[i].at = Param(i).count

\* pthread_join of all threads, and the result written to a file
Join ==
    /\ pc = "join" /\ pc' = "done"
    /\ \A i \in Id : Ended(i)
    /\ UNCHANGED <<k, arr, final_splitter, elements_in_bucket, thread, sorted>>

Over == pc \in {"done", "crashed"} /\ UNCHANGED vars

Next ==
    \/ Read \/ FindSplitters \/ CountElements \/ Create \/ Join \/ Over
    \/ \E i \in Id : Pick(i) \/ Put(i)

Spec == Init /\ [][Next]_vars

-----------------------------------------------------------------------------
\* Whatever the threads' order, the result is what the array holds in ascending
\* order, as long as all numbers lie between the two that stand for infinity: the
\* places that main counted for a thread are those that the thread's own choice
\* of numbers fills (count_elements_each_bucket and sort).
SortsAll ==
    pc = "done" /\ (\A i \in DOMAIN arr : LOWER_INFINITE < arr[i] /\ arr[i] <= UPPER_INFINITE)
        => sorted = Qsort(arr, 0, Len0(arr))
=============================================================================
