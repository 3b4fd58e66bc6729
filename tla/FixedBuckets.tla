---------------------------- MODULE FixedBuckets ----------------------------
(***************************************************************************)
(* multi_thread_bucket_sort.c, and bucket_sort_read_file.c, its sequential *)
(* form: the numbers of a file are put into BUCKET_NUM buckets of          *)
(* BUCKET_SIZE places by their size; each bucket is sorted, in the first   *)
(* program by a thread of its own on a copy; the buckets are put together  *)
(* in the array again.  A place that holds 0 is a free one.                *)
(*                                                                         *)
(* A definition named X_y is a wrong form of the definition X after it, on *)
(* which the property is seen to fail.                                     *)
(***************************************************************************)
EXTENDS Integers, SequencesExt, FiniteSetsExt

CONSTANTS File,          \* contents of files: sequences of lines
          Number,        \* what lines hold, and memory that was not written
          BUCKET_NUM, BUCKET_SIZE,
          None           \* a line without a number

VARIABLES
    threads,  \* which of the two programs
    pc,       \* where main is
    arr,      \* the numbers; before they are read, the lines
    given,    \* the numbers as they were read
    buckets,  \* per bucket: its places
    param,    \* per thread: its copy of its bucket
    sorted    \* the threads that are through

vars == <<threads, pc, arr, given, buckets, param, sorted>>

Index == 0..(BUCKET_NUM - 1)
Empty == [j \in 1..BUCKET_SIZE |-> 0]

Init ==
    /\ threads \in BOOLEAN
    /\ pc = "read" /\ arr \in File /\ given = << >>
    /\ buckets = [b \in Index |-> Empty] /\ param = << >> /\ sorted = {}

\* cal_data_length, malloc and assign_arr: a line without a number leaves its place as it was
Read ==
    /\ pc = "read" /\ pc' = "fill"
    /\ \E any \in [{i \in DOMAIN arr : arr[i] = None} -> Number] :
           arr' = [i \in DOMAIN arr |-> IF arr[i] = None THEN any[i] ELSE arr[i]]
    /\ given' = arr'
    /\ UNCHANGED <<threads, buckets, param, sorted>>

\* of arr, which still holds what was read
Least == Min(ToSet(given))
Greatest == Max(ToSet(given))

\* the division of integers; then by range, which may be 0.0
Spread == (Greatest - Least + 1) \div BUCKET_NUM

BucketOf(x) == Min({(x - Least) \div Spread, BUCKET_NUM - 1})

\* into the first place that is free; into none if there is none
Placed(b, x) ==
    IF \E j \in DOMAIN b : b[j] = 0
    THEN [b EXCEPT ![Min({j \in DOMAIN b : b[j] = 0})] = x] ELSE b

Filled ==
    LET after[i \in 0..Len(arr)] ==
            IF i = 0 THEN buckets
            ELSE [after[i - 1] EXCEPT ![BucketOf(arr[i])] = Placed(@, arr[i])]
    IN after[Len(arr)]

\* a number divided by 0.0 is no index of an int: the program is killed
Fill ==
    /\ pc = "fill"
    /\ IF arr # << >> /\ Spread = 0
       THEN pc' = "crashed" /\ UNCHANGED buckets
       ELSE /\ pc' = IF threads THEN "create" ELSE "gather"
            /\ buckets' = IF arr = << >> THEN buckets ELSE Filled
    /\ UNCHANGED <<threads, arr, given, param, sorted>>

\* the places up to the first free one
Used(b) == SelectInSeq(Append(b, 0), LAMBDA x : x = 0) - 1

\* bubble sort of those places
Sort(b) ==
    LET part == SortSeq(SubSeq(b, 1, Used(b)), LAMBDA x, y : x < y)
    IN part \o SubSeq(b, Used(b) + 1, BUCKET_SIZE)

\* arr with what the buckets hold from its beginning on
Gathered(bs) ==
    LET all == FlattenSeq([i \in 1..BUCKET_NUM |-> SubSeq(bs[i - 1], 1, Used(bs[i - 1]))])
    IN all \o SubSeq(arr, Len(all) + 1, Len(arr))

-----------------------------------------------------------------------------
(***************************************************************************)
(* A thread for each bucket.                                               *)
(***************************************************************************)
\* param_init and pthread_create, bucket by bucket
Create ==
    /\ pc = "create"
    /\ param' = Append(param, buckets[Len(param)])
    /\ pc' = IF Len(param') = BUCKET_NUM THEN "join" ELSE "create"
    /\ UNCHANGED <<threads, arr, given, buckets, sorted>>

ThreadFunc(i) ==
    /\ i \in DOMAIN param \ sorted
    /\ param' = [param EXCEPT ![i] = Sort(@)] /\ sorted' = sorted \cup {i}
    /\ UNCHANGED <<threads, pc, arr, given, buckets>>

Joined_last == BUCKET_NUM \in sorted

\* pthread_join of each
Joined == \A i \in 1..BUCKET_NUM : i \in sorted

Merge ==
    /\ pc = "join" /\ pc' = "done" /\ Joined
    /\ arr' = Gathered([b \in Index |-> param[b + 1]])
    /\ UNCHANGED <<threads, given, buckets, param, sorted>>

-----------------------------------------------------------------------------
\* without threads: sort the buckets, copy them back and clear their used places
Gather ==
    /\ pc = "gather" /\ pc' = "done"
    /\ LET ordered == [b \in Index |-> Sort(buckets[b])]
       IN /\ arr' = Gathered(ordered)
          /\ buckets' = [b \in Index |-> [j \in 1..BUCKET_SIZE |->
                            IF j <= Used(ordered[b]) THEN 0 ELSE ordered[b][j]]]
    /\ UNCHANGED <<threads, given, param, sorted>>

Over == pc \in {"done", "crashed"} /\ UNCHANGED vars

Next ==
    \/ Read \/ Fill \/ Create \/ Merge \/ Gather \/ Over
    \/ \E i \in 1..BUCKET_NUM : ThreadFunc(i)

Spec == Init /\ [][Next]_vars

-----------------------------------------------------------------------------
\* no bucket is given more numbers than it has places for
Fit ==
    \A b \in Index : Cardinality({i \in DOMAIN given : BucketOf(given[i]) = b}) <= BUCKET_SIZE

\* In the end the array holds what was read, in ascending order, unless a 0 was
\* among it, or a bucket was too small: then numbers are dropped (bucket_sort).
KeepsAll ==
    pc = "done" /\ 0 \notin ToSet(given) /\ Fit
        => arr = SortSeq(given, LAMBDA x, y : x < y)
=============================================================================
