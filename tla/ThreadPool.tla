----------------------------- MODULE ThreadPool -----------------------------
(***************************************************************************)
(* threadpool.c of simple_http_server, which server.c compiles out: the    *)
(* pool's mutex and condition variable, its list of tasks, the workers,    *)
(* and the callers that create, use and destroy it.                        *)
(*                                                                         *)
(* The mutex is held wherever the code forgets to release it, by callers   *)
(* that have returned and by workers that have exited alike.  Accesses     *)
(* made without it are steps of their own, reads apart from writes.        *)
(*                                                                         *)
(* A definition named X_y is a wrong form of the definition X after it, on *)
(* which the properties are seen to fail.                                  *)
(***************************************************************************)
EXTENDS Integers, FiniteSets, FiniteSetsExt

CONSTANTS Worker,     \* the threads of the pool
          Caller,     \* threads that add tasks, Main among them
          Destroyer,  \* callers that may call threadpool_destroy
          Task,       \* bound: the tasks that are added, each once
          Main,       \* the thread that creates the pool
          Nil         \* the NULL pointer, nobody

ASSUME ThreadAssumption ==
    /\ Main \in Caller /\ Destroyer \subseteq Caller
    /\ Worker \cap Caller = {} /\ Nil \notin Worker \cup Caller \cup Task
    /\ IsFiniteSet(Worker)

VARIABLES
    lock,        \* who holds the mutex
    waiting,     \* the workers asleep on the condition variable
    head,        \* head->next: the first task of the list
    next,        \* each task's next
    queue_size,
    shutdown,    \* 0, immediate_shutdown or graceful_shutdown
    started,
    pc,          \* where each thread is
    task,        \* the task a thread is adding or running
    reg,         \* what a thread has read of queue_size or started
    used,        \* the tasks callers have made, with the answers they got
    ran          \* how often each task's function was called

list == <<head, next, queue_size>>
vars == <<lock, waiting, head, next, queue_size, shutdown, started, pc, task,
          reg, used, ran>>

immediate_shutdown == 1
graceful_shutdown == 2

Thread == Worker \cup Caller

Init ==
    /\ lock = Nil /\ waiting = {}
    /\ head = Nil /\ next = [t \in Task |-> Nil]
    /\ queue_size = 0 /\ shutdown = 0 /\ started = 0
    /\ \E more \in (SUBSET Worker) \ {Worker} :
           pc = [x \in Thread |-> CASE x = Main -> "create"
                                    [] x \in more -> "unused"
                                    [] OTHER -> "off"]
    /\ task = [x \in Thread |-> Nil]
    /\ reg = [x \in Thread |-> 0]
    /\ used = [t \in Task |-> "new"]
    /\ ran = [t \in Task |-> 0]

Goto(x, l) == pc' = [pc EXCEPT ![x] = l]

Die == pc' = [x \in Thread |-> "dead"]

\* pthread_mutex_lock: also by a thread that holds the mutex, which waits for ever
Lock(x, from, to) ==
    /\ pc[x] = from
    /\ lock = Nil
    /\ lock' = x
    /\ Goto(x, to)
    /\ UNCHANGED <<waiting, list, shutdown, started, task, reg, used, ran>>

-----------------------------------------------------------------------------
(***************************************************************************)
(* threadpool_init                                                         *)
(***************************************************************************)
Started == started + 1

Create(w) ==
    /\ pc[Main] = "create" /\ pc[w] = "off"
    /\ pc' = [pc EXCEPT ![w] = "lock"]
    /\ started' = Started
    /\ UNCHANGED <<lock, waiting, list, shutdown, task, reg, used, ran>>

\* pthread_create failed: threadpool_destroy(pool, 0)
CreateFails ==
    /\ pc[Main] = "create" /\ \E w \in Worker : pc[w] = "off"
    /\ Goto(Main, "destroy_now")
    /\ UNCHANGED <<lock, waiting, list, shutdown, started, task, reg, used, ran>>

Created ==
    /\ pc[Main] = "create" /\ \A w \in Worker : pc[w] # "off"
    /\ pc' = [x \in Thread |-> IF x \in Caller THEN "idle" ELSE pc[x]]
    /\ UNCHANGED <<lock, waiting, list, shutdown, started, task, reg, used, ran>>

-----------------------------------------------------------------------------
(***************************************************************************)
(* threadpool_add_worker                                                   *)
(***************************************************************************)
Gone == \E x \in Caller : pc[x] = "destroyed"

AddCall(x) ==
    /\ pc[x] = "idle" /\ ~Gone
    /\ Cardinality({y \in Caller : pc[y] \in {"add", "malloc"}})
         < Cardinality({t \in Task : used[t] = "new"})
    /\ Goto(x, "add")
    /\ UNCHANGED <<lock, waiting, list, shutdown, started, task, reg, used, ran>>

\* a pool that is shut down refuses the task, releases the mutex and goes on;
\* malloc gives the task, and next is read from the head
AddMalloc(x) ==
    /\ pc[x] = "malloc"
    /\ \E t \in Task :
         /\ used[t] = "new"
         /\ used' = [used EXCEPT ![t] = IF shutdown = 0 THEN "accepted" ELSE "refused"]
         /\ task' = [task EXCEPT ![x] = t]
         /\ next' = [next EXCEPT ![t] = head]
    /\ lock' = IF shutdown = 0 THEN lock ELSE Nil
    /\ Goto(x, "link")
    /\ UNCHANGED <<waiting, head, queue_size, shutdown, started, reg, ran>>

\* malloc failed: the mutex is released, and NULL written through, of which the
\* process dies
AddMallocFails(x) ==
    /\ pc[x] = "malloc"
    /\ lock' = Nil
    /\ Die
    /\ UNCHANGED <<waiting, list, shutdown, started, task, reg, used, ran>>

Counted(x) == reg[x] + 1

AddLink(x) ==
    /\ pc[x] = "link"
    /\ head' = task[x]
    /\ reg' = [reg EXCEPT ![x] = queue_size]
    /\ Goto(x, "count")
    /\ UNCHANGED <<lock, waiting, next, queue_size, shutdown, started, task, used, ran>>

AddCount(x) ==
    /\ pc[x] = "count"
    /\ queue_size' = Counted(x)
    /\ Goto(x, "signal")
    /\ UNCHANGED <<lock, waiting, head, next, shutdown, started, task, reg, used, ran>>

Woken_unlocked == "test"

\* where pthread_cond_wait goes on once woken: it takes the mutex again
Woken == "relock"

\* pthread_cond_signal; the mutex, if it is held, stays so
AddSignal(x) ==
    /\ pc[x] = "signal"
    /\ \E ws \in SUBSET waiting :
         /\ Cardinality(ws) = (IF waiting = {} THEN 0 ELSE 1)
         /\ waiting' = waiting \ ws
         /\ pc' = [y \in Thread |-> IF y \in ws THEN Woken
                                    ELSE IF y = x THEN "idle" ELSE pc[y]]
    /\ task' = [task EXCEPT ![x] = Nil]
    /\ UNCHANGED <<lock, list, shutdown, started, reg, used, ran>>

-----------------------------------------------------------------------------
(***************************************************************************)
(* threadpool_destroy and threadpool_free                                  *)
(***************************************************************************)
DestroyCall(x, l) ==
    /\ x \in Destroyer /\ pc[x] = "idle" /\ ~Gone
    /\ Goto(x, l)
    /\ UNCHANGED <<lock, waiting, list, shutdown, started, task, reg, used, ran>>

DestroyLock(x) == Lock(x, "destroy_now", "shut_now") \/ Lock(x, "destroy_later", "shut_later")

Broadcast_none == {}

\* pthread_cond_broadcast wakes them all
Broadcast == waiting

DestroyShut(x) ==
    /\ pc[x] \in {"shut_now", "shut_later"}
    /\ shutdown = 0
    /\ shutdown' = IF pc[x] = "shut_now" THEN immediate_shutdown ELSE graceful_shutdown
    /\ waiting' = waiting \ Broadcast
    /\ pc' = [y \in Thread |-> IF y \in Broadcast THEN Woken
                               ELSE IF y = x THEN "join" ELSE pc[y]]
    /\ lock' = Nil
    /\ UNCHANGED <<list, started, task, reg, used, ran>>

\* tp_already_shutdown: returns with the mutex held
DestroyAgain(x) ==
    /\ pc[x] \in {"shut_now", "shut_later"}
    /\ shutdown # 0
    /\ Goto(x, "idle")
    /\ UNCHANGED <<lock, waiting, list, shutdown, started, task, reg, used, ran>>

\* threadpool_free gives up unless started is negative
FreesTasks == started < 0

\* all workers are joined; that a mutex one of them still holds is not destroyed
\* nobody looks at.  threadpool_free frees the list, if anything
DestroyJoin(x) ==
    /\ pc[x] = "join"
    /\ \A w \in Worker : pc[w] \in {"off", "unused", "exited"}
    /\ Goto(x, "destroyed")
    /\ head' = IF FreesTasks THEN Nil ELSE head
    /\ UNCHANGED <<lock, waiting, next, queue_size, shutdown, started, task, reg,
                   used, ran>>

-----------------------------------------------------------------------------
(***************************************************************************)
(* threadpool_worker                                                       *)
(***************************************************************************)
WorkerLock(w) == Lock(w, "lock", "test") \/ Lock(w, "relock", "test")

MaySleep_early == queue_size = 0

MaySleep == queue_size = 0 /\ shutdown = 0

\* pthread_cond_wait
WorkerWait(w) ==
    /\ pc[w] = "test" /\ MaySleep
    /\ waiting' = waiting \cup {w}
    /\ lock' = Nil
    /\ Goto(w, "waiting")
    /\ UNCHANGED <<list, shutdown, started, task, reg, used, ran>>

\* POSIX lets pthread_cond_wait return for no reason
SpuriousWakeup(w) ==
    /\ pc[w] = "waiting"
    /\ waiting' = waiting \ {w}
    /\ Goto(w, Woken)
    /\ UNCHANGED <<lock, list, shutdown, started, task, reg, used, ran>>

MayExit == \/ shutdown = immediate_shutdown
           \/ shutdown = graceful_shutdown /\ queue_size = 0

\* break, and pthread_exit with the mutex held
WorkerExit(w) ==
    /\ pc[w] = "test" /\ ~MaySleep /\ MayExit
    /\ Goto(w, "exited")
    /\ UNCHANGED <<lock, waiting, list, shutdown, started, task, reg, used, ran>>

\* task = pool->head->next
WorkerTake(w) ==
    /\ pc[w] = "test" /\ ~MaySleep /\ ~MayExit
    /\ head # Nil
    /\ task' = [task EXCEPT ![w] = head]
    /\ Goto(w, "unlink")
    /\ UNCHANGED <<lock, waiting, list, shutdown, started, reg, used, ran>>

WorkerFindsNone(w) ==
    /\ pc[w] = "test" /\ ~MaySleep /\ ~MayExit
    /\ head = Nil
    /\ lock' = Nil
    /\ Goto(w, "lock")
    /\ UNCHANGED <<waiting, list, shutdown, started, task, reg, used, ran>>

\* a task that was freed is read: nothing is said of what follows
WorkerUnlink(w) ==
    /\ pc[w] = "unlink"
    /\ head' = next[task[w]]
    /\ reg' = [reg EXCEPT ![w] = queue_size]
    /\ IF ran[task[w]] > 0 THEN Die ELSE Goto(w, "uncount")
    /\ UNCHANGED <<lock, waiting, next, queue_size, shutdown, started, task, used, ran>>

Uncounted_not(w) == reg[w]

Uncounted(w) == reg[w] - 1

WorkerUncount(w) ==
    /\ pc[w] = "uncount"
    /\ queue_size' = Uncounted(w)
    /\ lock' = Nil
    /\ Goto(w, "run")
    /\ UNCHANGED <<waiting, head, next, shutdown, started, task, reg, used, ran>>

\* the task's function is called, the task freed, and started read
WorkerRun(w) ==
    /\ pc[w] = "run"
    /\ ran' = [ran EXCEPT ![task[w]] = @ + 1]
    /\ reg' = [reg EXCEPT ![w] = started]
    /\ task' = [task EXCEPT ![w] = Nil]
    /\ Goto(w, "ran")
    /\ UNCHANGED <<lock, waiting, list, shutdown, started, used>>

WorkerRan(w) ==
    /\ pc[w] = "ran"
    /\ started' = reg[w] - 1
    /\ Goto(w, "lock")
    /\ UNCHANGED <<lock, waiting, list, shutdown, task, reg, used, ran>>

-----------------------------------------------------------------------------
Calls(x) == AddCall(x) \/ DestroyCall(x, "destroy_now") \/ DestroyCall(x, "destroy_later")

InCall(x) == \/ Lock(x, "add", "malloc")
             \/ AddMalloc(x) \/ AddLink(x) \/ AddCount(x) \/ AddSignal(x)
             \/ DestroyLock(x) \/ DestroyShut(x) \/ DestroyAgain(x) \/ DestroyJoin(x)

Works(w) == \/ WorkerLock(w) \/ WorkerWait(w) \/ WorkerExit(w)
            \/ WorkerTake(w) \/ WorkerFindsNone(w) \/ WorkerUnlink(w)
            \/ WorkerUncount(w) \/ WorkerRun(w) \/ WorkerRan(w)

Next == \/ CreateFails \/ Created
        \/ \E w \in Worker : Create(w) \/ Works(w) \/ SpuriousWakeup(w)
        \/ \E x \in Caller : Calls(x) \/ InCall(x) \/ AddMallocFails(x)

\* every thread runs, and one that asks for the mutex again and again gets it;
\* callers may stop calling, and malloc and pthread_create need not fail
Fairness ==
    /\ WF_vars(Created) /\ WF_vars(\E w \in Worker : Create(w))
    /\ \A w \in Worker : WF_vars(Works(w)) /\ SF_vars(WorkerLock(w))
    /\ \A x \in Caller : WF_vars(InCall(x)) /\ SF_vars(Lock(x, "add", "malloc"))
                                            /\ SF_vars(DestroyLock(x))

Spec == Init /\ [][Next]_vars /\ Fairness

-----------------------------------------------------------------------------
\* No wake-up is lost: once threadpool_destroy has shut the pool down and told
\* the workers, none of them is asleep or will sleep again, so that the joins wait
\* only for workers that run or want the mutex.
NoSleepAfterShutdown == shutdown # 0 => waiting = {}

\* at most one task was refused
OneRefused == \A s, t \in Task : used[s] = "refused" /\ used[t] = "refused" => s = t

\* As long as there is a pool, queue_size, which the workers go by, counts the
\* list but for a task that is just being linked or unlinked, and no task is run
\* twice: although a refused task is linked and counted without the mutex, beside
\* the workers.  Two refused tasks are left out, whose callers may link over one
\* another; and as the mutex is never free again after an accepted one, the list
\* never holds more than one.
ListCounted ==
    (~Gone /\ pc[Main] # "dead" /\ OneRefused) =>
        /\ queue_size = IF \/ head # Nil /\ \A x \in Caller : pc[x] # "count"
                           \/ \E w \in Worker : pc[w] = "uncount"
                        THEN 1 ELSE 0
        /\ head # Nil => next[head] = Nil
        /\ \A t \in Task : ran[t] =< 1

\* Two workers are never both between taking the mutex and releasing it, wherever
\* else the mutex has been lost: the list has one reader at a time.
Exclusion ==
    \A v, w \in Worker :
        (v # w /\ pc[v] \in {"test", "unlink", "uncount"}) =>
            pc[w] \notin {"test", "unlink", "uncount"}

\* threadpool_destroy, once it has shut down a pool of one worker, joins the
\* worker and returns, whoever adds tasks or destroys the pool at the same time:
\* unless another call has kept the mutex, or two tasks were refused, each of
\* which changes the list beside the worker.
DestroyReturns ==
    LET one == \E w \in Worker : \A v \in Worker \ {w} : pc[v] = "unused"
        kept == lock \in Caller /\ pc[lock] \in {"idle", "add", "destroy_now", "destroy_later"}
    IN \A x \in Caller :
           (one /\ pc[x] = "join") ~>
               (pc[x] \in {"destroyed", "dead"} \/ kept \/ ~OneRefused)

\* "After a task was added, a waiting thread has to be woken": a task that the
\* pool accepted is run, unless the pool is shut down.
AddedIsRun == \A t \in Task : used[t] = "accepted" ~> (ran[t] > 0 \/ shutdown # 0)
=============================================================================
