------------------------- MODULE ThreadPool_proofs --------------------------
(***************************************************************************)
(* What the pool's mutex and condition variable guarantee for every number *)
(* of workers, callers and tasks.                                          *)
(***************************************************************************)
EXTENDS ThreadPool, TLAPS

CallerPc == {"create", "off", "idle", "dead", "add", "malloc", "link", "count", "signal",
             "destroy_now", "destroy_later", "shut_now", "shut_later", "join", "destroyed"}
WorkerPc == {"off", "unused", "lock", "test", "waiting", "relock", "unlink", "uncount", "run", "ran",
             "exited", "dead"}

\* where a thread is between taking the mutex and releasing it for certain
Critical == {"test", "unlink", "uncount", "malloc", "shut_now", "shut_later"}

PcOK == pc \in [Thread -> CallerPc \cup WorkerPc]

HoldersHold == \A x \in Thread : pc[x] \in Critical => lock = x

IInv == PcOK /\ HoldersHold /\ NoSleepAfterShutdown

-----------------------------------------------------------------------------
\* A thread that goes nowhere critical, or that has the mutex, with everybody else
\* where they were, leaves the holders holding.
LEMMA Moves ==
    ASSUME IInv, NEW x \in Thread, NEW l \in CallerPc \cup WorkerPc, Goto(x, l),
           \/ lock' = lock /\ (l \in Critical => lock = x)
           \/ lock = x /\ lock' = Nil /\ l \notin Critical
           \/ lock = Nil /\ lock' = x
    PROVE  PcOK' /\ HoldersHold'
<1>1. PcOK'
  BY DEF IInv, PcOK, Goto
<1>2. ASSUME NEW y \in Thread, pc'[y] \in Critical PROVE lock' = y
  <2>1. CASE y = x
    BY <1>2, <2>1, ThreadAssumption DEF IInv, PcOK, HoldersHold, Goto
  <2>2. CASE y # x
    <3>1. pc[y] \in Critical
      BY <1>2, <2>2 DEF IInv, PcOK, Goto
    <3>2. lock = y /\ y # Nil
      BY <3>1, ThreadAssumption DEF IInv, HoldersHold, Thread
    <3> QED
      BY <2>2, <3>2
  <2> QED
    BY <2>1, <2>2
<1> QED
  BY <1>1, <1>2 DEF HoldersHold

\* Some sleepers are woken, and a thread that is not critical moves elsewhere.
LEMMA Wakes ==
    ASSUME IInv, NEW x \in Thread, NEW l \in CallerPc \ Critical, NEW ws,
           pc' = [y \in Thread |-> IF y \in ws THEN Woken ELSE IF y = x THEN l ELSE pc[y]],
           lock' = lock \/ (lock = x /\ lock' = Nil)
    PROVE  PcOK' /\ HoldersHold'
<1>1. Woken \in WorkerPc \ Critical
  BY DEF Woken, WorkerPc, Critical
<1>2. PcOK'
  BY <1>1 DEF IInv, PcOK
<1>3. ASSUME NEW y \in Thread, pc'[y] \in Critical PROVE lock' = y
  <2>1. y # x /\ pc[y] \in Critical
    BY <1>1, <1>3
  <2> QED
    BY <2>1 DEF IInv, HoldersHold
<1> QED
  BY <1>2, <1>3 DEF HoldersHold

\* Nobody is anywhere critical.
LEMMA Dies ==
    ASSUME IInv, Die
    PROVE  PcOK' /\ HoldersHold'
<1>1. \A x \in Thread : pc'[x] = "dead"
  BY DEF Die
<1> QED
  BY <1>1 DEF Die, PcOK, HoldersHold, CallerPc, WorkerPc, Critical

-----------------------------------------------------------------------------
LEMMA InitIInv == Init => IInv
<1> SUFFICES ASSUME Init PROVE IInv
  OBVIOUS
<1>1. \A x \in Thread : pc[x] \in {"create", "off", "unused"}
  BY DEF Init
<1> QED
  BY <1>1 DEF Init, IInv, PcOK, HoldersHold, NoSleepAfterShutdown, CallerPc, WorkerPc, Critical

LEMMA CallsIInv == ASSUME IInv, NEW x \in Caller, Calls(x) PROVE IInv'
<1> x \in Thread
  BY DEF Thread
<1>1. CASE AddCall(x)
  <2>1. PcOK' /\ HoldersHold'
    BY <1>1, Moves DEF AddCall, CallerPc, Critical
  <2> QED
    BY <1>1, <2>1 DEF AddCall, IInv, NoSleepAfterShutdown
<1>2. ASSUME NEW l \in {"destroy_now", "destroy_later"}, DestroyCall(x, l) PROVE IInv'
  <2>1. PcOK' /\ HoldersHold'
    BY <1>2, Moves DEF DestroyCall, CallerPc, Critical
  <2> QED
    BY <1>2, <2>1 DEF DestroyCall, IInv, NoSleepAfterShutdown
<1> QED
  BY <1>1, <1>2 DEF Calls

LEMMA LockIInv ==
    ASSUME IInv, NEW x \in Thread, NEW from, NEW to \in CallerPc \cup WorkerPc, Lock(x, from, to)
    PROVE  IInv'
<1>1. PcOK' /\ HoldersHold'
  BY Moves DEF Lock
<1> QED
  BY <1>1 DEF Lock, IInv, NoSleepAfterShutdown

LEMMA AddIInv ==
    ASSUME IInv, NEW x \in Caller,
           AddMalloc(x) \/ AddMallocFails(x) \/ AddLink(x) \/ AddCount(x) \/ AddSignal(x)
    PROVE  IInv'
<1> x \in Thread
  BY DEF Thread
<1>1. CASE AddMalloc(x)
  <2>1. lock = x /\ (lock' = lock \/ lock' = Nil)
    BY <1>1 DEF AddMalloc, IInv, HoldersHold, Critical
  <2>2. PcOK' /\ HoldersHold'
    BY <1>1, <2>1, Moves DEF AddMalloc, CallerPc, Critical
  <2> QED
    BY <1>1, <2>2 DEF AddMalloc, IInv, NoSleepAfterShutdown
<1>2. CASE AddMallocFails(x)
  BY <1>2, Dies DEF AddMallocFails, IInv, NoSleepAfterShutdown
<1>3. CASE AddLink(x)
  <2>1. PcOK' /\ HoldersHold'
    BY <1>3, Moves DEF AddLink, CallerPc, Critical
  <2> QED
    BY <1>3, <2>1 DEF AddLink, IInv, NoSleepAfterShutdown
<1>4. CASE AddCount(x)
  <2>1. PcOK' /\ HoldersHold'
    BY <1>4, Moves DEF AddCount, CallerPc, Critical
  <2> QED
    BY <1>4, <2>1 DEF AddCount, IInv, NoSleepAfterShutdown
<1>5. CASE AddSignal(x)
  <2>1. "idle" \in CallerPc \ Critical
    BY DEF CallerPc, Critical
  <2>2. PICK ws \in SUBSET waiting :
           /\ waiting' = waiting \ ws
           /\ pc' = [y \in Thread |-> IF y \in ws THEN Woken
                                      ELSE IF y = x THEN "idle" ELSE pc[y]]
    BY <1>5 DEF AddSignal
  <2>3. PcOK' /\ HoldersHold'
    BY <1>5, <2>1, <2>2, Wakes DEF AddSignal
  <2> QED
    BY <1>5, <2>2, <2>3 DEF AddSignal, IInv, NoSleepAfterShutdown
<1> QED
  BY <1>1, <1>2, <1>3, <1>4, <1>5

LEMMA DestroyIInv ==
    ASSUME IInv, NEW x \in Caller, DestroyShut(x) \/ DestroyAgain(x) \/ DestroyJoin(x)
    PROVE  IInv'
<1> x \in Thread
  BY DEF Thread
<1>1. CASE DestroyShut(x)
  <2>1. "join" \in CallerPc \ Critical
    BY DEF CallerPc, Critical
  <2>2. lock = x
    BY <1>1 DEF DestroyShut, IInv, HoldersHold, Critical
  <2>3. PcOK' /\ HoldersHold'
    BY <1>1, <2>1, <2>2, Wakes DEF DestroyShut
  <2>4. waiting' = {}
    BY <1>1 DEF DestroyShut, Broadcast
  <2> QED
    BY <2>3, <2>4 DEF IInv, NoSleepAfterShutdown
<1>2. CASE DestroyAgain(x)
  <2>1. PcOK' /\ HoldersHold'
    BY <1>2, Moves DEF DestroyAgain, CallerPc, Critical
  <2> QED
    BY <1>2, <2>1 DEF DestroyAgain, IInv, NoSleepAfterShutdown
<1>3. CASE DestroyJoin(x)
  <2>1. PcOK' /\ HoldersHold'
    BY <1>3, Moves DEF DestroyJoin, CallerPc, Critical
  <2> QED
    BY <1>3, <2>1 DEF DestroyJoin, IInv, NoSleepAfterShutdown
<1> QED
  BY <1>1, <1>2, <1>3

LEMMA WorksIInv == ASSUME IInv, NEW w \in Worker, Works(w) PROVE IInv'
<1> w \in Thread
  BY DEF Thread
<1>1. CASE WorkerLock(w)
  BY <1>1, LockIInv DEF WorkerLock, WorkerPc
<1>2. CASE WorkerWait(w)
  <2>1. PcOK' /\ HoldersHold'
    BY <1>2, Moves DEF WorkerWait, WorkerPc, Critical, IInv, HoldersHold
  <2> QED
    BY <1>2, <2>1 DEF WorkerWait, MaySleep, IInv, NoSleepAfterShutdown
<1>3. CASE WorkerExit(w)
  <2>1. PcOK' /\ HoldersHold'
    BY <1>3, Moves DEF WorkerExit, WorkerPc, Critical
  <2> QED
    BY <1>3, <2>1 DEF WorkerExit, IInv, NoSleepAfterShutdown
<1>4. CASE WorkerTake(w)
  <2>1. PcOK' /\ HoldersHold'
    BY <1>4, Moves DEF WorkerTake, WorkerPc, Critical, IInv, HoldersHold
  <2> QED
    BY <1>4, <2>1 DEF WorkerTake, IInv, NoSleepAfterShutdown
<1>5. CASE WorkerFindsNone(w)
  <2>1. PcOK' /\ HoldersHold'
    BY <1>5, Moves DEF WorkerFindsNone, WorkerPc, Critical, IInv, HoldersHold
  <2> QED
    BY <1>5, <2>1 DEF WorkerFindsNone, IInv, NoSleepAfterShutdown
<1>6. CASE WorkerUnlink(w)
  <2>1. PcOK' /\ HoldersHold'
    BY <1>6, Moves, Dies DEF WorkerUnlink, WorkerPc, Critical, IInv, HoldersHold
  <2> QED
    BY <1>6, <2>1 DEF WorkerUnlink, IInv, NoSleepAfterShutdown
<1>7. CASE WorkerUncount(w)
  <2>1. PcOK' /\ HoldersHold'
    BY <1>7, Moves DEF WorkerUncount, WorkerPc, Critical, IInv, HoldersHold
  <2> QED
    BY <1>7, <2>1 DEF WorkerUncount, IInv, NoSleepAfterShutdown
<1>8. CASE WorkerRun(w)
  <2>1. PcOK' /\ HoldersHold'
    BY <1>8, Moves DEF WorkerRun, WorkerPc, Critical
  <2> QED
    BY <1>8, <2>1 DEF WorkerRun, IInv, NoSleepAfterShutdown
<1>9. CASE WorkerRan(w)
  <2>1. PcOK' /\ HoldersHold'
    BY <1>9, Moves DEF WorkerRan, WorkerPc, Critical
  <2> QED
    BY <1>9, <2>1 DEF WorkerRan, IInv, NoSleepAfterShutdown
<1> QED
  BY <1>1, <1>2, <1>3, <1>4, <1>5, <1>6, <1>7, <1>8, <1>9 DEF Works

LEMMA InitStepsIInv ==
    ASSUME IInv, CreateFails \/ Created \/ \E w \in Worker : Create(w) \/ SpuriousWakeup(w)
    PROVE  IInv'
<1> Main \in Thread
  BY ThreadAssumption DEF Thread
<1>1. CASE CreateFails
  <2>1. PcOK' /\ HoldersHold'
    BY <1>1, Moves DEF CreateFails, CallerPc, Critical
  <2> QED
    BY <1>1, <2>1 DEF CreateFails, IInv, NoSleepAfterShutdown
<1>2. CASE Created
  <2>1. \A x \in Thread : pc'[x] = "idle" \/ pc'[x] = pc[x]
    BY <1>2 DEF Created
  <2>2. PcOK' /\ HoldersHold'
    BY <1>2, <2>1 DEF Created, IInv, PcOK, HoldersHold, CallerPc, Critical
  <2> QED
    BY <1>2, <2>2 DEF Created, IInv, NoSleepAfterShutdown
<1>3. ASSUME NEW w \in Worker, Create(w) PROVE IInv'
  <2>1. Goto(w, "lock") /\ w \in Thread
    BY <1>3 DEF Create, Goto, Thread
  <2>2. PcOK' /\ HoldersHold'
    BY <1>3, <2>1, Moves DEF Create, WorkerPc, Critical
  <2> QED
    BY <1>3, <2>2 DEF Create, IInv, NoSleepAfterShutdown
<1>4. ASSUME NEW w \in Worker, SpuriousWakeup(w) PROVE IInv'
  <2>1. w \in Thread
    BY DEF Thread
  <2>2. PcOK' /\ HoldersHold'
    BY <1>4, <2>1, Moves DEF SpuriousWakeup, Woken, WorkerPc, Critical
  <2> QED
    BY <1>4, <2>2 DEF SpuriousWakeup, IInv, NoSleepAfterShutdown
<1> QED
  BY <1>1, <1>2, <1>3, <1>4

LEMMA StepIInv == IInv /\ [Next]_vars => IInv'
<1> SUFFICES ASSUME IInv, [Next]_vars PROVE IInv'
  OBVIOUS
<1>1. CASE UNCHANGED vars
  BY <1>1 DEF vars, IInv, PcOK, HoldersHold, NoSleepAfterShutdown
<1>2. ASSUME NEW x \in Caller, Calls(x) \/ InCall(x) \/ AddMallocFails(x) PROVE IInv'
  <2>1. x \in Thread
    BY DEF Thread
  <2>2. CASE Lock(x, "add", "malloc")
    BY <2>1, <2>2, LockIInv DEF CallerPc
  <2>3. CASE DestroyLock(x)
    BY <2>1, <2>3, LockIInv DEF DestroyLock, CallerPc
  <2> QED
    BY <1>2, <2>2, <2>3, CallsIInv, AddIInv, DestroyIInv DEF InCall
<1> QED
  BY <1>1, <1>2, WorksIInv, InitStepsIInv DEF Next

THEOREM SpecIInv == Spec => []IInv
  BY InitIInv, StepIInv, PTL DEF Spec

-----------------------------------------------------------------------------
\* Two workers are never inside the mutex at once, for every number of threads,
\* although callers and workers leave with the mutex in their hands.
THEOREM WorkersExclude == Spec => []Exclusion
<1>1. IInv => Exclusion
  <2> SUFFICES ASSUME IInv, NEW v \in Worker, NEW w \in Worker, v # w,
                      pc[v] \in {"test", "unlink", "uncount"},
                      pc[w] \in {"test", "unlink", "uncount"}
               PROVE  FALSE
    BY DEF Exclusion
  <2>1. v \in Thread /\ w \in Thread
    BY DEF Thread
  <2> QED
    BY <2>1 DEF IInv, HoldersHold, Critical
<1> QED
  BY <1>1, SpecIInv, PTL

\* Once the pool is shut down no worker sleeps, for every number of threads.
THEOREM NobodySleeps == Spec => []NoSleepAfterShutdown
<1>1. IInv => NoSleepAfterShutdown
  BY DEF IInv
<1> QED
  BY <1>1, SpecIInv, PTL

-----------------------------------------------------------------------------
\* where a caller changes the list with its task, and a worker has one of the list
Adding == {"link", "count"}
Taking == {"unlink", "uncount", "run"}

\* The callers' places and the workers', and what the variables hold.
TypeOK ==
    /\ \A x \in Caller : pc[x] \in CallerPc
    /\ \A w \in Worker : pc[w] \in WorkerPc
    /\ waiting \subseteq Worker
    /\ shutdown \in {0, immediate_shutdown, graceful_shutdown}
    /\ queue_size \in Int /\ started \in Int
    /\ reg \in [Thread -> Int] /\ task \in [Thread -> Task \cup {Nil}]
    /\ next \in [Task -> Task \cup {Nil}] /\ head \in Task \cup {Nil}
    /\ used \in [Task -> {"new", "accepted", "refused"}] /\ ran \in [Task -> Nat]
    /\ \A w \in Worker : pc[w] \in Taking => task[w] # Nil

\* Until the pool is there, no other caller does anything.
Starting == pc[Main] = "create" => \A x \in Caller : pc[x] \in {"create", "off"}

Asleep == \A w \in waiting : pc[w] \in {"waiting", "dead"}

\* After an accepted task the mutex is a caller's for ever, and no task is refused.
Accepted ==
    /\ \A t \in Task : used[t] = "accepted" =>
           shutdown = 0 /\ lock \in Caller /\ pc[lock] \notin Critical
    /\ \A t \in Task : used[t] = "refused" => shutdown # 0
    /\ \A s, t \in Task : used[s] = "accepted" /\ used[t] = "accepted" => s = t

Alive == ~Gone /\ pc[Main] # "dead" /\ OneRefused

\* What threads that work on the list know of it.
AddersKnow ==
    \A x \in Caller : pc[x] \in Adding =>
        /\ \A y \in Caller : pc[y] \in Adding => y = x
        /\ \A w \in Worker : pc[w] \notin Taking
        /\ task[x] \in Task /\ used[task[x]] # "new" /\ next[task[x]] = Nil
        /\ ran[task[x]] = 0 /\ queue_size = 0
        /\ pc[x] = "link" => head = Nil
        /\ pc[x] = "count" => head = task[x] /\ reg[x] = 0

TakersKnow ==
    \A w \in Worker : pc[w] \in Taking =>
        /\ \A v \in Worker : pc[v] \in Taking => v = w
        /\ task[w] \in Task /\ used[task[w]] # "new" /\ ran[task[w]] = 0
        /\ pc[w] = "unlink" => head = task[w]
        /\ pc[w] = "uncount" => head = Nil /\ reg[w] = 1 /\ queue_size = 1
        /\ pc[w] = "run" => head = Nil /\ queue_size = 0

ListKnown ==
    /\ head # Nil => /\ used[head] # "new" /\ next[head] = Nil /\ ran[head] = 0
                     /\ queue_size = 1 \/ \E x \in Caller : pc[x] = "count"
    /\ head = Nil => queue_size = 0 \/ \E w \in Worker : pc[w] = "uncount"
    /\ \A t \in Task : ran[t] \in {0, 1} /\ (used[t] = "new" => ran[t] = 0)

QInv == Alive => AddersKnow /\ TakersKnow /\ ListKnown

LInv == IInv /\ TypeOK /\ Starting /\ Asleep /\ Accepted /\ QInv

-----------------------------------------------------------------------------
LEMMA InitLInv == Init => LInv
<1> SUFFICES ASSUME Init PROVE LInv
  OBVIOUS
<1>1. IInv
  BY InitIInv
<1>2. \A x \in Thread : pc[x] \in {"create", "off", "unused"}
  BY DEF Init
<1>3. TypeOK
  <2>1. \A x \in Caller : pc[x] \in {"create", "off"}
    BY ThreadAssumption DEF Init, Thread
  <2>2. \A w \in Worker : pc[w] \in {"off", "unused"}
    BY ThreadAssumption DEF Init, Thread
  <2> QED
    BY <2>1, <2>2 DEF Init, TypeOK, CallerPc, WorkerPc, Taking
<1>4. Accepted /\ Starting /\ Asleep
  BY <1>2, ThreadAssumption DEF Init, Accepted, Starting, Asleep, Thread
<1>5. AddersKnow /\ TakersKnow /\ ListKnown
  BY <1>2 DEF Init, AddersKnow, TakersKnow, ListKnown, Adding, Taking, Thread
<1> QED
  BY <1>1, <1>3, <1>4, <1>5 DEF LInv, QInv

\* A step of one thread x that goes to l leaves the types if it wakes only sleepers.
LEMMA MoveTypes ==
    ASSUME LInv, NEW x \in Thread, NEW l, Goto(x, l),
           \A y \in Thread \ {x} : task'[y] = task[y],
           x \in Caller => l \in CallerPc,
           x \in Worker => l \in WorkerPc /\ (l \in Taking => task'[x] # Nil)
    PROVE  /\ \A y \in Caller : pc'[y] \in CallerPc
           /\ \A w \in Worker : pc'[w] \in WorkerPc
           /\ \A w \in Worker : pc'[w] \in Taking => task'[w] # Nil
  BY DEF LInv, IInv, PcOK, TypeOK, Goto, Thread

LEMMA LockTypes ==
    ASSUME LInv, NEW x \in Thread, NEW from, NEW l, Lock(x, from, l),
           x \in Caller => l \in CallerPc, x \in Worker => l \in WorkerPc \ Taking
    PROVE  TypeOK'
<1>1. /\ \A y \in Caller : pc'[y] \in CallerPc
      /\ \A w \in Worker : pc'[w] \in WorkerPc
      /\ \A w \in Worker : pc'[w] \in Taking => task'[w] # Nil
  BY MoveTypes DEF Lock
<1> QED
  BY <1>1 DEF Lock, TypeOK, LInv, list

LEMMA CallerTypes ==
    ASSUME LInv, NEW x \in Caller, Calls(x) \/ InCall(x) \/ AddMallocFails(x)
    PROVE  TypeOK'
<1>0. x \in Thread /\ x \notin Worker
  BY ThreadAssumption DEF Thread
<1>1. CASE Lock(x, "add", "malloc") \/ DestroyLock(x)
  BY <1>0, <1>1, LockTypes DEF DestroyLock, CallerPc
<1>2. ASSUME NEW l \in CallerPc, Goto(x, l),
             AddCall(x) \/ DestroyCall(x, "destroy_now") \/ DestroyCall(x, "destroy_later")
             \/ AddMalloc(x) \/ AddLink(x) \/ AddCount(x) \/ DestroyAgain(x) \/ DestroyJoin(x)
      PROVE  TypeOK'
  <2>1. /\ \A y \in Caller : pc'[y] \in CallerPc
        /\ \A w \in Worker : pc'[w] \in WorkerPc
        /\ \A w \in Worker : pc'[w] \in Taking => task'[w] # Nil
    <3>1. \A y \in Thread \ {x} : task'[y] = task[y]
      BY <1>2
         DEF LInv, TypeOK, AddCall, DestroyCall, AddMalloc, AddLink, AddCount, DestroyAgain,
             DestroyJoin
    <3> QED
      BY <1>0, <1>2, <3>1, MoveTypes
  <2> QED
    BY <1>0, <1>2, <2>1
       DEF LInv, TypeOK, AddCall, DestroyCall, AddMalloc, AddLink, AddCount, Counted, DestroyAgain,
           DestroyJoin, list
<1>3. CASE AddSignal(x)
  <2>1. PICK ws \in SUBSET waiting :
          /\ waiting' = waiting \ ws
          /\ pc' = [y \in Thread |-> IF y \in ws THEN Woken ELSE IF y = x THEN "idle" ELSE pc[y]]
    BY <1>3 DEF AddSignal
  <2>2. /\ \A y \in Caller : pc'[y] \in CallerPc
        /\ \A w \in Worker : pc'[w] \in WorkerPc
        /\ \A w \in Worker : pc'[w] \in Taking => task'[w] # Nil
    BY <1>0, <1>3, <2>1, ThreadAssumption
       DEF AddSignal, LInv, TypeOK, Thread, Woken, CallerPc, WorkerPc, Taking
  <2> QED
    BY <1>0, <1>3, <2>1, <2>2 DEF AddSignal, LInv, TypeOK, list
<1>4. CASE DestroyShut(x)
  <2>2. /\ \A y \in Caller : pc'[y] \in CallerPc
        /\ \A w \in Worker : pc'[w] \in WorkerPc
        /\ \A w \in Worker : pc'[w] \in Taking => task'[w] # Nil
    BY <1>0, <1>4, ThreadAssumption
       DEF DestroyShut, Broadcast, LInv, TypeOK, Thread, Woken, CallerPc, WorkerPc, Taking
  <2> QED
    BY <1>0, <1>4, <2>2 DEF DestroyShut, LInv, TypeOK, list
<1>5. CASE AddMallocFails(x)
  <2>1. /\ \A y \in Caller : pc'[y] \in CallerPc
        /\ \A w \in Worker : pc'[w] \in WorkerPc
        /\ \A w \in Worker : pc'[w] \in Taking => task'[w] # Nil
    BY <1>5 DEF AddMallocFails, Die, Thread, CallerPc, WorkerPc, Taking
  <2> QED
    BY <1>5, <2>1 DEF AddMallocFails, LInv, TypeOK, list
<1>6. \A l \in {"add", "link", "count", "signal", "idle", "destroyed", "destroy_now",
                "destroy_later"} : l \in CallerPc
  BY DEF CallerPc
<1> QED
  BY <1>1, <1>2, <1>3, <1>4, <1>5, <1>6
     DEF Calls, InCall, AddCall, DestroyCall, AddMalloc, AddLink, AddCount, DestroyAgain,
         DestroyJoin

LEMMA WorkerTypes ==
    ASSUME LInv, NEW w \in Worker, Create(w) \/ Works(w) \/ SpuriousWakeup(w)
    PROVE  TypeOK'
<1>0. w \in Thread /\ w \notin Caller
  BY ThreadAssumption DEF Thread
<1>1. CASE WorkerLock(w)
  BY <1>0, <1>1, LockTypes DEF WorkerLock, WorkerPc, Taking
<1>2. ASSUME NEW l \in WorkerPc, Goto(w, l), \A y \in Thread \ {w} : task'[y] = task[y],
             l \in Taking => task'[w] # Nil
      PROVE  /\ \A y \in Caller : pc'[y] \in CallerPc
             /\ \A v \in Worker : pc'[v] \in WorkerPc
             /\ \A v \in Worker : pc'[v] \in Taking => task'[v] # Nil
  BY <1>0, <1>2, MoveTypes
<1>3. CASE WorkerUnlink(w) /\ Die
  <2>1. /\ \A y \in Caller : pc'[y] \in CallerPc
        /\ \A v \in Worker : pc'[v] \in WorkerPc
        /\ \A v \in Worker : pc'[v] \in Taking => task'[v] # Nil
    BY <1>3 DEF Die, Thread, CallerPc, WorkerPc, Taking
  <2> QED
    BY <1>0, <1>3, <2>1 DEF WorkerUnlink, LInv, TypeOK, list, Taking
<1>4. \A l \in {"lock", "waiting", "exited", "unlink", "uncount", "run", "ran", "relock"} :
          l \in WorkerPc
  BY DEF WorkerPc
<1>5. CASE Create(w)
  <2>1. Goto(w, "lock") /\ \A y \in Thread \ {w} : task'[y] = task[y]
    BY <1>5 DEF Create, LInv, TypeOK, Goto, Woken
  <2>2. "lock" \in Taking => task'[w] # Nil
    BY <1>5 DEF Create, Taking, LInv, TypeOK
  <2> QED
    BY <1>0, <1>5, <1>2, <1>4, <2>1, <2>2 DEF Create, LInv, TypeOK, list, Started
<1>6. CASE WorkerWait(w)
  <2>1. Goto(w, "waiting") /\ \A y \in Thread \ {w} : task'[y] = task[y]
    BY <1>6 DEF WorkerWait, LInv, TypeOK, Goto, Woken
  <2>2. "waiting" \in Taking => task'[w] # Nil
    BY <1>6 DEF WorkerWait, Taking, LInv, TypeOK
  <2> QED
    BY <1>0, <1>6, <1>2, <1>4, <2>1, <2>2 DEF WorkerWait, LInv, TypeOK, list
<1>7. CASE WorkerExit(w)
  <2>1. Goto(w, "exited") /\ \A y \in Thread \ {w} : task'[y] = task[y]
    BY <1>7 DEF WorkerExit, LInv, TypeOK, Goto, Woken
  <2>2. "exited" \in Taking => task'[w] # Nil
    BY <1>7 DEF WorkerExit, Taking, LInv, TypeOK
  <2> QED
    BY <1>0, <1>7, <1>2, <1>4, <2>1, <2>2 DEF WorkerExit, LInv, TypeOK, list
<1>8. CASE WorkerTake(w)
  <2>1. Goto(w, "unlink") /\ \A y \in Thread \ {w} : task'[y] = task[y]
    BY <1>8 DEF WorkerTake, LInv, TypeOK, Goto, Woken
  <2>2. "unlink" \in Taking => task'[w] # Nil
    BY <1>0, <1>8 DEF WorkerTake, Taking, LInv, TypeOK
  <2> QED
    BY <1>0, <1>8, <1>2, <1>4, <2>1, <2>2 DEF WorkerTake, LInv, TypeOK, list
<1>9. CASE WorkerFindsNone(w)
  <2>1. Goto(w, "lock") /\ \A y \in Thread \ {w} : task'[y] = task[y]
    BY <1>9 DEF WorkerFindsNone, LInv, TypeOK, Goto, Woken
  <2>2. "lock" \in Taking => task'[w] # Nil
    BY <1>9 DEF WorkerFindsNone, Taking, LInv, TypeOK
  <2> QED
    BY <1>0, <1>9, <1>2, <1>4, <2>1, <2>2 DEF WorkerFindsNone, LInv, TypeOK, list
<1>10. CASE WorkerUncount(w)
  <2>1. Goto(w, "run") /\ \A y \in Thread \ {w} : task'[y] = task[y]
    BY <1>10 DEF WorkerUncount, LInv, TypeOK, Goto, Woken
  <2>2. "run" \in Taking => task'[w] # Nil
    BY <1>10 DEF WorkerUncount, Taking, LInv, TypeOK
  <2> QED
    BY <1>0, <1>10, <1>2, <1>4, <2>1, <2>2 DEF WorkerUncount, LInv, TypeOK, list, Uncounted
<1>11. CASE WorkerRun(w)
  <2>1. Goto(w, "ran") /\ \A y \in Thread \ {w} : task'[y] = task[y]
    BY <1>11 DEF WorkerRun, LInv, TypeOK, Goto, Woken
  <2>2. "ran" \in Taking => task'[w] # Nil
    BY <1>11 DEF WorkerRun, Taking, LInv, TypeOK
  <2> QED
    BY <1>0, <1>11, <1>2, <1>4, <2>1, <2>2 DEF WorkerRun, LInv, TypeOK, list, Taking
<1>12. CASE WorkerRan(w)
  <2>1. Goto(w, "lock") /\ \A y \in Thread \ {w} : task'[y] = task[y]
    BY <1>12 DEF WorkerRan, LInv, TypeOK, Goto, Woken
  <2>2. "lock" \in Taking => task'[w] # Nil
    BY <1>12 DEF WorkerRan, Taking, LInv, TypeOK
  <2> QED
    BY <1>0, <1>12, <1>2, <1>4, <2>1, <2>2 DEF WorkerRan, LInv, TypeOK, list
<1>13. CASE SpuriousWakeup(w)
  <2>1. Goto(w, "relock") /\ \A y \in Thread \ {w} : task'[y] = task[y]
    BY <1>13 DEF SpuriousWakeup, LInv, TypeOK, Goto, Woken
  <2>2. "relock" \in Taking => task'[w] # Nil
    BY <1>13 DEF SpuriousWakeup, Taking, LInv, TypeOK
  <2> QED
    BY <1>0, <1>13, <1>2, <1>4, <2>1, <2>2 DEF SpuriousWakeup, LInv, TypeOK, list
<1>14. CASE WorkerUnlink(w) /\ Goto(w, "uncount")
  <2>1. Goto(w, "uncount") /\ \A y \in Thread \ {w} : task'[y] = task[y]
    BY <1>14 DEF WorkerUnlink, LInv, TypeOK, Goto, Woken
  <2>2. "uncount" \in Taking => task'[w] # Nil
    BY <1>14 DEF WorkerUnlink, Taking, LInv, TypeOK
  <2> QED
    BY <1>0, <1>14, <1>2, <1>4, <2>1, <2>2 DEF WorkerUnlink, LInv, TypeOK, list, Taking
<1> QED
  BY <1>1, <1>3, <1>5, <1>6, <1>7, <1>8, <1>9, <1>10, <1>11, <1>12, <1>13, <1>14 DEF Works, WorkerUnlink

LEMMA TypeStep == ASSUME LInv, [Next]_vars PROVE TypeOK'
<1>1. CASE CreateFails
  <2>1. Main \in Thread /\ Main \in Caller /\ Main \notin Worker /\ "destroy_now" \in CallerPc
    BY ThreadAssumption DEF Thread, CallerPc
  <2>2. /\ \A y \in Caller : pc'[y] \in CallerPc
        /\ \A v \in Worker : pc'[v] \in WorkerPc
        /\ \A v \in Worker : pc'[v] \in Taking => task'[v] # Nil
    BY <1>1, <2>1, MoveTypes DEF CreateFails
  <2> QED
    BY <1>1, <2>2 DEF CreateFails, LInv, TypeOK, list
<1>2. CASE Created
  <2>2. /\ \A y \in Caller : pc'[y] \in CallerPc
        /\ \A v \in Worker : pc'[v] \in WorkerPc
        /\ \A v \in Worker : pc'[v] \in Taking => task'[v] # Nil
    BY <1>2, ThreadAssumption DEF Created, Thread, LInv, TypeOK, CallerPc
  <2> QED
    BY <1>2, <2>2 DEF Created, LInv, TypeOK, list
<1>3. CASE UNCHANGED vars
  BY <1>3 DEF vars, LInv, TypeOK, list
<1> QED
  BY <1>1, <1>2, <1>3, CallerTypes, WorkerTypes DEF Next

-----------------------------------------------------------------------------
\* Where another caller or worker is after a step of x, unless the process died.
Stays(x) == \A y \in Caller \ {x} : pc'[y] = pc[y]

LEMMA CallerStays ==
    ASSUME LInv, NEW x \in Caller, Calls(x) \/ InCall(x)
    PROVE  Stays(x) /\ pc'[x] # "dead" /\ (pc[x] = "dead" => FALSE)
<1> x \in Thread /\ Caller \subseteq Thread /\ \A y \in Caller : y \notin waiting
  BY ThreadAssumption DEF Thread, LInv, TypeOK
<1>1. CASE AddSignal(x)
  <2>1. PICK ws \in SUBSET waiting :
          pc' = [y \in Thread |-> IF y \in ws THEN Woken ELSE IF y = x THEN "idle" ELSE pc[y]]
    BY <1>1 DEF AddSignal
  <2> QED
    BY <1>1, <2>1 DEF Stays, AddSignal
<1>2. CASE DestroyShut(x)
  BY <1>2 DEF Stays, DestroyShut, Broadcast
<1>3. CASE Calls(x) \/ (InCall(x) /\ ~AddSignal(x) /\ ~DestroyShut(x))
  BY <1>3
     DEF Stays, Calls, InCall, AddCall, DestroyCall, Lock, AddMalloc, AddLink, AddCount,
         DestroyLock, DestroyAgain, DestroyJoin, Goto, LInv, IInv, PcOK
<1> QED
  BY <1>1, <1>2, <1>3 DEF InCall

LEMMA WorkerStays ==
    ASSUME LInv, NEW w \in Worker, Create(w) \/ Works(w) \/ SpuriousWakeup(w)
    PROVE  Die \/ \A y \in Caller : pc'[y] = pc[y]
<1> w \in Thread /\ \A y \in Caller : y # w
  BY ThreadAssumption DEF Thread
<1> QED
  BY DEF Create, Works, SpuriousWakeup, WorkerLock, Lock, WorkerWait, WorkerExit, WorkerTake,
         WorkerFindsNone, WorkerUnlink, WorkerUncount, WorkerRun, WorkerRan, Goto, LInv, IInv,
         PcOK, Thread

LEMMA StartingStep == ASSUME LInv, [Next]_vars PROVE Starting'
<1> Main \in Caller /\ Main \in Thread
  BY ThreadAssumption DEF Thread
<1>1. CASE Die
  BY <1>1 DEF Die, Starting
<1>2. ASSUME NEW x \in Caller, Calls(x) \/ InCall(x) PROVE Starting'
  <2>1. pc[x] \notin {"create", "off"}
    BY <1>2
       DEF Calls, InCall, AddCall, DestroyCall, Lock, AddMalloc, AddLink, AddCount, AddSignal,
           DestroyLock, DestroyShut, DestroyAgain, DestroyJoin
  <2>2. pc'[x] # "create"
    <3>1. CASE AddSignal(x)
      BY <3>1 DEF AddSignal, Woken, Thread
    <3>2. CASE DestroyShut(x)
      BY <3>2 DEF DestroyShut, Woken, Thread
    <3> QED
      BY <1>2, <3>1, <3>2
         DEF Calls, InCall, AddCall, DestroyCall, Lock, AddMalloc, AddLink, AddCount,
             DestroyLock, DestroyAgain, DestroyJoin, Goto, LInv, IInv, PcOK, Thread
  <2> QED
    BY <1>2, <2>1, <2>2, CallerStays DEF Stays, LInv, Starting
<1>3. ASSUME NEW w \in Worker, Create(w) \/ Works(w) \/ SpuriousWakeup(w) PROVE Starting'
  BY <1>1, <1>3, WorkerStays DEF LInv, Starting
<1>4. CASE CreateFails
  BY <1>4 DEF CreateFails, Goto, LInv, IInv, PcOK, Starting
<1>5. CASE Created
  BY <1>5 DEF Created, Starting
<1>6. CASE UNCHANGED vars
  BY <1>6 DEF vars, LInv, Starting
<1> QED
  BY <1>1, <1>2, <1>3, <1>4, <1>5, <1>6 DEF Next, AddMallocFails

LEMMA AsleepStep == ASSUME LInv, [Next]_vars PROVE Asleep'
<1> /\ Main \in Caller /\ Caller \subseteq Thread /\ Worker \subseteq Thread
    /\ Caller \cap Worker = {} /\ waiting \subseteq Worker
  BY ThreadAssumption DEF Thread, LInv, TypeOK
<1>0. Asleep
  BY DEF LInv
<1>1. ASSUME NEW x \in Caller, Calls(x) \/ InCall(x) PROVE Asleep'
  <2>1. CASE AddSignal(x)
    <3>1. PICK ws \in SUBSET waiting :
            /\ waiting' = waiting \ ws
            /\ pc' = [y \in Thread |-> IF y \in ws THEN Woken ELSE IF y = x THEN "idle" ELSE pc[y]]
      BY <2>1 DEF AddSignal
    <3> QED
      BY <1>0, <3>1 DEF Asleep
  <2>2. CASE DestroyShut(x)
    BY <1>0, <2>2 DEF DestroyShut, Broadcast, Asleep
  <2> QED
    BY <1>0, <1>1, <2>1, <2>2
       DEF Calls, InCall, AddCall, DestroyCall, Lock, AddMalloc, AddLink, AddCount, DestroyLock,
           DestroyAgain, DestroyJoin, Goto, Asleep, LInv, IInv, PcOK
<1>2. ASSUME NEW w \in Worker, Create(w) \/ Works(w) \/ SpuriousWakeup(w) PROVE Asleep'
  BY <1>0, <1>2
     DEF Create, Works, SpuriousWakeup, WorkerLock, Lock, WorkerWait, WorkerExit, WorkerTake,
         WorkerFindsNone, WorkerUnlink, WorkerUncount, WorkerRun, WorkerRan, Goto, Die, Asleep,
         LInv, IInv, PcOK
<1>3. CASE CreateFails \/ Created \/ UNCHANGED vars
  BY <1>0, <1>3 DEF CreateFails, Created, vars, Goto, Asleep, LInv, IInv, PcOK
<1>4. ASSUME NEW x \in Caller, AddMallocFails(x) PROVE Asleep'
  BY <1>4 DEF AddMallocFails, Die, Asleep
<1> QED
  BY <1>1, <1>2, <1>3, <1>4 DEF Next

\* A task once used stays so.
LEMMA UsedStays ==
    ASSUME LInv, [Next]_vars, NEW t \in Task, used[t] # "new"
    PROVE  used'[t] = used[t]
<1>1. ASSUME NEW x \in Caller, AddMalloc(x) PROVE used'[t] = used[t]
  BY <1>1 DEF AddMalloc, LInv, TypeOK
<1> QED
  BY <1>1
     DEF Next, vars, CreateFails, Created, Calls, InCall, AddMallocFails, AddCall, DestroyCall,
         Lock, AddLink, AddCount, AddSignal, DestroyLock, DestroyShut, DestroyAgain, DestroyJoin,
         Create, Works, SpuriousWakeup, WorkerLock, WorkerWait, WorkerExit, WorkerTake,
         WorkerFindsNone, WorkerUnlink, WorkerUncount, WorkerRun, WorkerRan

\* What is alive after a step was alive before it.
LEMMA AliveBefore ==
    ASSUME LInv, [Next]_vars, Alive'
    PROVE  Alive
<1> Main \in Caller /\ Main \in Thread
  BY ThreadAssumption DEF Thread
<1>1. OneRefused
  BY UsedStays DEF Alive, OneRefused
<1>2. ASSUME NEW y \in Caller, pc[y] \in {"destroyed", "dead"}
      PROVE  pc'[y] = pc[y] \/ pc'[Main] = "dead"
  <2>1. CASE Die
    BY <2>1 DEF Die
  <2>2. ASSUME NEW x \in Caller, Calls(x) \/ InCall(x) PROVE pc'[y] = pc[y]
    <3>1. pc[x] \notin {"destroyed", "dead"}
      BY <2>2
         DEF Calls, InCall, AddCall, DestroyCall, Lock, AddMalloc, AddLink, AddCount, AddSignal,
             DestroyLock, DestroyShut, DestroyAgain, DestroyJoin
    <3> QED
      BY <1>2, <2>2, <3>1, CallerStays DEF Stays
  <2>3. ASSUME NEW w \in Worker, Create(w) \/ Works(w) \/ SpuriousWakeup(w)
        PROVE  Die \/ pc'[y] = pc[y]
    BY <2>3, WorkerStays
  <2>4. CASE CreateFails
    BY <1>2, <2>4 DEF CreateFails, Goto, LInv, IInv, PcOK, Thread
  <2>5. CASE Created
    BY <2>5, <1>2 DEF Created, LInv, Starting
  <2> QED
    BY <2>1, <2>2, <2>3, <2>4, <2>5 DEF Next, vars, AddMallocFails
<1>3. ~Gone
  BY <1>2 DEF Alive, Gone
<1>4. pc[Main] # "dead"
  BY <1>2 DEF Alive
<1> QED
  BY <1>1, <1>3, <1>4 DEF Alive

-----------------------------------------------------------------------------
\* What the steps other than AddMalloc and DestroyShut do to the mutex: nobody in a
\* critical place without having taken it free, and nobody releases it elsewhere.
LEMMA AcceptedStep == ASSUME LInv, [Next]_vars PROVE Accepted'
<1> Main \in Thread /\ Caller \subseteq Thread /\ Worker \subseteq Thread /\ Nil \notin Caller
  BY ThreadAssumption DEF Thread
<1>1. ASSUME NEW t \in Task, used[t] = "accepted"
      PROVE  shutdown' = 0 /\ lock' \in Caller /\ pc'[lock'] \notin Critical
  <2>1. shutdown = 0 /\ lock \in Caller /\ pc[lock] \notin Critical
    BY <1>1 DEF LInv, Accepted
  <2>2. \A x \in Thread : pc[x] \notin Critical
    BY <2>1 DEF LInv, IInv, HoldersHold
  <2>3. lock # Nil
    BY <2>1
  <2>4. \A x \in Caller : ~AddMalloc(x) /\ ~DestroyShut(x) /\ ~DestroyAgain(x)
                          /\ ~AddMallocFails(x)
    BY <2>2 DEF AddMalloc, DestroyShut, DestroyAgain, AddMallocFails, Critical
  <2>5. \A w \in Worker : /\ ~WorkerWait(w) /\ ~WorkerExit(w) /\ ~WorkerTake(w)
                          /\ ~WorkerFindsNone(w) /\ ~WorkerUnlink(w) /\ ~WorkerUncount(w)
    BY <2>2
       DEF WorkerWait, WorkerExit, WorkerTake, WorkerFindsNone, WorkerUnlink, WorkerUncount, Critical
  <2>6. UNCHANGED <<lock, shutdown>>
    BY <2>3, <2>4, <2>5
       DEF Next, vars, CreateFails, Created, Calls, InCall, AddCall, DestroyCall, Lock, AddLink,
           AddCount, AddSignal, DestroyLock, DestroyJoin, Create, Works, SpuriousWakeup,
           WorkerLock, WorkerRun, WorkerRan
  <2>7. ASSUME NEW x \in Caller, Calls(x) \/ InCall(x) PROVE pc'[lock] \notin Critical
    <3>1. CASE x = lock
      <4>1. CASE AddSignal(x)
        BY <3>1, <4>1 DEF AddSignal, Woken, Critical
      <4> QED
        BY <2>3, <2>4, <2>7, <3>1, <4>1
           DEF Calls, InCall, AddCall, DestroyCall, Lock, AddLink, AddCount, DestroyLock,
               DestroyJoin, Goto, Critical, LInv, IInv, PcOK
    <3> QED
      BY <2>1, <2>7, <3>1, CallerStays DEF Stays
  <2>8. ASSUME NEW w \in Worker, Create(w) \/ Works(w) \/ SpuriousWakeup(w)
        PROVE  pc'[lock] \notin Critical
    BY <2>1, <2>8, WorkerStays DEF Die, Critical
  <2>9. CASE CreateFails \/ Created \/ UNCHANGED vars
    BY <2>1, <2>9 DEF CreateFails, Created, vars, Goto, Critical, LInv, IInv, PcOK
  <2> QED
    BY <2>1, <2>4, <2>6, <2>7, <2>8, <2>9 DEF Next
<1>2. ASSUME NEW t \in Task, used[t] = "refused" PROVE shutdown' # 0
  <2>1. shutdown # 0
    BY <1>2 DEF LInv, Accepted
  <2>2. \A x \in Caller : ~DestroyShut(x)
    BY <2>1 DEF DestroyShut
  <2> QED
    BY <2>1, <2>2
       DEF Next, vars, CreateFails, Created, Calls, InCall, AddMallocFails, AddMalloc, AddCall,
           DestroyCall, Lock, AddLink, AddCount, AddSignal, DestroyLock, DestroyAgain,
           DestroyJoin, Create, Works, SpuriousWakeup, WorkerLock, WorkerWait, WorkerExit,
           WorkerTake, WorkerFindsNone, WorkerUnlink, WorkerUncount, WorkerRun, WorkerRan
<1>3. ASSUME NEW x \in Caller, AddMalloc(x) PROVE Accepted'
  <2>1. PICK t \in Task :
          /\ used[t] = "new"
          /\ used' = [used EXCEPT ![t] = IF shutdown = 0 THEN "accepted" ELSE "refused"]
    BY <1>3 DEF AddMalloc
  <2>2. pc[x] \in Critical /\ lock = x
    BY <1>3 DEF AddMalloc, Critical, LInv, IInv, HoldersHold
  <2>3. \A s \in Task : used[s] # "accepted"
    BY <2>2 DEF LInv, Accepted
  <2>4. \A s \in Task : s # t => used'[s] = used[s]
    BY <2>1 DEF LInv, TypeOK
  <2>5. used'[t] = IF shutdown = 0 THEN "accepted" ELSE "refused"
    BY <2>1 DEF LInv, TypeOK
  <2>6. shutdown' = shutdown /\ (shutdown = 0 => lock' = x) /\ pc'[x] = "link"
    BY <1>3, <2>2 DEF AddMalloc, Goto, LInv, IInv, PcOK
  <2>7. \A s \in Task : used[s] = "refused" => shutdown # 0
    BY DEF LInv, Accepted
  <2> QED
    BY <2>3, <2>4, <2>5, <2>6, <2>7 DEF Accepted, Critical
<1>4. CASE \A t \in Task : used'[t] = used[t]
  BY <1>1, <1>2, <1>4 DEF LInv, Accepted
<1>5. (\A x \in Caller : ~AddMalloc(x)) => used' = used
  BY DEF Next, vars, CreateFails, Created, Calls, InCall, AddMallocFails, AddCall, DestroyCall,
         Lock, AddLink, AddCount, AddSignal, DestroyLock, DestroyShut, DestroyAgain,
         DestroyJoin, Create, Works, SpuriousWakeup, WorkerLock, WorkerWait, WorkerExit,
         WorkerTake, WorkerFindsNone, WorkerUnlink, WorkerUncount, WorkerRun, WorkerRan
<1> QED
  BY <1>3, <1>4, <1>5

-----------------------------------------------------------------------------
\* A step that leaves the list, and whoever works on it, alone.
LEMMA Quiet ==
    ASSUME LInv, Alive, UNCHANGED <<head, next, queue_size, used, ran>>,
           \A y \in Thread : \/ pc'[y] = pc[y] /\ task'[y] = task[y] /\ reg'[y] = reg[y]
                             \/ pc[y] \notin Adding \cup Taking /\ pc'[y] \notin Adding \cup Taking
    PROVE  AddersKnow' /\ TakersKnow' /\ ListKnown'
<1> Caller \subseteq Thread /\ Worker \subseteq Thread
  BY DEF Thread
<1>0. AddersKnow /\ TakersKnow /\ ListKnown
  BY DEF LInv, QInv
<1>1. AddersKnow'
  BY <1>0 DEF AddersKnow, Adding, Taking
<1>2. TakersKnow'
  BY <1>0 DEF TakersKnow, Adding, Taking
<1>3. ListKnown'
  BY <1>0 DEF ListKnown, Adding, Taking
<1> QED
  BY <1>1, <1>2, <1>3

\* The task that AddMalloc takes is the only one ever used.
LEMMA OnlyUsed ==
    ASSUME LInv, NEW x \in Caller, AddMalloc(x), OneRefused', NEW t \in Task, used[t] = "new",
           used' = [used EXCEPT ![t] = IF shutdown = 0 THEN "accepted" ELSE "refused"]
    PROVE  \A s \in Task : used[s] = "new"
<1> SUFFICES ASSUME NEW s \in Task, used[s] # "new" PROVE FALSE
  OBVIOUS
<1>1. pc[x] \in Critical /\ lock = x
  BY DEF AddMalloc, Critical, LInv, IInv, HoldersHold, Thread
<1>2. used[s] # "accepted"
  BY <1>1 DEF LInv, Accepted
<1>3. used[s] = "refused"
  BY <1>2 DEF LInv, TypeOK
<1>4. shutdown # 0
  BY <1>3 DEF LInv, Accepted
<1>5. used'[t] = "refused" /\ used'[s] = "refused" /\ s # t
  BY <1>3, <1>4 DEF LInv, TypeOK
<1> QED
  BY <1>5 DEF OneRefused

LEMMA AddMallocQ == ASSUME LInv, Alive, Alive', NEW x \in Caller, AddMalloc(x) PROVE QInv'
<1> Caller \subseteq Thread /\ Worker \subseteq Thread /\ Caller \cap Worker = {} /\ Nil \notin Task
  BY ThreadAssumption DEF Thread
<1>0. AddersKnow /\ TakersKnow /\ ListKnown
  BY DEF LInv, QInv
<1>1. PICK t \in Task :
        /\ used[t] = "new"
        /\ used' = [used EXCEPT ![t] = IF shutdown = 0 THEN "accepted" ELSE "refused"]
        /\ task' = [task EXCEPT ![x] = t]
        /\ next' = [next EXCEPT ![t] = head]
  BY DEF AddMalloc
<1>2. \A s \in Task : used[s] = "new"
  BY <1>1, OnlyUsed DEF Alive
<1>3. head = Nil
  BY <1>2 DEF LInv, TypeOK, QInv, ListKnown
<1>4. (\A y \in Caller : pc[y] \notin Adding) /\ (\A w \in Worker : pc[w] \notin Taking)
  BY <1>0, <1>2 DEF AddersKnow, TakersKnow
<1>5. queue_size = 0
  BY <1>0, <1>3, <1>4 DEF ListKnown, Taking
<1>6. /\ \A s \in Task : s # t => used'[s] = used[s]
      /\ used'[t] # "new" /\ next'[t] = Nil /\ task'[x] = t /\ ran'[t] = 0
  BY <1>0, <1>1, <1>2, <1>3 DEF AddMalloc, LInv, TypeOK, ListKnown
<1>7. /\ \A y \in Caller : y # x => pc'[y] \notin Adding
      /\ \A w \in Worker : pc'[w] \notin Taking
      /\ pc'[x] = "link" /\ head' = Nil /\ queue_size' = 0 /\ ran' = ran
  BY <1>3, <1>4, <1>5 DEF AddMalloc, Goto, LInv, IInv, PcOK
<1>8. AddersKnow'
  BY <1>6, <1>7 DEF AddersKnow
<1>9. TakersKnow'
  BY <1>7 DEF TakersKnow
<1>10. ListKnown'
  BY <1>0, <1>6, <1>7, <1>2 DEF ListKnown
<1> QED
  BY <1>8, <1>9, <1>10 DEF QInv

LEMMA AddLinkQ == ASSUME LInv, Alive, NEW x \in Caller, AddLink(x) \/ AddCount(x) PROVE QInv'
<1> Caller \subseteq Thread /\ Worker \subseteq Thread /\ Caller \cap Worker = {} /\ Nil \notin Task
  BY ThreadAssumption DEF Thread
<1>0. AddersKnow /\ TakersKnow /\ ListKnown
  BY DEF LInv, QInv
<1>1. pc[x] \in Adding
  BY DEF AddLink, AddCount, Adding
<1>2. /\ \A y \in Caller : pc[y] \in Adding => y = x
      /\ \A w \in Worker : pc[w] \notin Taking
      /\ task[x] \in Task /\ used[task[x]] # "new" /\ next[task[x]] = Nil
      /\ ran[task[x]] = 0 /\ queue_size = 0
  BY <1>0, <1>1 DEF AddersKnow
<1>3. CASE AddLink(x)
  <2>1. /\ head' = task[x] /\ UNCHANGED <<next, queue_size, used, ran, task>>
        /\ reg'[x] = 0 /\ pc'[x] = "count"
        /\ \A y \in Thread : y # x => pc'[y] = pc[y]
    BY <1>2, <1>3 DEF AddLink, Goto, LInv, IInv, PcOK, TypeOK
  <2>2. AddersKnow'
    BY <1>2, <2>1 DEF AddersKnow, Adding
  <2>3. TakersKnow'
    BY <1>2, <2>1 DEF TakersKnow
  <2>4. ListKnown'
    BY <1>0, <1>2, <2>1 DEF ListKnown
  <2> QED
    BY <2>2, <2>3, <2>4 DEF QInv
<1>4. CASE AddCount(x)
  <2>1. /\ queue_size' = 1 /\ UNCHANGED <<head, next, used, ran, task>>
        /\ pc'[x] = "signal" /\ head = task[x]
        /\ \A y \in Thread : y # x => pc'[y] = pc[y]
    BY <1>0, <1>4 DEF AddCount, Counted, Goto, LInv, IInv, PcOK, TypeOK, AddersKnow, Adding
  <2>2. AddersKnow'
    BY <1>2, <2>1 DEF AddersKnow, Adding
  <2>3. TakersKnow'
    BY <1>2, <2>1 DEF TakersKnow
  <2>4. ListKnown'
    BY <1>0, <1>2, <2>1 DEF ListKnown
  <2> QED
    BY <2>2, <2>3, <2>4 DEF QInv
<1> QED
  BY <1>3, <1>4

LEMMA TakeQ ==
    ASSUME LInv, Alive, NEW w \in Worker,
           WorkerTake(w) \/ WorkerUnlink(w) \/ WorkerUncount(w) \/ WorkerRun(w), ~Die
    PROVE  QInv'
<1> Caller \subseteq Thread /\ Worker \subseteq Thread /\ Caller \cap Worker = {} /\ Nil \notin Task
  BY ThreadAssumption DEF Thread
<1>0. AddersKnow /\ TakersKnow /\ ListKnown
  BY DEF LInv, QInv
<1>1. CASE WorkerTake(w)
  <2>1. queue_size # 0 /\ head # Nil /\ head \in Task
    BY <1>1 DEF WorkerTake, MaySleep, MayExit, LInv, TypeOK
  <2>2. \A x \in Caller : pc[x] \notin Adding
    BY <1>0, <2>1 DEF AddersKnow
  <2>3. queue_size = 1 /\ used[head] # "new" /\ next[head] = Nil /\ ran[head] = 0
    BY <1>0, <2>1, <2>2 DEF ListKnown, Adding
  <2>4. lock = w /\ pc[w] = "test"
    BY <1>1 DEF WorkerTake, LInv, IInv, HoldersHold, Critical
  <2>5. \A v \in Worker : pc[v] \notin Taking
    BY <1>0, <2>1, <2>4 DEF TakersKnow, Taking, LInv, IInv, HoldersHold, Critical
  <2>6. /\ task'[w] = head /\ pc'[w] = "unlink"
        /\ \A y \in Thread : y # w => pc'[y] = pc[y] /\ task'[y] = task[y]
        /\ UNCHANGED <<head, next, queue_size, used, ran, reg>>
    BY <1>1 DEF WorkerTake, Goto, LInv, IInv, PcOK, TypeOK, list
  <2>7. AddersKnow'
    BY <2>2, <2>6 DEF AddersKnow
  <2>8. TakersKnow'
    BY <2>1, <2>3, <2>5, <2>6 DEF TakersKnow, Taking
  <2>9. ListKnown'
    BY <1>0, <2>1, <2>3, <2>6 DEF ListKnown
  <2> QED
    BY <2>7, <2>8, <2>9 DEF QInv
<1>2. CASE ~WorkerTake(w)
  <2>0. pc[w] \in Taking
    BY <1>2 DEF WorkerUnlink, WorkerUncount, WorkerRun, Taking
  <2>1. /\ \A v \in Worker : pc[v] \in Taking => v = w
        /\ task[w] \in Task /\ used[task[w]] # "new" /\ ran[task[w]] = 0
        /\ \A x \in Caller : pc[x] \notin Adding
    BY <1>0, <2>0 DEF TakersKnow, AddersKnow
  <2>2. CASE WorkerUnlink(w)
    <3>1. head = task[w] /\ next[head] = Nil /\ queue_size = 1
      BY <1>0, <2>1, <2>2 DEF WorkerUnlink, TakersKnow, ListKnown, Taking, Adding
    <3>2. /\ head' = Nil /\ reg'[w] = 1 /\ UNCHANGED <<next, queue_size, used, ran, task>>
          /\ pc'[w] = "uncount"
          /\ \A y \in Thread : y # w => pc'[y] = pc[y]
      BY <2>1, <2>2, <3>1 DEF WorkerUnlink, Goto, LInv, IInv, PcOK, TypeOK
    <3>3. AddersKnow'
      BY <2>1, <3>2 DEF AddersKnow
    <3>4. TakersKnow'
      BY <2>1, <3>1, <3>2 DEF TakersKnow, Taking
    <3>5. ListKnown'
      BY <1>0, <3>2 DEF ListKnown
    <3> QED
      BY <3>3, <3>4, <3>5 DEF QInv
  <2>3. CASE WorkerUncount(w)
    <3>1. head = Nil /\ reg[w] = 1
      BY <1>0, <2>3 DEF WorkerUncount, TakersKnow, Taking
    <3>2. /\ queue_size' = 0 /\ UNCHANGED <<head, next, used, ran, task>>
          /\ pc'[w] = "run"
          /\ \A y \in Thread : y # w => pc'[y] = pc[y]
      BY <2>3, <3>1 DEF WorkerUncount, Uncounted, Goto, LInv, IInv, PcOK, TypeOK
    <3>3. AddersKnow'
      BY <2>1, <3>2 DEF AddersKnow
    <3>4. TakersKnow'
      BY <2>1, <3>1, <3>2 DEF TakersKnow, Taking
    <3>5. ListKnown'
      BY <1>0, <3>1, <3>2 DEF ListKnown
    <3> QED
      BY <3>3, <3>4, <3>5 DEF QInv
  <2>4. CASE WorkerRun(w)
    <3>1. head = Nil /\ queue_size = 0
      BY <1>0, <2>4 DEF WorkerRun, TakersKnow, Taking
    <3>2. /\ UNCHANGED <<head, next, used, queue_size>>
          /\ ran'[task[w]] = 1
          /\ \A t \in Task : t # task[w] => ran'[t] = ran[t]
          /\ pc'[w] = "ran"
          /\ \A y \in Thread : y # w => pc'[y] = pc[y] /\ task'[y] = task[y]
      BY <2>1, <2>4 DEF WorkerRun, Goto, LInv, IInv, PcOK, TypeOK, list
    <3>3. AddersKnow'
      BY <2>1, <3>2 DEF AddersKnow
    <3>4. TakersKnow'
      BY <2>1, <3>1, <3>2 DEF TakersKnow, Taking
    <3>5. ListKnown'
      BY <1>0, <2>1, <3>1, <3>2 DEF ListKnown
    <3> QED
      BY <3>3, <3>4, <3>5 DEF QInv
  <2> QED
    BY <1>2, <2>2, <2>3, <2>4
<1> QED
  BY <1>1, <1>2

LEMMA QStep == ASSUME LInv, [Next]_vars PROVE QInv'
<1> SUFFICES ASSUME Alive' PROVE QInv'
  BY DEF QInv
<1> Main \in Caller /\ Caller \subseteq Thread /\ Worker \subseteq Thread
  BY ThreadAssumption DEF Thread
<1>0. Alive
  BY AliveBefore
<1>1. ~Die
  BY DEF Die, Alive
<1>2. ASSUME NEW x \in Thread, UNCHANGED <<head, next, queue_size, used, ran>>,
             pc[x] \notin Adding \cup Taking, pc'[x] \notin Adding \cup Taking,
             \A y \in Thread : y # x => pc'[y] = pc[y] /\ task'[y] = task[y] /\ reg'[y] = reg[y]
      PROVE  QInv'
  BY <1>0, <1>2, Quiet DEF QInv
<1>3. ASSUME NEW x \in Caller, Calls(x) \/ InCall(x) PROVE QInv'
  <2>1. CASE AddMalloc(x)
    BY <1>0, <2>1, AddMallocQ
  <2>2. CASE AddLink(x) \/ AddCount(x)
    BY <1>0, <2>2, AddLinkQ
  <2>3. CASE AddSignal(x) \/ DestroyShut(x)
    <3>1. pc[x] \notin Adding \cup Taking /\ pc[x] # "dead"
      BY <2>3 DEF AddSignal, DestroyShut, Adding, Taking
    <3>2. \A w \in waiting : pc[w] \notin Adding \cup Taking /\ w \in Worker
      BY DEF LInv, Asleep, TypeOK, Adding, Taking
    <3>3. \A y \in Thread : \/ y # x /\ pc'[y] = pc[y] /\ task'[y] = task[y] /\ reg'[y] = reg[y]
                            \/ y \in waiting \cup {x} /\ pc'[y] \notin Adding \cup Taking
      <4>1. CASE AddSignal(x)
        <5>1. PICK ws \in SUBSET waiting :
                pc' = [y \in Thread |-> IF y \in ws THEN Woken
                                        ELSE IF y = x THEN "idle" ELSE pc[y]]
          BY <4>1 DEF AddSignal
        <5>2. \A y \in Thread : y # x => task'[y] = task[y] /\ reg'[y] = reg[y]
          BY <4>1 DEF AddSignal, LInv, TypeOK
        <5> QED
          BY <5>1, <5>2 DEF Woken, Adding, Taking
      <4>2. CASE DestroyShut(x)
        BY <4>2 DEF DestroyShut, Broadcast, Woken, Adding, Taking
      <4> QED
        BY <2>3, <4>1, <4>2
    <3>4. UNCHANGED <<head, next, queue_size, used, ran>>
      BY <2>3 DEF AddSignal, DestroyShut, list
    <3> QED
      BY <1>0, <3>1, <3>2, <3>3, <3>4, Quiet DEF QInv
  <2>4. CASE DestroyJoin(x)
    BY <2>4 DEF DestroyJoin, Goto, Alive, Gone, LInv, IInv, PcOK
  <2>5. CASE AddCall(x) \/ DestroyCall(x, "destroy_now") \/ DestroyCall(x, "destroy_later")
             \/ Lock(x, "add", "malloc") \/ DestroyLock(x) \/ DestroyAgain(x)
    <3>1. pc[x] \notin Adding \cup Taking /\ pc'[x] \notin Adding \cup Taking
          /\ \A y \in Thread : y # x => pc'[y] = pc[y]
      BY <2>5
         DEF AddCall, DestroyCall, Lock, DestroyLock, DestroyAgain, Goto, Adding, Taking, LInv,
             IInv, PcOK
    <3>2. UNCHANGED <<head, next, queue_size, used, ran, task, reg>>
      BY <2>5 DEF AddCall, DestroyCall, Lock, DestroyLock, DestroyAgain, list
    <3> QED
      BY <1>2, <3>1, <3>2
  <2> QED
    BY <1>3, <2>1, <2>2, <2>3, <2>4, <2>5 DEF Calls, InCall
<1>4. ASSUME NEW w \in Worker, Create(w) \/ Works(w) \/ SpuriousWakeup(w) PROVE QInv'
  <2>1. CASE WorkerTake(w) \/ WorkerUnlink(w) \/ WorkerUncount(w) \/ WorkerRun(w)
    BY <1>0, <1>1, <2>1, TakeQ
  <2>2. CASE Create(w) \/ WorkerLock(w) \/ WorkerWait(w) \/ WorkerExit(w) \/ WorkerFindsNone(w)
             \/ WorkerRan(w) \/ SpuriousWakeup(w)
    <3>1. pc[w] \notin Adding \cup Taking /\ pc'[w] \notin Adding \cup Taking
          /\ \A y \in Thread : y # w => pc'[y] = pc[y]
      <4>1. pc[w] \notin Adding \cup Taking
        <5>1. SpuriousWakeup(w) => pc[w] \notin Adding \cup Taking
          BY DEF SpuriousWakeup, Adding, Taking
        <5> QED
          BY <2>2, <5>1
             DEF Create, WorkerLock, Lock, WorkerWait, WorkerExit, WorkerFindsNone, WorkerRan,
                 Adding, Taking
      <4> QED
        BY <2>2, <4>1
           DEF Create, WorkerLock, Lock, WorkerWait, WorkerExit, WorkerFindsNone, WorkerRan,
               SpuriousWakeup, Woken, Goto, Adding, Taking, LInv, IInv, PcOK
    <3>2. UNCHANGED <<head, next, queue_size, used, ran>>
          /\ \A y \in Thread : y # w => task'[y] = task[y] /\ reg'[y] = reg[y]
      BY <2>2
         DEF Create, WorkerLock, Lock, WorkerWait, WorkerExit, WorkerFindsNone, WorkerRan,
             SpuriousWakeup, list, LInv, TypeOK
    <3> QED
      BY <1>2, <3>1, <3>2
  <2> QED
    BY <1>4, <2>1, <2>2 DEF Works
<1>5. CASE CreateFails
  <2>1. pc[Main] \notin Adding \cup Taking /\ pc'[Main] \notin Adding \cup Taking
        /\ \A y \in Thread : y # Main => pc'[y] = pc[y]
    BY <1>5 DEF CreateFails, Goto, Adding, Taking, LInv, IInv, PcOK
  <2> QED
    BY <1>2, <1>5, <2>1 DEF CreateFails, list
<1>6. CASE Created
  <2>1. \A x \in Caller : pc[x] \notin Adding \cup Taking
    BY <1>6 DEF Created, LInv, Starting, Adding, Taking
  <2> QED
    BY <1>0, <1>6, <2>1, Quiet DEF Created, list, Adding, Taking, QInv
<1>7. CASE UNCHANGED vars
  BY <1>0, <1>7, Quiet DEF vars, list, QInv
<1> QED
  BY <1>1, <1>3, <1>4, <1>5, <1>6, <1>7 DEF Next, AddMallocFails

\* For every number of workers, callers and tasks: queue_size counts the list, and
\* no task is run twice, unless two tasks were refused.
THEOREM AlwaysCounted == Spec => []ListCounted
<1>1. Init => LInv
  BY InitLInv
<1>2. LInv /\ [Next]_vars => LInv'
  BY StepIInv, TypeStep, StartingStep, AsleepStep, AcceptedStep, QStep DEF LInv
<1>3. LInv => ListCounted
  <2> SUFFICES ASSUME LInv, Alive PROVE ListCounted
    BY DEF ListCounted, Alive
  <2>1. AddersKnow /\ TakersKnow /\ ListKnown
    BY DEF LInv, QInv
  <2>2. queue_size = IF \/ head # Nil /\ \A x \in Caller : pc[x] # "count"
                        \/ \E w \in Worker : pc[w] = "uncount"
                     THEN 1 ELSE 0
    BY <2>1 DEF AddersKnow, TakersKnow, ListKnown, Adding, Taking
  <2>3. head # Nil => next[head] = Nil
    BY <2>1 DEF ListKnown
  <2>4. \A t \in Task : ran[t] =< 1
    BY <2>1 DEF ListKnown
  <2> QED
    BY <2>2, <2>3, <2>4 DEF ListCounted
<1> QED
  BY <1>1, <1>2, <1>3, PTL DEF Spec
=============================================================================
