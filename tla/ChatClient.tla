----------------------------- MODULE ChatClient -----------------------------
(***************************************************************************)
(* The client of the threaded chat room (chatroom/chat/client.c).  After   *)
(* the login four threads run: one reads what the user types and one sends *)
(* it, one receives what the server sends and one shows it.  Each pair     *)
(* shares a linked queue without a lock.  A step reads or writes one       *)
(* shared pointer.  Ctrl+C (SIGINT) lets the user choose whom to write to, *)
(* Ctrl+\ (SIGQUIT) ends the client.                                       *)
(*                                                                         *)
(* A definition named X_y is a wrong form of the definition X after it, on *)
(* which the properties are seen to fail.                                  *)
(***************************************************************************)
EXTENDS Integers, Sequences, SequencesExt

CONSTANTS MaxPut,  \* bound: elements put into the two queues
          Shown,   \* messages the window shows: 8 in the code
          Nil

Queue == {"send", "recv"}

\* the nodes of a queue: its dummy front, and one for each element
Dummy == 0
Node == 0..MaxPut

VARIABLES
    phase,     \* login, running or ended
    input,     \* where the input thread is
    insetflag, \* SIGINT has come
    desnum,    \* whom the user writes to
    typed,     \* messages typed so far
    last,      \* what the receiver's buffer holds
    arrived,   \* times recv has returned
    mlist,     \* the messages in the window, the oldest first
    next,      \* per queue: the node after a node
    rear,      \* per queue
    datum,     \* per queue: what a node holds
    gone,      \* per queue: the nodes that were freed
    put,       \* per queue: where its producer is, and with which node
    get,       \* per queue: where its consumer is, and with which node
    taken,     \* per queue: what was taken out
    entered,   \* per queue: what was put in
    crossed    \* per queue: see InOrder

queues == <<next, rear, datum, gone, put, get, taken, entered, crossed>>
user == <<insetflag, desnum, typed>>
server == <<last, arrived>>
vars == <<phase, input, user, server, mlist, queues>>

Idle == [at |-> "idle", node |-> Nil, prev |-> Nil]

Init ==
    /\ phase = "login" /\ input = "top"
    /\ insetflag = FALSE /\ desnum = 0 /\ typed = 0
    /\ last = Nil /\ arrived = 0
    /\ mlist = << >>
    /\ next = [q \in Queue |-> [n \in Node |-> Nil]]
    /\ rear = [q \in Queue |-> Dummy]
    /\ datum = [q \in Queue |-> [n \in Node |-> Nil]]
    /\ gone = [q \in Queue |-> {}]
    /\ put = [q \in Queue |-> Idle] /\ get = [q \in Queue |-> Idle]
    /\ taken = [q \in Queue |-> << >>] /\ entered = [q \in Queue |-> << >>]
    /\ crossed = [q \in Queue |-> FALSE]

Running == phase = "running"

-----------------------------------------------------------------------------
(***************************************************************************)
(* The queues.                                                             *)
(***************************************************************************)
\* EnQueue: a node with the element, ...
EnQueue(q, e) ==
    /\ put[q].at = "idle"
    /\ LET n == Len(entered[q]) + 1 IN
           /\ put' = [put EXCEPT ![q] = [at |-> "load", node |-> n, prev |-> Nil]]
           /\ datum' = [datum EXCEPT ![q][n] = e]
    /\ entered' = [entered EXCEPT ![q] = Append(@, e)]
    /\ UNCHANGED <<next, rear, gone, get, taken, crossed>>

EmpQueue(q) == rear[q] = Dummy

\* ... the rear is read ...
LoadRear(q) ==
    /\ Running /\ put[q].at = "load"
    /\ put' = [put EXCEPT ![q].at = "link", ![q].prev = rear[q]]
    /\ crossed' = [crossed EXCEPT ![q] = @ \/ (get[q] # Idle /\ get[q].node = rear[q])]
    /\ UNCHANGED <<phase, input, user, server, mlist, next, rear, datum, gone,
                   get, taken, entered>>

\* ... and linked to the node ...
Link(q) ==
    /\ Running /\ put[q].at = "link"
    /\ next' = [next EXCEPT ![q][put[q].prev] = put[q].node]
    /\ put' = [put EXCEPT ![q].at = "rear"]
    /\ UNCHANGED <<phase, input, user, server, mlist, rear, datum, gone, get,
                   taken, entered, crossed>>

\* ... and becomes it
SetRear(q) ==
    /\ Running /\ put[q].at = "rear"
    /\ rear' = [rear EXCEPT ![q] = put[q].node]
    /\ put' = [put EXCEPT ![q] = Idle]
    /\ UNCHANGED <<phase, input, user, server, mlist, next, datum, gone, get,
                   taken, entered, crossed>>

\* DeQueue, when the queue is not empty: the first node is read, which there
\* must be, ...
First(q) ==
    LET n == next[q][Dummy] IN
    /\ Running /\ get[q].at = "idle" /\ ~EmpQueue(q)
    /\ IF n = Nil
       THEN phase' = "ended" /\ UNCHANGED <<get, taken, crossed>>
       ELSE /\ get' = [get EXCEPT ![q] = [at |-> "unlink", node |-> n, prev |-> Nil]]
            /\ taken' = [taken EXCEPT ![q] = Append(@, datum[q][n])]
            /\ crossed' = [crossed EXCEPT ![q] =
                    @ \/ (put[q].at \in {"link", "rear"} /\ put[q].prev = n)]
            /\ UNCHANGED phase
    /\ UNCHANGED <<input, user, server, mlist, next, rear, datum, gone, put, entered>>

\* ... taken out, ...
Unlink(q) ==
    /\ Running /\ get[q].at = "unlink"
    /\ next' = [next EXCEPT ![q][Dummy] = next[q][get[q].node]]
    /\ get' = [get EXCEPT ![q].at = "test"]
    /\ UNCHANGED <<phase, input, user, server, mlist, rear, datum, gone, put,
                   taken, entered, crossed>>

IsRear_not(q) ==
    /\ Running /\ get[q].at = "test"
    /\ get' = [get EXCEPT ![q].at = "free"]
    /\ UNCHANGED <<phase, input, user, server, mlist, next, rear, datum, gone,
                   put, taken, entered, crossed>>

\* ... and if it was the rear ...
IsRear(q) ==
    /\ Running /\ get[q].at = "test"
    /\ get' = [get EXCEPT ![q].at = IF rear[q] = get[q].node THEN "reset" ELSE "free"]
    /\ UNCHANGED <<phase, input, user, server, mlist, next, rear, datum, gone,
                   put, taken, entered, crossed>>

\* ... the front becomes the rear, ...
ResetRear(q) ==
    /\ Running /\ get[q].at = "reset"
    /\ rear' = [rear EXCEPT ![q] = Dummy]
    /\ get' = [get EXCEPT ![q].at = "free"]
    /\ UNCHANGED <<phase, input, user, server, mlist, next, datum, gone, put,
                   taken, entered, crossed>>

\* ... and it is freed; the thread goes on with its content
Free(q, l) ==
    /\ Running /\ get[q].at = "free"
    /\ gone' = [gone EXCEPT ![q] = @ \cup {get[q].node}]
    /\ get' = [get EXCEPT ![q] = [Idle EXCEPT !.at = l]]
    /\ UNCHANGED <<next, rear, datum, put, taken, entered, crossed>>

-----------------------------------------------------------------------------
(***************************************************************************)
(* The login and the threads.                                              *)
(***************************************************************************)
\* a registration that succeeds, and a login that is refused, end the client
Login ==
    /\ phase = "login" /\ phase' \in {"running", "ended"}
    /\ UNCHANGED <<input, user, server, mlist, queues>>

\* the window's ring of messages: the new one takes the oldest one's place
msgList_updata(d) ==
    mlist' = Append(IF Len(mlist) = Shown THEN Tail(mlist) ELSE mlist, d)

\* hand_thread: a message is shown, a list of users does not touch the window
hand_thread ==
    \/ Free("recv", "handle") /\ UNCHANGED <<phase, input, user, server, mlist>>
    \/ /\ Running /\ get["recv"].at = "handle"
       /\ LET d == Last(taken["recv"]) IN
          IF d = Nil \/ d.type # 0 THEN UNCHANGED mlist ELSE msgList_updata(d)
       /\ get' = [get EXCEPT !["recv"] = Idle]
       /\ UNCHANGED <<phase, input, user, server, next, rear, datum, gone,
                      put, taken, entered, crossed>>

\* recv_thread: recv's 0 leaves what was there before, its -1 ends the client
recv_thread ==
    /\ Running /\ typed + arrived < MaxPut /\ arrived' = arrived + 1
    /\ \/ /\ last' \in [type : {0, 2}, id : {arrived + 1}]
          /\ EnQueue("recv", last') /\ UNCHANGED phase
       \/ UNCHANGED <<last, phase>> /\ EnQueue("recv", last)
       \/ phase' = "ended" /\ UNCHANGED <<last, queues>>
    /\ UNCHANGED <<input, user, mlist>>

\* send_thread: what was taken out is sent, or the sending ends the client
send_thread ==
    /\ Free("send", "idle") /\ phase' \in {"running", "ended"}
    /\ UNCHANGED <<input, user, server, mlist>>

\* inputcnl_thread: the choice of whom to write to, until it is a right one;
\* for a file, which is not sent, the loop starts again, ...
AtTop == Running /\ input = "top" /\ put["send"].at = "idle"

Choose ==
    /\ AtTop /\ insetflag
    /\ desnum' \in 0..1 /\ insetflag' = FALSE /\ input' \in {"prompt", "top"}
    /\ UNCHANGED <<phase, typed, server, mlist, queues>>

Prompt ==
    /\ AtTop /\ ~insetflag /\ input' = "prompt"
    /\ UNCHANGED <<phase, user, server, mlist, queues>>

\* ... a line, which is dropped if it is empty or SIGINT has come
Type ==
    /\ Running /\ input = "prompt" /\ put["send"].at = "idle" /\ input' = "top"
    /\ \/ /\ ~insetflag /\ typed + arrived < MaxPut /\ typed' = typed + 1
          /\ EnQueue("send", [type |-> 0, id |-> typed + 1, des |-> desnum])
       \/ UNCHANGED <<typed, queues>>
    /\ UNCHANGED <<phase, insetflag, desnum, server, mlist>>

input_set ==
    /\ Running /\ ~insetflag /\ insetflag' = TRUE
    /\ UNCHANGED <<phase, input, desnum, typed, server, mlist, queues>>

client_quit ==
    /\ Running /\ phase' = "ended"
    /\ UNCHANGED <<input, user, server, mlist, queues>>

Next ==
    \/ Login \/ hand_thread \/ recv_thread \/ send_thread
    \/ Choose \/ Prompt \/ Type \/ input_set \/ client_quit
    \/ \E q \in Queue : LoadRear(q) \/ Link(q) \/ SetRear(q)
                        \/ First(q) \/ Unlink(q) \/ IsRear(q) \/ ResetRear(q)

Spec == Init /\ [][Next]_vars

-----------------------------------------------------------------------------
\* Each queue hands over what it was given, complete and in order, though
\* nothing keeps its two threads apart: they may be at work on it at the same
\* time, unless the consumer takes the very node that the producer has read as
\* the rear and links the next one to.
InOrder ==
    \A q \in Queue : crossed[q] \/
        /\ taken[q] = SubSeq(entered[q], 1, Len(taken[q]))
        /\ put[q] = Idle /\ get[q] = Idle /\ EmpQueue(q) => taken[q] = entered[q]
        /\ rear[q] \notin gone[q]
        /\ get[q] = Idle /\ ~EmpQueue(q) => next[q][Dummy] \notin gone[q] \cup {Nil}
=============================================================================
