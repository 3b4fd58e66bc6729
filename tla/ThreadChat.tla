----------------------------- MODULE ThreadChat -----------------------------
(***************************************************************************)
(* The server of the threaded chat room (chatroom/chat/server.c).  main    *)
(* logs clients in, one after the other, links each into the list of       *)
(* users, sends the list to all of them and starts a thread that receives  *)
(* what the client sends.  No lock protects the list: threads walk it and  *)
(* cut users out of it while main links others in.                         *)
(*                                                                         *)
(* A step reads or writes one pointer of the list, of each pointer that is *)
(* read twice in turn too; only the search for a user reads all it needs   *)
(* at once, and what a listing says is left out.  Memory that was freed    *)
(* keeps its content or ends the server.  Descriptors are never closed, so *)
(* a client is its descriptor, its node of the list and its thread.        *)
(*                                                                         *)
(* A definition named X_y is a wrong form of the definition X after it, on *)
(* which the properties are seen to fail.                                  *)
(***************************************************************************)
EXTENDS Integers, Sequences, FiniteSets

CONSTANTS Client,   \* the connections
          Name,     \* what a user enters: a name with its password
          Course,   \* bounds: who comes, how many messages are sent, how many
                    \* may have left for one more to leave, and whether all are
                    \* registered, enter, and then leave with a farewell
          Ulist,    \* the list's dummy head
          Main, Nil

Process == Client \cup {Main}

VARIABLES
    pc,         \* where main and the threads are
    who,        \* each client: away, asking (connected), in, gone (closed)
    inbox,      \* per client: what it has sent and nobody has received
    said,       \* how many messages were sent
    course,     \* what the clients will do
    registered, \* registerlist.txt
    useinfo,    \* main's copy of the last login data
    client_fd,  \* main's variable, whose address each thread gets
    fd,         \* per thread: its copy of client_fd
    databuf,    \* per process: the data it sends or has received
    next,       \* the list of users: the node after a node
    freed,      \* nodes that were freed
    walk,       \* per process: its loop over the list
    cut,        \* per thread: what userlist_del has read
    alive,      \* the server has not ended
    crossed     \* one wrote what another had made stale: see UsersKept

users == <<next, freed, cut>>
clients == <<who, inbox, said, course>>
login == <<registered, useinfo, client_fd>>
vars == <<pc, clients, login, fd, databuf, users, walk, alive, crossed>>

\* the messages: to all or to one, the news of who is in, and the farewell
All == "0"
Text(c, d) == [type |-> 0, src |-> c, des |-> d]
Listing == [type |-> 2, src |-> Main, des |-> All]
Quit == [type |-> 8, src |-> Nil, des |-> Nil]

\* at is the node the loop has come to, left the sends it still has to make;
\* due, reached and steady record whom it owes the data, who got it, and that
\* no pointer was written that it has still to follow
NoWalk == [at |-> Ulist, left |-> 0, due |-> {}, reached |-> {}, steady |-> TRUE]

\* userlist_del's p and q, and what it has come to for the pointer to write
NoCut == [p |-> Nil, q |-> Nil, after |-> Nil]

Init ==
    /\ pc = [p \in Process |-> IF p = Main THEN "accept" ELSE "none"]
    /\ who = [c \in Client |-> "away"] /\ inbox = [c \in Client |-> << >>]
    /\ said = 0 /\ course \in Course
    /\ registered \in (IF course.orderly THEN {Name} ELSE SUBSET Name) /\ useinfo = Nil /\ client_fd = Nil
    /\ fd = [c \in Client |-> Nil] /\ databuf = [p \in Process |-> Nil]
    /\ next = [n \in Client \cup {Ulist} |-> Nil] /\ freed = {}
    /\ walk = [p \in Process |-> NoWalk] /\ cut = [c \in Client |-> NoCut]
    /\ alive = TRUE /\ crossed = FALSE

Goto(p, l) == pc' = [pc EXCEPT ![p] = l]

-----------------------------------------------------------------------------
(***************************************************************************)
(* The list of users.                                                      *)
(***************************************************************************)
\* the users behind a node: all that the links lead to from there
Behind(links, n) ==
    LET closed == {S \in SUBSET Client : \A x \in S \cup {n} : links[x] \in S \cup {Nil}}
    IN {c \in Client : \A S \in closed : c \in S}

Listed == Behind(next, Ulist)

\* a send to a client that has closed its end may raise SIGPIPE, a use of
\* freed memory may end in a segmentation fault
Risks(gone, nodes) ==
    alive' \in IF gone \/ nodes \cap freed # {} THEN BOOLEAN ELSE {TRUE}

Closed(c) == who[c] = "gone"

\* the nodes whose pointer a loop has still to follow: while it counts, those
\* it has counted from, as it comes again; then those it has yet to send from
Ahead(p) ==
    LET w == walk[p] IN
    CASE pc[p] = "count" -> ({Ulist} \cup w.due) \ {w.at}
      [] pc[p] \in {"walk", "move"} /\ w.at # Nil ->
             {w.at, next[w.at]} \cup (w.due \ w.reached)
      [] OTHER -> {}

Write(n, to) ==
    /\ next' = [next EXCEPT ![n] = to]
    /\ walk' = [p \in Process |-> [walk[p] EXCEPT !.steady = @ /\ n \notin Ahead(p)]]

Count_head(p) ==
    LET q == next[walk[p].at] IN
    /\ alive /\ pc[p] = "count"
    /\ IF q = Nil
       THEN /\ Goto(p, "walk")
            /\ walk' = [walk EXCEPT ![p].at = Ulist, ![p].left = @ + 1]
       ELSE /\ walk' = [walk EXCEPT ![p].at = q, ![p].left = @ + 1,
                                    ![p].due = @ \cup {q}]
            /\ UNCHANGED pc
    /\ Risks(FALSE, {walk[p].at})
    /\ UNCHANGED <<clients, login, fd, databuf, users, crossed>>

\* userlist_length, pointer by pointer; then the loop begins at the dummy head
Count(p) ==
    LET q == next[walk[p].at] IN
    /\ alive /\ pc[p] = "count"
    /\ IF q = Nil
       THEN Goto(p, "walk") /\ walk' = [walk EXCEPT ![p].at = Ulist]
       ELSE /\ walk' = [walk EXCEPT ![p].at = q, ![p].left = @ + 1,
                                    ![p].due = @ \cup {q}]
            /\ UNCHANGED pc
    /\ Risks(FALSE, {walk[p].at})
    /\ UNCHANGED <<clients, login, fd, databuf, users, crossed>>

\* the data is sent to the user after the node the loop is at ...
SendNext(p) ==
    LET w == walk[p]  q == IF w.at = Nil THEN Nil ELSE next[w.at] IN
    /\ alive /\ pc[p] = "walk" /\ w.left > 0
    /\ IF q = Nil
       THEN alive' = FALSE /\ UNCHANGED <<pc, walk>>
       ELSE /\ Risks(Closed(q), {w.at, q}) /\ Goto(p, "move")
            /\ walk' = [walk EXCEPT ![p].reached = @ \cup {q}]
    /\ UNCHANGED <<clients, login, fd, databuf, users, crossed>>

\* ... and the loop goes on to the one that is after it then
MoveOn(p) ==
    /\ alive /\ pc[p] = "move" /\ Goto(p, "walk")
    /\ walk' = [walk EXCEPT ![p].at = next[@], ![p].left = @ - 1]
    /\ Risks(FALSE, {walk[p].at})
    /\ UNCHANGED <<clients, login, fd, databuf, users, crossed>>

WalkEnds(p) ==
    /\ alive /\ pc[p] = "walk" /\ walk[p].left = 0
    /\ Goto(p, IF p = Main THEN "spawn"
               ELSE IF databuf[p] = Listing THEN "end" ELSE "recv")
    /\ walk' = [walk EXCEPT ![p] = NoWalk]
    /\ UNCHANGED <<clients, login, fd, databuf, users, alive, crossed>>

-----------------------------------------------------------------------------
(***************************************************************************)
(* main.                                                                   *)
(***************************************************************************)
Accept(c) ==
    /\ alive /\ pc[Main] = "accept" /\ who[c] = "away" /\ c \in course.comes
    /\ Goto(Main, "login")
    /\ who' = [who EXCEPT ![c] = "asking"] /\ client_fd' = c
    /\ crossed' = (crossed \/ \E t \in Client : pc[t] = "new")
    /\ UNCHANGED <<inbox, said, course, registered, useinfo, fd, databuf, users, walk, alive>>

\* the login data arrives; of a client that closes nothing does, and main goes
\* on with the data of the one before, or with unset data, which are no user's
RecvLogin ==
    LET c == client_fd IN
    /\ alive /\ pc[Main] = "login" /\ Goto(Main, "check")
    /\ \/ /\ who[c] = "asking"
          /\ useinfo' \in [flag : IF course.orderly THEN {0} ELSE {0, 1}, name : Name] /\ alive' = TRUE
       \/ /\ who[c] = "gone" /\ alive' \in BOOLEAN
          /\ useinfo' = IF useinfo = Nil THEN [flag |-> 0, name |-> Nil] ELSE useinfo
    /\ UNCHANGED <<clients, registered, client_fd, fd, databuf, users, walk, crossed>>

RregisterUser == registered' = registered \cup {useinfo.name}

IsHaveRegistered == useinfo.name \in registered

\* the answer is 0, to one that has registered and to one that may not enter,
\* and both leave; or 1, the client's number, and the client's name comes back
Answer ==
    LET c == client_fd  enters == useinfo.flag # 1 /\ IsHaveRegistered IN
    /\ alive /\ pc[Main] = "check" /\ Goto(Main, IF enters THEN "link" ELSE "accept")
    /\ IF useinfo.flag = 1 THEN RregisterUser ELSE UNCHANGED registered
    /\ who' = [who EXCEPT ![c] = IF enters /\ @ = "asking" THEN "in" ELSE "gone"]
    /\ Risks(Closed(c), {})
    /\ UNCHANGED <<inbox, said, course, useinfo, client_fd, fd, databuf, users, walk, crossed>>

\* userlist_add: first the new node, then the head
Link ==
    /\ alive /\ pc[Main] = "link" /\ Goto(Main, "head")
    /\ next' = [next EXCEPT ![client_fd] = next[Ulist]]
    /\ UNCHANGED <<clients, login, fd, databuf, freed, cut, walk, alive, crossed>>

LinkHead ==
    /\ alive /\ pc[Main] = "head" /\ Goto(Main, "count")
    /\ Write(Ulist, client_fd)
    /\ databuf' = [databuf EXCEPT ![Main] = Listing]
    /\ crossed' = (crossed \/ next[client_fd] # next[Ulist])
    /\ UNCHANGED <<clients, login, fd, freed, cut, alive>>

Spawn ==
    /\ alive /\ pc[Main] = "spawn"
    /\ pc' = [pc EXCEPT ![Main] = "accept", ![client_fd] = "new"]
    /\ UNCHANGED <<clients, login, fd, databuf, users, walk, alive, crossed>>

-----------------------------------------------------------------------------
(***************************************************************************)
(* A client's thread.                                                      *)
(***************************************************************************)
Start(t) ==
    /\ alive /\ pc[t] = "new" /\ Goto(t, "recv")
    /\ fd' = [fd EXCEPT ![t] = client_fd]
    /\ UNCHANGED <<clients, login, databuf, users, walk, alive, crossed>>

\* what is done with d: sent to all, to one, or the thread ends; data that were
\* never received are what is on a thread's stack, zeros or a listing that one
\* before it has left there
Dispatch(t, d) ==
    \E l \in CASE d = Nil -> {"recv", "count"}
               [] d = Quit -> {"find"}
               [] d.type = 0 /\ d.des = All -> {"count"}
               [] OTHER -> {"search"} : Goto(t, l)

\* recv's 0 leaves the last data in the buffer, its -1 ends the server
Recv(t) ==
    LET c == fd[t] IN
    /\ alive /\ pc[t] = "recv"
    /\ \/ /\ inbox[c] # << >> /\ alive' = TRUE
          /\ databuf' = [databuf EXCEPT ![t] = Head(inbox[c])]
          /\ inbox' = [inbox EXCEPT ![c] = Tail(@)]
          /\ Dispatch(t, Head(inbox[c]))
       \/ /\ inbox[c] = << >> /\ Closed(c) /\ alive' \in BOOLEAN
          /\ Dispatch(t, databuf[t])
          /\ UNCHANGED <<databuf, inbox>>
    /\ UNCHANGED <<who, said, course, login, fd, users, walk, crossed>>

\* to one: whether it is in the list is looked up ...
Search(t) ==
    /\ alive /\ pc[t] = "search"
    /\ IF databuf[t].des \in Listed
       THEN Goto(t, "deliver") /\ alive' = TRUE
       ELSE Goto(t, "recv") /\ Risks(Closed(fd[t]), {})
    /\ UNCHANGED <<clients, login, fd, databuf, users, walk, crossed>>

\* ... and then the message sent, to it and back to the client
Deliver(t) ==
    /\ alive /\ pc[t] = "deliver" /\ Goto(t, "recv")
    /\ Risks(Closed(databuf[t].des) \/ Closed(databuf[t].src), {})
    /\ UNCHANGED <<clients, login, fd, databuf, users, walk, crossed>>

\* userlist_del finds the node before the client's, p ...
Find(t) ==
    LET before == {n \in {Ulist} \cup Listed : next[n] = fd[t]} IN
    /\ alive /\ pc[t] = "find"
    /\ IF before = {}
       THEN /\ Goto(t, "count") /\ UNCHANGED cut
            /\ databuf' = [databuf EXCEPT ![t] = Listing]
       ELSE /\ Goto(t, "take") /\ UNCHANGED databuf
            /\ cut' = [cut EXCEPT ![t].p = CHOOSE n \in before : TRUE]
    /\ UNCHANGED <<clients, login, fd, next, freed, walk, alive, crossed>>

\* ... reads p->next for q ...
Take(t) ==
    /\ alive /\ pc[t] = "take" /\ Goto(t, "again")
    /\ cut' = [cut EXCEPT ![t].q = next[cut[t].p]] /\ Risks(FALSE, {cut[t].p})
    /\ UNCHANGED <<clients, login, fd, databuf, next, freed, walk, crossed>>

\* ... again for what is after q, and then that ...
After(t) ==
    LET first == pc[t] = "again"
        n == IF first THEN cut[t].p ELSE cut[t].after IN
    /\ alive /\ pc[t] \in {"again", "after"}
    /\ IF n = Nil
       THEN alive' = FALSE /\ UNCHANGED <<pc, cut>>
       ELSE /\ Goto(t, IF first THEN "after" ELSE "cut")
            /\ cut' = [cut EXCEPT ![t].after = next[n]] /\ Risks(FALSE, {n})
    /\ UNCHANGED <<clients, login, fd, databuf, next, freed, walk, crossed>>

\* ... writes it to p->next ...
Cut(t) ==
    LET c == cut[t] IN
    /\ alive /\ pc[t] = "cut" /\ Goto(t, "free")
    /\ Write(c.p, c.after) /\ Risks(FALSE, {c.p})
    /\ crossed' = \/ crossed \/ c.p \notin ({Ulist} \cup Listed) \ freed
                  \/ c.q # fd[t] \/ next[c.p] # c.q \/ next[c.q] # c.after
    /\ UNCHANGED <<clients, login, fd, databuf, freed, cut>>

Free_before(t) ==
    LET c == cut[t] IN
    /\ alive /\ pc[t] = "free" /\ Goto(t, "count")
    /\ databuf' = [databuf EXCEPT ![t] = Listing]
    /\ freed' = freed \cup ({c.p} \ {Nil}) /\ Risks(FALSE, {c.p, c.q})
    /\ cut' = [cut EXCEPT ![t] = NoCut]
    /\ UNCHANGED <<clients, login, fd, next, walk, crossed>>

\* ... and frees q
Free(t) ==
    LET c == cut[t] IN
    /\ alive /\ pc[t] = "free" /\ Goto(t, "count")
    /\ databuf' = [databuf EXCEPT ![t] = Listing]
    /\ freed' = freed \cup ({c.q} \ {Nil}) /\ Risks(FALSE, {c.p, c.q})
    /\ cut' = [cut EXCEPT ![t] = NoCut]
    /\ UNCHANGED <<clients, login, fd, next, walk, crossed>>

Step(t) == \/ Start(t) \/ Recv(t) \/ Search(t) \/ Deliver(t)
           \/ Find(t) \/ Take(t) \/ After(t) \/ Cut(t) \/ Free(t)

-----------------------------------------------------------------------------
(***************************************************************************)
(* The clients.                                                            *)
(***************************************************************************)
Send(c, d) == inbox' = [inbox EXCEPT ![c] = Append(@, d)]

Say(c) ==
    /\ alive /\ who[c] = "in" /\ said < course.said
    /\ \E d \in {All} \cup course.comes : Send(c, Text(c, d))
    /\ said' = said + 1
    /\ UNCHANGED <<pc, who, course, login, fd, databuf, users, walk, alive, crossed>>

Leaves(c) ==
    /\ alive /\ Cardinality({x \in Client : Closed(x)}) < course.left
    /\ course.orderly => \A x \in course.comes : who[x] \in {"in", "gone"}
    /\ who' = [who EXCEPT ![c] = "gone"]

\* client_quit: a farewell, and the end of the client
client_quit(c) ==
    /\ who[c] = "in" /\ Leaves(c) /\ Send(c, Quit)
    /\ UNCHANGED <<pc, said, course, login, fd, databuf, users, walk, alive, crossed>>

\* a client ends without one
Vanish(c) ==
    /\ who[c] \in {"asking", "in"} /\ ~course.orderly /\ Leaves(c)
    /\ UNCHANGED <<pc, inbox, said, course, login, fd, databuf, users, walk, alive, crossed>>

Next ==
    \/ RecvLogin \/ Answer \/ Link \/ LinkHead \/ Spawn
    \/ \E p \in Process : Count(p) \/ SendNext(p) \/ MoveOn(p) \/ WalkEnds(p)
    \/ \E c \in Client : \/ Accept(c) \/ Step(c)
                         \/ Say(c) \/ client_quit(c) \/ Vanish(c)

Spec == Init /\ [][Next]_vars

-----------------------------------------------------------------------------
\* Data for all reaches every user its sender counted, though others come and
\* go during the loop: only a pointer written that the loop had still to follow
\* can cost anyone the data, so a newcomer until the loop has left the head, or
\* a user taken out that it had counted and not passed.  And the server does
\* not end unless a client has left.
WalksReach ==
    /\ \A p \in Process :
           pc[p] = "walk" /\ walk[p].left = 0 /\ walk[p].steady
               => walk[p].due = walk[p].reached
    /\ alive \/ \E c \in Client : who[c] = "gone"

\* A user who is in and whose thread was started is in the list, the list has
\* no freed node, and somebody reads the user's connection, unless main accepted
\* a connection before a thread had copied client_fd; or a pointer of the list
\* was written from what had changed since it was read: main linked a user in
\* before one who had been taken out, or userlist_del wrote to a node that had
\* been taken out or had another after it, or the node after a user had changed.
UsersKept ==
    crossed \/ /\ {c \in Client : who[c] = "in" /\ pc[c] # "none"} \subseteq Listed
               /\ Listed \cap freed = {}
               /\ \A c \in Client : pc[c] \notin {"none", "new"} => fd[c] = c
               /\ \A c \in Listed : who[c] = "in" => pc[c] # "end"
=============================================================================
