------------------------------ MODULE LinuxChat -----------------------------
(***************************************************************************)
(* The linux_client chat room: a select server with a table of clients     *)
(* (server.c, server_fun.h) and a client with a menu and a receiving       *)
(* thread (tcp_client.c, client_fun.h).  Both sides exchange one struct:   *)
(* a name, a second name in spasswd, a command and a text in duff.         *)
(*                                                                         *)
(* The client reads everything into one global msg and takes its own name  *)
(* from there; the server trusts that name.  Fields the server has not set *)
(* hold any value.  Passwords are abstracted to whether they are right.    *)
(* When the server has ended nothing more is followed.                     *)
(*                                                                         *)
(* A definition named X_y is a wrong form of the definition X after it, on *)
(* which the properties are seen to fail.                                  *)
(***************************************************************************)
EXTENDS Integers, SequencesExt, FiniteSetsExt

CONSTANTS Client,     \* the connections
          User,       \* names of users
          FD_SETSIZE, \* slots of the table
          Usage,      \* bounds: who comes, the commands they choose from, how
                      \* many they send, and how many leave
          Admin,      \* the administrator's name
          None        \* the empty name, no client

Slot == 0..FD_SETSIZE - 1
Name == User \cup {Admin, None}

VARIABLES
    alive,     \* the server runs
    accounts,  \* user.txt
    client,    \* the table
    suser_mes, \* what the server has read last
    pc,        \* per client: where it is in its menus
    msg,       \* per client: the message it has read last
    draft,     \* per client: the command that it asks its user about
    toServer, toClient,
    sent,      \* commands sent so far
    loaded,    \* per client: the name it was let in with
    misled,    \* clients that have read a message with another name
    overheard, \* a message was passed on for a muted client that was not misled
    usage      \* what the clients will do

net == <<toServer, toClient>>
ghosts == <<loaded, misled, overheard, usage>>
vars == <<alive, accounts, client, suser_mes, pc, msg, draft, net, sent, ghosts>>

\* ask: passwd says "sendfile"; src: who has caused the message
Message(cmd, name, spasswd, duff, src) ==
    [cmd |-> cmd, name |-> name, spasswd |-> spasswd, duff |-> duff,
     ask |-> FALSE, src |-> src]

NoMessage == Message(-1, None, None, "", None)
Free == [clieid |-> None, name |-> None, speak |-> TRUE]

Init ==
    /\ alive = TRUE /\ accounts \in SUBSET User
    /\ client = [i \in Slot |-> Free] /\ suser_mes = NoMessage
    /\ pc = [c \in Client |-> "away"]
    /\ msg = [c \in Client |-> NoMessage] /\ draft = [c \in Client |-> NoMessage]
    /\ toServer = [c \in Client |-> << >>] /\ toClient = [c \in Client |-> << >>]
    /\ sent = 0 /\ loaded = [c \in Client |-> None] /\ misled = {} /\ overheard = FALSE
    /\ usage \in Usage

-----------------------------------------------------------------------------
(***************************************************************************)
(* The server.                                                             *)
(***************************************************************************)
Used == {i \in Slot : client[i].clieid # None}

\* the slot a name is found in: the first one
Holding(name) == {i \in Used : client[i].name = name}

isonline(name) ==
    IF Holding(name) = {} THEN None ELSE client[Min(Holding(name))].clieid

Muted(name) == \E i \in Holding(name) : ~client[i].speak

Ended == {"gone", "reset"}

\* outs are messages for each client; one to a client that has ended may kill
\* the server (SIGPIPE), and one to nobody is lost
Write(outs) ==
    /\ toClient' = [c \in Client |->
           IF pc[c] = "reset" THEN toClient[c] ELSE toClient[c] \o outs[c]]
    /\ alive' \in IF \E c \in Client : outs[c] # << >> /\ pc[c] \in Ended
                  THEN BOOLEAN ELSE {TRUE}

To(c, m) == [d \in Client |-> IF d = c THEN <<m>> ELSE << >>]
Back(c, m, duff) == To(c, [m EXCEPT !.duff = duff])
Both(outs, more) == [d \in Client |-> outs[d] \o more[d]]

Quiet == UNCHANGED <<accounts, client, loaded, overheard>>

\* the first free slot takes a new client; without one the server ends
Accept(c) ==
    LET free == Slot \ Used IN
    /\ alive /\ pc[c] = "away" /\ c \in usage.comes
    /\ IF free = {}
       THEN alive' = FALSE /\ UNCHANGED <<client, pc>>
       ELSE /\ client' = [client EXCEPT ![Min(free)].clieid = c]
            /\ pc' = [pc EXCEPT ![c] = "menu"] /\ UNCHANGED alive
    /\ UNCHANGED <<accounts, suser_mes, msg, draft, net, sent, ghosts>>

\* a new name is entered, unless its two passwords differ
sregest(c, m) ==
    /\ accounts' \in {accounts, accounts \cup {m.name}}
    /\ Write(Back(c, m, IF accounts' = accounts THEN "no" ELSE "Regist success!"))
    /\ UNCHANGED <<client, loaded, overheard>>

Elsewhere_here(i, name) == \E j \in Used \cap {i} : client[j].name = name

\* another connection has the name
Elsewhere(i, name) == \E j \in Used \ {i} : client[j].name = name

\* the password is right or not; the administrator keeps an empty name
sload(i, m) ==
    LET c == client[i].clieid
        enters == m.name \in accounts /\ ~Elsewhere(i, m.name) IN
    /\ \/ /\ Write(Back(c, m, IF m.name = Admin THEN "admin"
                             ELSE IF Elsewhere(i, m.name) THEN "loaded"
                             ELSE IF enters THEN "sucess" ELSE "Load error!"))
          /\ client' = IF enters THEN [client EXCEPT ![i].name = m.name] ELSE client
          /\ loaded' = IF enters /\ pc[c] \notin Ended THEN [loaded EXCEPT ![c] = m.name]
                       ELSE loaded
       \/ /\ ~Elsewhere(i, m.name)
          /\ Write(Back(c, m, "Load error!")) /\ UNCHANGED <<client, loaded>>
    /\ UNCHANGED <<accounts, overheard>>

\* the list is appended to a buffer that was not cleared
look_user(c, m) ==
    /\ toClient' = [toClient EXCEPT ![c] = Append(@, m)] /\ alive' \in BOOLEAN /\ Quiet

\* who may speak is decided by the name in the message
Passed(m) ==
    /\ overheard' = \/ overheard
                    \/ /\ m.src \notin misled
                       /\ \E i \in Used : client[i].clieid = m.src /\ ~client[i].speak
    /\ UNCHANGED <<accounts, client, loaded>>

sendto_one(i, m) ==
    LET c == client[i].clieid  nfd == isonline(m.spasswd) IN
    IF Muted(m.name) THEN Write(Back(c, m, "band")) /\ Quiet
    ELSE IF nfd = None THEN Write(Back(c, m, "noline")) /\ Quiet
    ELSE /\ Write(Both(To(c, m), To(nfd, Message(32, m.spasswd, m.name, m.duff, m.src))))
         /\ Passed(m)

\* to everyone in the table, the sender and those who have not logged in too
ssendto_everyone(i, m) ==
    IF Muted(m.name) THEN Write(Back(client[i].clieid, m, "band")) /\ Quiet
    ELSE /\ Write([d \in Client |-> IF \E j \in Used : client[j].clieid = d THEN <<m>> ELSE << >>])
         /\ Passed(m)

\* a message to the administrator's victim, whose names are not set: any name,
\* and no second one, which nothing but Reply reads
Unset(cmd, duff, c) ==
    {Message(cmd, n, None, duff, c) : n \in Name}

Sentence(c, m, nfd, duff) ==
    \E to \in Unset(m.cmd, duff, c) :
        Write(Both(Back(c, m, "sucess"), To(nfd, to)))

kickone(c, m) ==
    LET nfd == isonline(m.spasswd) IN
    /\ IF nfd = None THEN Write(Back(c, m, "noline")) ELSE Sentence(c, m, nfd, "kill")
    /\ Quiet

Speak(name, may) ==
    /\ client' = IF Holding(name) = {} THEN client
                 ELSE [client EXCEPT ![Min(Holding(name))].speak = may]
    /\ UNCHANGED <<accounts, loaded, overheard>>

banndsomeone(c, m) ==
    LET nfd == isonline(m.spasswd) IN
    /\ IF nfd = None THEN Write(Back(c, m, "noline")) ELSE Sentence(c, m, nfd, "band")
    /\ Speak(m.spasswd, FALSE)

\* the descriptor written to is never set
regain(c, m) ==
    /\ \E nfd \in {client[i].clieid : i \in Used} \cup {None} :
           Sentence(c, m, nfd, IF Holding(m.spasswd) = {} THEN "" ELSE "regain")
    /\ Speak(m.spasswd, TRUE)

\* a file is offered, ...
send_file(i, m) ==
    LET c == client[i].clieid  nfd == isonline(m.spasswd)
        to == Message(72, m.spasswd, m.name, "", m.src) IN
    IF Muted(m.name) THEN Write(Back(c, m, "band")) /\ Quiet
    ELSE IF nfd = None THEN Write(Back(c, m, "noline")) /\ Quiet
    ELSE Write(Both(To(c, m), To(nfd, [to EXCEPT !.ask = TRUE]))) /\ Passed(m)

\* ... the offer is answered, ...
ifsend_file(c, m) ==
    LET nfd == isonline(m.spasswd) IN
    /\ Write(Both(To(nfd, Message(73, m.spasswd, m.name, m.duff, m.src)),
                  Back(c, m, IF nfd = None THEN "dawnline" ELSE "wait")))
    /\ Quiet

\* ... the lines are passed on
rsend_file(m) ==
    /\ Write(To(isonline(m.spasswd), [m EXCEPT !.cmd = 74, !.name = m.spasswd])) /\ Quiet

Dispatch(i, m) ==
    LET c == client[i].clieid IN
    CASE m.cmd = 0 -> sregest(c, m)
      [] m.cmd = 1 -> sload(i, m)
      [] m.cmd = 2 -> look_user(c, m)
      [] m.cmd = 31 -> sendto_one(i, m)
      [] m.cmd = 4 -> ssendto_everyone(i, m)
      [] m.cmd = 44 -> kickone(c, m)
      [] m.cmd = 5 -> banndsomeone(c, m)
      [] m.cmd = 6 -> regain(c, m)
      [] m.cmd = 71 -> send_file(i, m)
      [] m.cmd = 72 -> ifsend_file(c, m)
      [] m.cmd = 73 -> rsend_file(m)
      [] OTHER -> UNCHANGED <<alive, accounts, client, toClient, loaded, overheard>>

Handle(i) ==
    LET c == client[i].clieid IN
    /\ alive /\ c # None /\ toServer[c] # << >>
    /\ suser_mes' = Head(toServer[c])
    /\ toServer' = [toServer EXCEPT ![c] = Tail(@)]
    /\ Dispatch(i, suser_mes')
    /\ UNCHANGED <<pc, msg, draft, sent, misled, usage>>

\* a connection that was reset: read fails, what was read last is handled again
HandleAgain(i) ==
    LET c == client[i].clieid IN
    /\ alive /\ c # None /\ pc[c] = "gone" /\ toClient[c] # << >>
    /\ toServer' = [toServer EXCEPT ![c] = << >>]
    /\ IF suser_mes.cmd = -1 THEN alive' \in BOOLEAN /\ UNCHANGED toClient /\ Quiet
       ELSE Dispatch(i, suser_mes)
    /\ pc' = [pc EXCEPT ![c] = "reset"]
    /\ UNCHANGED <<suser_mes, msg, draft, sent, misled, usage>>

\* the slot of a client that has closed is free; whether it may speak stays
Close(i) ==
    LET c == client[i].clieid IN
    /\ alive /\ c # None /\ pc[c] \in Ended /\ toServer[c] = << >>
    /\ client' = [client EXCEPT ![i].clieid = None, ![i].name = None]
    /\ toClient' = [toClient EXCEPT ![c] = << >>]
    /\ UNCHANGED <<alive, accounts, suser_mes, pc, msg, draft, toServer, sent, ghosts>>

-----------------------------------------------------------------------------
(***************************************************************************)
(* The client.                                                             *)
(***************************************************************************)
Goto(c, l) == pc' = [pc EXCEPT ![c] = l]
Post(c, ms) == toServer' = [toServer EXCEPT ![c] = @ \o ms]
Server == alive /\ UNCHANGED <<alive, accounts, client, suser_mes, loaded, overheard, usage>>

\* the client's next step, after which msg is m; a client that ends forgets it
Step(c, l, m) ==
    Goto(c, l) /\ msg' = [msg EXCEPT ![c] = IF l = "gone" THEN NoMessage ELSE m]

\* load and regest
Asks(c, cmd, names) ==
    /\ pc[c] = "menu" /\ cmd \in usage.commands /\ sent < usage.sent /\ sent' = sent + 1 /\ Goto(c, "asks")
    /\ \E n \in names : Post(c, <<Message(cmd, n, None, "", c)>>)
    /\ Server /\ UNCHANGED <<msg, draft, toClient, misled>>

load(c) == Asks(c, 1, User \cup {Admin})
regest(c) == Asks(c, 0, User)

\* the next message is taken for the answer: any other one ends the client
Answer(c) ==
    LET m == Head(toClient[c]) IN
    /\ pc[c] = "asks" /\ toClient[c] # << >>
    /\ toClient' = [toClient EXCEPT ![c] = Tail(@)]
    /\ Step(c, CASE m.cmd \notin {0, 1} -> "gone"
                 [] m.duff = "sucess" -> "user"
                 [] m.duff = "admin" -> "admin"
                 [] OTHER -> "menu", m)
    /\ Server /\ UNCHANGED <<draft, toServer, sent, misled>>

\* sendto_someone, sendto_everyone, send_file: the name is copied from msg,
\* then the user is asked, then the message is written
Draft(c) ==
    /\ pc[c] = "user" /\ Goto(c, "writes")
    /\ draft' \in {[draft EXCEPT ![c] = Message(cmd, msg[c].name, None, "text", c)]
                       : cmd \in {31, 4, 71} \cap usage.commands}
    /\ Server /\ UNCHANGED <<msg, net, sent, misled>>

Send(c) ==
    /\ pc[c] = "writes" /\ sent < usage.sent /\ sent' = sent + 1 /\ Goto(c, "user")
    /\ \E n \in User : Post(c, <<[draft[c] EXCEPT !.spasswd = n]>>)
    /\ draft' = [draft EXCEPT ![c] = NoMessage]
    /\ Server /\ UNCHANGED <<msg, toClient, misled>>

\* the list of users, for the administrator too
check(c) ==
    /\ pc[c] \in {"user", "admin"} /\ 2 \in usage.commands /\ sent < usage.sent /\ sent' = sent + 1
    /\ Post(c, <<Message(2, msg[c].name, None, "", c)>>)
    /\ Server /\ UNCHANGED <<pc, msg, draft, toClient, misled>>

\* 10 and 11 answer the offer of a file, with whatever is in msg
Reply(c) ==
    /\ pc[c] = "user" /\ 72 \in usage.commands /\ sent < usage.sent /\ sent' = sent + 1
    /\ \E d \in {"yes", "no"} :
           msg' = [msg EXCEPT ![c].cmd = 72, ![c].duff = d, ![c].src = c]
    /\ Post(c, <<msg'[c]>>)
    /\ Server /\ UNCHANGED <<pc, draft, toClient, misled>>

\* kickout, banndone, regainone: the name is read into msg, and msg written
Victim(c) ==
    /\ pc[c] = "admin" /\ Goto(c, "orders")
    /\ \E n \in User : msg' = [msg EXCEPT ![c].spasswd = n]
    /\ Server /\ UNCHANGED <<draft, net, sent, misled>>

Order(c) ==
    /\ pc[c] = "orders" /\ sent < usage.sent /\ sent' = sent + 1 /\ Goto(c, "admin")
    /\ \E cmd \in {44, 5, 6} \cap usage.commands : msg' = [msg EXCEPT ![c].cmd = cmd, ![c].src = c]
    /\ Post(c, <<msg'[c]>>)
    /\ Server /\ UNCHANGED <<draft, toClient, misled>>

\* the receiving thread: a kick ends the client, and so does, by a misplaced
\* parenthesis, any answer to a reply whose passwd is not "sendfile"; the note
\* of a text, put after one that was not cleared, may end it as Exit does
Ending(m) == (m.cmd = 44 /\ m.duff = "kill") \/ (m.cmd = 72 /\ ~m.ask)

pthread(c, m) ==
    /\ Step(c, IF Ending(m) THEN "gone" ELSE pc[c], m)
    /\ IF m.cmd = 73 /\ m.duff = "yes"
       THEN \E n \in 0..1 : Post(c, [k \in 1..n |-> [m EXCEPT !.duff = "line", !.src = c]])
       ELSE UNCHANGED toServer

recemess(c) ==
    LET m == Head(toClient[c]) IN
    /\ pc[c] \in {"user", "writes", "admin", "orders"} /\ toClient[c] # << >>
    /\ toClient' = [toClient EXCEPT ![c] = Tail(@)]
    /\ misled' = IF m.name # loaded[c] THEN misled \cup {c} ELSE misled
    /\ draft' = IF Ending(m) THEN [draft EXCEPT ![c] = NoMessage] ELSE draft
    /\ pthread(c, m) /\ Server /\ UNCHANGED sent

Exit(c) ==
    /\ pc[c] \notin Ended \cup {"away"} /\ Step(c, "gone", NoMessage)
    /\ Cardinality({d \in Client : pc[d] \in Ended}) < usage.left
    /\ draft' = [draft EXCEPT ![c] = NoMessage]
    /\ Server /\ UNCHANGED <<net, sent, misled>>

Next ==
    \/ \E i \in Slot : Handle(i) \/ HandleAgain(i) \/ Close(i)
    \/ \E c \in Client :
          \/ Accept(c) \/ load(c) \/ regest(c) \/ Answer(c) \/ Draft(c) \/ Send(c)
          \/ check(c) \/ Reply(c) \/ Victim(c) \/ Order(c) \/ recemess(c) \/ Exit(c)

Spec == Init /\ [][Next]_vars

-----------------------------------------------------------------------------
\* What is addressed to a user reaches the client that has logged in as it (to
\* the empty name, whoever has not), and a user is logged in once.  Unless a
\* client has read a message with another name into the msg it takes its own
\* name from, what it says carries its name, and is not passed on while it is
\* muted (speak is 0).
RightNames ==
    /\ \A c \in {d \in Client : pc[d] \notin Ended} : \A m \in ToSet(toClient[c]) :
           /\ m.cmd \in {32, 74} => m.name \in {None, loaded[c]}
           /\ m.cmd = 32 => m.spasswd = loaded[m.src] \/ m.src \in misled
           /\ m.cmd = 4 /\ m.duff = "text" => m.name = loaded[m.src] \/ m.src \in misled
    /\ \A i, j \in Used : i # j /\ client[i].name = client[j].name => client[i].name = None
    /\ ~overheard
=============================================================================
