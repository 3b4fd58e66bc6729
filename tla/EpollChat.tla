------------------------------ MODULE EpollChat -----------------------------
(***************************************************************************)
(* The epoll chat room (chatroom/shiyanlou_chat): a server that waits for  *)
(* edge-triggered events and takes, per event, one connection or what one  *)
(* recv returns; and its client, a child that reads what the user types    *)
(* and a parent that talks to the server.  Others may talk to the server   *)
(* with clients of their own.                                              *)
(*                                                                         *)
(* A definition named X_y is a wrong form of the definition X after it, on *)
(* which the properties are seen to fail.                                  *)
(***************************************************************************)
EXTENDS Integers, SequencesExt, FiniteSetsExt

CONSTANTS Client,
          BUF_SIZE,  \* what one recv takes at most
          MaxSent    \* bound: the clients' data, in the same unit

Listen == "listenfd"

VARIABLES
    server,       \* wait, handle or ended
    sock,         \* per client: away, waiting (not accepted), open, closed
    backlog,      \* the connections to accept
    unread,       \* per client: data the server has not received
    over,         \* per client: how it ended its connection: no, close, reset
    sent,         \* data sent by the clients
    ready,        \* what has had an event since it was last reported
    events,       \* what epoll_wait has returned and was not handled yet
    clients_list,
    missed,       \* clients that did not get a message sent by another
    burst,        \* more came at once than the server takes for one event
    parent, child, pipe  \* per client: its processes run, the pipe holds a line

traffic == <<sock, backlog, unread, over, sent>>
processes == <<parent, child, pipe>>
vars == <<server, traffic, ready, events, clients_list, missed, burst, processes>>

Init ==
    /\ server = "wait" /\ events = {} /\ ready = {} /\ clients_list = << >>
    /\ sock = [c \in Client |-> "away"] /\ backlog = << >>
    /\ unread = [c \in Client |-> 0] /\ over = [c \in Client |-> "no"]
    /\ sent = 0 /\ missed = {} /\ burst = FALSE
    /\ parent = {} /\ child = {} /\ pipe = {}

-----------------------------------------------------------------------------
(***************************************************************************)
(* The server.                                                             *)
(***************************************************************************)
Readable(f) ==
    IF f = Listen THEN backlog # << >>
    ELSE sock[f] = "open" /\ (unread[f] > 0 \/ over[f] # "no")

Reported == {f \in ready : Readable(f)}

\* epoll_wait: everything that had an event and can still be read
Wait ==
    /\ server = "wait" /\ Reported # {}
    /\ server' = "handle" /\ events' = Reported /\ ready' = {}
    /\ UNCHANGED <<traffic, clients_list, missed, burst, processes>>

Done(f) ==
    /\ events' = events \ {f}
    /\ server' = IF events' = {} THEN "wait" ELSE "handle"

\* one connection is accepted, registered and welcomed; the welcome may reset
\* one that was closed; clients_list stays as it was
AcceptOne ==
    LET c == Head(backlog) IN
    /\ server = "handle" /\ Listen \in events
    /\ backlog' = Tail(backlog) /\ sock' = [sock EXCEPT ![c] = "open"]
    /\ burst' = (burst \/ (Len(backlog) > 1 /\ Listen \notin ready))
    /\ ready' = IF unread[c] > 0 \/ over[c] # "no" THEN ready \cup {c} ELSE ready
    /\ \/ Done(Listen)
       \/ over[c] = "reset" /\ server' = "ended" /\ events' = {}
    /\ over' \in {over} \cup IF over[c] = "close" THEN {[over EXCEPT ![c] = "reset"]} ELSE {}
    /\ UNCHANGED <<unread, sent, clients_list, missed, processes>>

recv_part(c) == IF unread[c] > BUF_SIZE THEN BUF_SIZE ELSE 1

recv(c) == IF unread[c] > BUF_SIZE THEN BUF_SIZE ELSE unread[c]

\* sendBroadcastMsg: what was received goes to the others in clients_list, if
\* it has not just one; at the end of the connection it is closed; an error
\* ends the server
sendBroadcastMsg(c) ==
    LET reached == IF Len(clients_list) = 1 THEN {} ELSE ToSet(clients_list) \ {c}
        others == {d \in Client \ {c} : sock[d] = "open"} IN
    /\ server = "handle" /\ c \in events
    /\ \/ /\ unread[c] > 0
          /\ unread' = [unread EXCEPT ![c] = @ - recv(c)]
          /\ burst' = (burst \/ (c \notin ready
                                /\ (unread[c] > BUF_SIZE \/ over[c] # "no")))
          /\ missed' = missed \cup (others \ reached)
          /\ Done(c) /\ UNCHANGED <<sock, clients_list>>
       \/ /\ unread[c] = 0 /\ over[c] = "close"
          /\ sock' = [sock EXCEPT ![c] = "closed"]
          /\ clients_list' = SelectSeq(clients_list, LAMBDA d : d # c)
          /\ Done(c) /\ UNCHANGED <<unread, burst, missed>>
       \/ /\ over[c] = "reset"
          /\ server' = "ended" /\ events' = {}
          /\ UNCHANGED <<sock, unread, clients_list, missed, burst>>
    /\ UNCHANGED <<backlog, over, sent, ready, processes>>

-----------------------------------------------------------------------------
(***************************************************************************)
(* The clients.                                                            *)
(***************************************************************************)
\* a client connects; of the program's own the two processes start
Connect(c) ==
    /\ server # "ended" /\ sock[c] = "away"
    /\ sock' = [sock EXCEPT ![c] = "waiting"] /\ backlog' = Append(backlog, c)
    /\ ready' = ready \cup {Listen}
    /\ \/ UNCHANGED <<parent, child>>
       \/ parent' = parent \cup {c} /\ child' = child \cup {c}
    /\ UNCHANGED <<server, unread, over, sent, events, clients_list, missed, burst, pipe>>

Arrives(c) ==
    /\ server # "ended" /\ sock[c] \in {"waiting", "open"} /\ over[c] = "no"
    /\ ready' = IF sock[c] = "open" THEN ready \cup {c} ELSE ready

\* somebody else's client sends
Sends(c) ==
    /\ c \notin parent \cup child /\ sent < MaxSent /\ Arrives(c)
    /\ unread' = [unread EXCEPT ![c] = @ + 1] /\ sent' = sent + 1
    /\ UNCHANGED <<server, sock, backlog, over, events, clients_list, missed, burst,
                   processes>>

\* its system closes or resets the connection of a client that ends
Closes(c) ==
    /\ Arrives(c) /\ \E o \in {"close", "reset"} : over' = [over EXCEPT ![c] = o]

Ends(c) ==
    /\ c \notin parent \cup child /\ Closes(c)
    /\ UNCHANGED <<server, sock, backlog, unread, sent, events, clients_list, missed,
                   burst, processes>>

\* the child has the connection too, which ends with the last of the processes
Leaves(c, other) ==
    IF c \in other \/ server = "ended" THEN UNCHANGED <<over, ready>> ELSE Closes(c)

\* the parent is killed
Killed(c) ==
    /\ c \in parent /\ parent' = parent \ {c} /\ Leaves(c, child)
    /\ UNCHANGED <<server, sock, backlog, unread, sent, events, clients_list, missed,
                   burst, child, pipe>>

\* the child writes a line to the pipe; it ends on one that sorts before EXIT,
\* and when nobody reads the pipe
Types(c) ==
    /\ c \in child
    /\ \/ child' = child \ {c} /\ Leaves(c, parent) /\ UNCHANGED pipe
       \/ /\ c \in parent /\ pipe' = pipe \cup {c}
          /\ UNCHANGED <<child, over, ready>>
    /\ UNCHANGED <<server, sock, backlog, unread, sent, events, clients_list, missed,
                   burst, parent>>

\* for any event, the pipe's too, the parent receives from the server: a text,
\* nothing yet, or its end; what is in the pipe stays there
ParentEvent(c) ==
    /\ c \in parent /\ (c \in pipe \/ sock[c] = "open" \/ server = "ended")
    /\ parent' \in {parent} \cup IF server = "ended" THEN {parent \ {c}} ELSE {}
    /\ UNCHANGED <<server, traffic, ready, events, clients_list, missed, burst, child,
                   pipe>>

Next ==
    \/ Wait \/ AcceptOne
    \/ \E c \in Client : \/ sendBroadcastMsg(c) \/ Connect(c) \/ Sends(c) \/ Ends(c)
                         \/ Killed(c) \/ Types(c) \/ ParentEvent(c)

Spec == Init /\ [][Next]_vars

-----------------------------------------------------------------------------
\* When nothing is left to report, no connection waits to be accepted and no
\* data or end to be read, though an event is reported only once: unless two
\* connections, more data than one recv takes, or data and its sender's end
\* came for a single event.
NothingStranded ==
    server = "wait" /\ Reported = {} /\ ~burst =>
        ~Readable(Listen) /\ \A c \in Client : ~Readable(c)

\* A message is broadcast to the other clients (server.cpp:76).
OthersGetIt == missed = {}
=============================================================================
