----------------------------- MODULE FtpSample -----------------------------
(***************************************************************************)
(* The FTP sample that the service was made from                           *)
(* (ftp_client_sample_shiyanlou): a client and the child that the server   *)
(* forked for it.  Commands and replies go over the control connection;    *)
(* for each command the client listens on CLIENT_PORT_ID, says so, and the *)
(* child connects to it.  There is one attempt at the login.               *)
(*                                                                         *)
(* The port is one for all clients of a host.  While another client has it *)
(* this one's bind fails, and its child connects to the other client; a    *)
(* child whose client could not bind may connect to this one.  The other   *)
(* clients are seen through that only.                                     *)
(*                                                                         *)
(* The client may be interrupted, and the child killed, at any time.  A    *)
(* send to an end that is gone passes unnoticed, fails, or kills.          *)
(*                                                                         *)
(* A definition named X_y is a wrong form of the definition X after it, on *)
(* which the property is seen to fail.                                     *)
(***************************************************************************)
EXTENDS Integers, SequencesExt

CONSTANTS Length,   \* the readable files, each with its length in blocks
          Asked,    \* files that are asked for, readable or not
          ListLen,  \* bound: blocks of a directory listing
          MaxCmd,   \* bound: commands
          MaxOther, \* bound: blocks that another client's child sends here
          None      \* no command, no argument

VARIABLES
    client, child,  \* where they are
    toChild,        \* the control connection, what is on its way
    toClient,
    user,           \* what was given at the login: good or bad
    cmd,            \* the client's command
    served,         \* the child's command
    typed,
    listens,        \* the client listens on CLIENT_PORT_ID
    ahead,          \* another client's child has connected there first
    foreign,        \* and it is that connection which the client has accepted
    data,           \* the child's data connection: the blocks on their way
    dataOpen,       \* no; queued; accepted; away: to another client, or reset
    dataEnd,        \* the child has closed it
    pos,            \* the blocks that the child has sent
    got,            \* the blocks that the client has received
    reply           \* the last reply that the client has read

control == <<toChild, toClient>>
port == <<listens, ahead, foreign>>
transfer == <<port, data, dataOpen, dataEnd, pos, got>>
vars == <<client, child, control, user, cmd, served, typed, transfer, reply>>

\* RETR is written as the file that it asks for
Command == {"QUIT", "LIST"} \cup Asked

Init ==
    /\ client = "new" /\ child = "new"
    /\ toChild = << >> /\ toClient = << >>
    /\ user = None /\ cmd = "QUIT" /\ served = "QUIT" /\ typed = 0
    /\ listens = FALSE /\ ahead = FALSE /\ foreign = FALSE
    /\ data = << >> /\ dataOpen = "no" /\ dataEnd = FALSE
    /\ pos = 0 /\ got = << >> /\ reply = None

\* recv: the first message, or nothing from an end that is gone
Heard(q, peer) == IF q # << >> THEN {Head(q)} ELSE IF peer = "gone" THEN {"eof"} ELSE {}
Rest(q) == IF q = << >> THEN q ELSE Tail(q)

\* send and go on at l; f is where a failure that is looked at leads
ClientSays(m, l, f) ==
    \/ /\ child # "gone" /\ toChild' = Append(toChild, m) /\ client' = l
    \/ /\ child = "gone" /\ toChild' = toChild /\ client' \in {l, f, "gone"}

ChildSays(m, l) ==
    \/ /\ client # "gone" /\ toClient' = Append(toClient, m) /\ child' = l
    \/ /\ client = "gone" /\ toClient' = toClient /\ child' \in {l, "gone"}

-----------------------------------------------------------------------------
(***************************************************************************)
(* The client.                                                             *)
(***************************************************************************)
\* main's connect; the server's main accepts and forks, which may fail
Connect ==
    /\ client = "new" /\ client' = "welcome" /\ child' \in {"start", "gone"}
    /\ UNCHANGED <<control, user, cmd, served, typed, transfer, reply>>

ReadReply(r) == r \in Heard(toClient, child) /\ reply' = r /\ toClient' = Rest(toClient)

\* 220, or nothing at all; then the name is sent
Welcome ==
    /\ client = "welcome" /\ \E r \in {"220", "eof"} : ReadReply(r)
    /\ user' \in {"good", "bad"} /\ ClientSays(user', "wait", "wait")
    /\ UNCHANGED <<child, cmd, served, typed, transfer>>

\* whatever comes is taken for 331; then the password is sent
Password ==
    /\ client = "wait" /\ \E r \in {"331", "eof"} : ReadReply(r)
    /\ ClientSays("password", "login", "login")
    /\ UNCHANGED <<child, user, cmd, served, typed, transfer>>

LoggedIn ==
    /\ client = "login" /\ \E r \in {"230", "430", "331", "eof"} : ReadReply(r)
    /\ client' = IF reply' = "230" THEN "prompt" ELSE "gone"
    /\ UNCHANGED <<child, toChild, user, cmd, served, typed, transfer>>

\* ftclient_read_command and the command's send; what is no command is asked for again
Type ==
    /\ client = "prompt" /\ typed < MaxCmd /\ typed' = typed + 1
    /\ \E c \in Command : cmd' = c /\ ClientSays(c, "code", "gone")
    /\ got' = << >> /\ foreign' = FALSE
    /\ UNCHANGED <<child, toClient, user, served, listens, ahead, data, dataOpen, dataEnd, pos, reply>>

Coded ==
    /\ client = "code" /\ \E r \in {"200", "221", "502", "eof"} : ReadReply(r)
    /\ client' = CASE reply' = "221" -> "gone" [] reply' = "502" -> "prompt" [] OTHER -> "listen"
    /\ UNCHANGED <<child, toChild, user, cmd, served, typed, transfer>>

\* ftclient_open_conn: even if it cannot listen it sends the acknowledgement
OpenConn ==
    /\ client = "listen" /\ listens' \in BOOLEAN /\ ClientSays("ack", "accept", "gone")
    /\ UNCHANGED <<child, toClient, user, cmd, served, typed, ahead, foreign, data, dataOpen,
                   dataEnd, pos, got, reply>>

\* Another client's child comes to CLIENT_PORT_ID of this host.  Behind this client's
\* own it would never be accepted.
OtherConnects ==
    /\ listens /\ ~ahead /\ dataOpen = "no" /\ ahead' = TRUE
    /\ UNCHANGED <<client, child, control, user, cmd, served, typed, listens, foreign, data,
                   dataOpen, dataEnd, pos, got, reply>>

\* The first in the queue; then the listener is closed, and who else was in the queue is reset.
Accept ==
    /\ client = "accept"
    /\ \/ ~listens /\ client' = "gone" /\ UNCHANGED <<port, dataOpen>>
       \/ /\ listens /\ client' = "first" /\ listens' = FALSE /\ ahead' = FALSE /\ foreign' = ahead
          /\ IF ahead THEN dataOpen' = IF dataOpen = "queued" THEN "away" ELSE dataOpen
                      ELSE dataOpen = "queued" /\ dataOpen' = "accepted"
    /\ UNCHANGED <<child, control, user, cmd, served, typed, data, dataEnd, pos, got, reply>>

\* the reply before the data: 1 for a list, whatever it is; 150 or 550 for a file
FirstReply ==
    /\ client = "first" /\ \E r \in {"1", "150", "550", "eof"} : ReadReply(r)
    /\ IF cmd # "LIST" /\ reply' = "550"
       THEN client' = "prompt" /\ dataOpen' = "no"
       ELSE client' = "data" /\ UNCHANGED dataOpen
    /\ UNCHANGED <<child, toChild, user, cmd, served, typed, port, data, dataEnd, pos, got>>

AfterData_get == IF cmd = "LIST" THEN "prompt" ELSE "last"

\* a list, and a file, is followed by another reply
AfterData == "last"

\* ftclient_get, ftclient_list: up to the connection's end
Receive ==
    /\ client = "data" /\ ~foreign
    /\ \/ /\ data # << >> /\ got' = Append(got, Head(data)) /\ data' = Tail(data)
          /\ UNCHANGED client
       \/ /\ data = << >> /\ (dataEnd \/ child = "gone")
          /\ client' = AfterData /\ UNCHANGED <<got, data>>
    /\ UNCHANGED <<child, control, user, cmd, served, typed, port, dataOpen, dataEnd, pos, reply>>

\* the same, from another client's child
ReceiveOther ==
    /\ client = "data" /\ foreign
    /\ \/ Len(got) < MaxOther /\ got' = Append(got, <<None, 0>>) /\ UNCHANGED client
       \/ client' = AfterData /\ UNCHANGED got
    /\ UNCHANGED <<child, control, user, cmd, served, typed, port, data, dataOpen, dataEnd, pos, reply>>

LastReply ==
    /\ client = "last" /\ \E r \in {"226", "eof"} : ReadReply(r)
    /\ client' = "prompt" /\ dataOpen' = "no"
    /\ UNCHANGED <<child, toChild, user, cmd, served, typed, port, data, dataEnd, pos, got>>

Interrupt ==
    /\ client \notin {"new", "gone"} /\ client' = "gone" /\ listens' = FALSE /\ ahead' = FALSE
    /\ UNCHANGED <<child, control, user, cmd, served, typed, foreign, data, dataOpen, dataEnd, pos, got, reply>>

-----------------------------------------------------------------------------
(***************************************************************************)
(* The child.                                                              *)
(***************************************************************************)
ChildHears(m) == m \in Heard(toChild, client) /\ toChild' = Rest(toChild)

Start ==
    /\ child = "start" /\ ChildSays("220", "user")
    /\ UNCHANGED <<client, toChild, user, cmd, served, typed, transfer, reply>>

\* ftserve_login: the name, and the password
User ==
    /\ child = "user" /\ \E m \in {"good", "bad", "eof"} : ChildHears(m)
    /\ ChildSays("331", "pass")
    /\ UNCHANGED <<client, user, cmd, served, typed, transfer, reply>>

\* ftserve_check_user ends the child if there is no file of users
Pass ==
    /\ child = "pass" /\ \E m \in {"password", "eof"} : ChildHears(m)
    /\ \/ user = "good" /\ ChildSays("230", "cmd")
       \/ ChildSays("430", "gone")
       \/ child' = "gone" /\ UNCHANGED toClient
    /\ UNCHANGED <<client, user, cmd, served, typed, transfer, reply>>

\* ftserve_recv_cmd; what it takes for an empty command is answered 502
RecvCmd ==
    /\ child = "cmd"
    /\ \E m \in Command \cup {"ack", "eof"} :
           /\ ChildHears(m)
           /\ CASE m = "QUIT" -> ChildSays("221", "gone") /\ UNCHANGED served
                [] m \in Command \ {"QUIT"} -> ChildSays("200", "ack") /\ served' = m
                [] m \notin Command -> ChildSays("502", "cmd") /\ UNCHANGED served
    /\ UNCHANGED <<client, user, cmd, typed, transfer, reply>>

\* ftserve_start_data_conn: whoever listens on the client's host
StartDataConn ==
    /\ child = "ack" /\ \E m \in {"ack", "eof"} : ChildHears(m)
    /\ \/ /\ child' = "serve" /\ dataOpen' = IF listens THEN "queued" ELSE "away"
          /\ data' = << >> /\ dataEnd' = FALSE /\ pos' = 0
       \/ ~listens /\ child' = "gone" /\ UNCHANGED <<dataOpen, data, dataEnd, pos>>
    /\ UNCHANGED <<client, toClient, user, cmd, served, typed, port, got, reply>>

Blocks == IF served = "LIST" THEN ListLen ELSE Length[served]

\* ftserve_retr: a file that cannot be opened; the child goes on to close the connection
NoFile ==
    /\ child = "serve" /\ served # "LIST" /\ served \notin DOMAIN Length
    /\ ChildSays("550", "close")
    /\ UNCHANGED <<client, toChild, user, cmd, served, typed, transfer, reply>>

FirstSent ==
    /\ child = "serve" /\ (served = "LIST" \/ served \in DOMAIN Length)
    /\ ChildSays(IF served = "LIST" THEN "1" ELSE "150", "send")
    /\ UNCHANGED <<client, toChild, user, cmd, served, typed, transfer, reply>>

\* away from the client a block is another's, or lost; a second send after a reset kills
SendBlock ==
    /\ child = "send" /\ pos < Blocks /\ pos' = pos + 1
    /\ IF client # "gone" /\ dataOpen # "away"
       THEN data' = Append(data, <<served, pos>>) /\ UNCHANGED child
       ELSE child' \in {child, "gone"} /\ UNCHANGED data
    /\ UNCHANGED <<client, control, user, cmd, served, typed, port, dataOpen, dataEnd, got, reply>>

\* a listing is read from tmp.txt, which another child may be writing anew
AllSent == served = "LIST" \/ pos = Blocks

Done ==
    /\ child = "send" /\ AllSent /\ ChildSays("226", "close")
    /\ UNCHANGED <<client, toChild, user, cmd, served, typed, transfer, reply>>

CloseData ==
    /\ child = "close" /\ child' = "cmd" /\ dataEnd' = TRUE
    /\ UNCHANGED <<client, control, user, cmd, served, typed, port, data, dataOpen, pos, got, reply>>

Kill ==
    /\ child \notin {"new", "gone"} /\ child' = "gone"
    /\ UNCHANGED <<client, control, user, cmd, served, typed, transfer, reply>>

Over == client = "gone" /\ child = "gone" /\ UNCHANGED vars

Next ==
    \/ Connect \/ Welcome \/ Password \/ LoggedIn \/ Type \/ Coded \/ OpenConn
    \/ OtherConnects \/ Accept \/ FirstReply \/ Receive \/ ReceiveOther \/ LastReply \/ Interrupt
    \/ Start \/ User \/ Pass \/ RecvCmd \/ StartDataConn \/ NoFile \/ FirstSent
    \/ SendBlock \/ Done \/ CloseData \/ Kill \/ Over

Spec == Init /\ [][Next]_vars

-----------------------------------------------------------------------------
\* A client that has read 226, over the connection of its own child, has all blocks of
\* the file it asked for, or of the listing that the child has read, in order, whenever the child was killed (ftserve_retr,
\* ftclient_get).  Over another client's connection, which it cannot tell from its
\* own, it reads 226 as well: of the file nothing is said then.
Whole ==
    client = "prompt" /\ reply = "226" /\ ~foreign =>
        /\ cmd \in DOMAIN Length \cup {"LIST"}
        /\ got = [i \in 1..(IF cmd = "LIST" THEN pos ELSE Length[cmd]) |-> <<cmd, i - 1>>]

\* Client and child are at the same command, whosever data the client receives: at the prompt no reply is left over,
\* after a command there is at most its own, and the child waits for the client or
\* is through with the command before (read_reply, ftserve_recv_cmd).
InStep ==
    /\ client = "prompt" /\ child # "gone" => (toClient = << >> /\ toChild = << >>)
    /\ client = "code" => (Len(toClient) <= 1 /\ Len(toChild) <= 1)
    /\ child \in {"serve", "send"} /\ client # "gone" => (served = cmd)

\* The two ends keep together, and what they report as transferred between them is whole.
TransfersRight == InStep /\ Whole
=============================================================================
