----------------------------- MODULE FtpLibrary -----------------------------
(***************************************************************************)
(* The FTP client library THFTPAPI.c: one caller, its control connection,  *)
(* and a passive data connection for each transfer.  A recv takes whatever *)
(* has come, a piece of a reply or several, and looks at the number at its *)
(* front; it gives up after 15 seconds.  The server is the one the library *)
(* expects: it answers each command, a transfer twice, may refuse or break *)
(* off, and may be gone.                                                   *)
(*                                                                         *)
(* A definition named X_y is a wrong form of the definition X after it, on *)
(* which the property is seen to fail.                                     *)
(***************************************************************************)
EXTENDS Integers, Sequences

CONSTANTS Blocks,  \* the length of a file and of a listing
          MaxCall  \* bound: calls of the library

VARIABLES
    pc,       \* the caller: out, idle; in a function: wait, data, last; closed, killed
    fn,       \* the function it has called
    calls,
    cmd,      \* the last command
    asked,    \* its number, and which of its replies is waited for
    answered, \* the reply that was taken for it
    result,   \* the number at the front of it, or -1
    returned, \* what the last call returned
    todo,     \* commands on their way, with their numbers
    replies,  \* replies on their way
    server,   \* idle, sending, getting, gone
    served,   \* the number of the command it is at
    data,     \* the data connection: no; open; cut or shut by the server or the client
    put, got, \* the blocks that were sent, and those that were received
    lost,     \* a reply was late, left unread, or taken in pieces or with another
    short     \* the transfer's loop was ended by an error or a late recv, not by the
              \* end of the data

call == <<pc, fn, calls>>
command == <<cmd, asked, todo>>
answer == <<answered, result, replies>>
transfer == <<data, put, got>>
vars == <<call, command, answer, returned, server, served, transfer, lost, short>>

Init ==
    /\ pc = "out" /\ fn = "ftp_connect" /\ calls = 0 /\ cmd = "" /\ asked = <<0, 1>>
    /\ answered = <<0, 0>> /\ result = 0 /\ returned = 0 /\ todo = << >> /\ replies = << >>
    /\ server = "idle" /\ served = 0 /\ data = "no" /\ put = 0 /\ got = 0
    /\ lost = FALSE /\ short = FALSE

-----------------------------------------------------------------------------
(***************************************************************************)
(* The parts that the functions are made of.                               *)
(***************************************************************************)
\* send: to a server that is gone it fails, passes unnoticed, or kills
Send(c) ==
    /\ cmd' = c /\ asked' = <<asked[1] + 1, 1>>
    /\ \/ server # "gone" /\ pc' = "wait" /\ todo' = Append(todo, <<c, asked[1] + 1>>)
       \/ server = "gone" /\ pc' \in {"wait", "killed"} /\ todo' = todo

\* recv of k replies; of none when they are late or the server is gone
Recv(k) ==
    /\ replies' = SubSeq(replies, k + 1, Len(replies))
    /\ answered' = IF k = 0 THEN <<0, 0>> ELSE <<replies[1].n, replies[1].part>>
    /\ lost' = (lost \/ k > 1 \/ (k = 0 /\ ~(server = "gone" /\ replies = << >>)))

\* a reply in two pieces: the number at the front of each, if there is one
NoNumber == -2
Pieces(code) ==
    {[front |-> code, rest |-> NoNumber]} \cup
    {p \in {[front |-> code \div d, rest |-> code % d] : d \in {10, 100}} : p.front > 0}

\* recv of k replies and a piece of the next one
RecvPiece(k, p) ==
    /\ replies' = <<[replies[k + 1] EXCEPT !.code = p.rest]>> \o SubSeq(replies, k + 2, Len(replies))
    /\ answered' = <<replies[1].n, replies[1].part>>
    /\ lost' = TRUE

\* sscanf, which leaves 0 where there is no number
Number(code) == IF code = NoNumber THEN 0 ELSE code

ftp_sendcmd ==
    \/ \E k \in 0..Len(replies) :
          Recv(k) /\ result' = IF k = 0 THEN -1 ELSE Number(replies[1].code)
    \/ \E k \in 0..Len(replies) - 1 : \E p \in Pieces(replies[k + 1].code) :
          RecvPiece(k, p) /\ result' = Number(IF k = 0 THEN p.front ELSE replies[1].code)

Return(v) == pc' = "idle" /\ returned' = v

\* the reply to the command c of the function f
Answered(f, c) == pc = "wait" /\ fn = f /\ cmd = c /\ ftp_sendcmd

\* a command of its own, and what is returned unless the reply is the one that is wanted
Single(f, c, want, other) ==
    /\ Answered(f, c) /\ Return(IF result' = want THEN 0 ELSE other)
    /\ UNCHANGED <<fn, calls, command, server, served, transfer, short>>

\* goes on with another command
Then(c) == Send(c) /\ UNCHANGED <<fn, calls, returned, server, served>>

-----------------------------------------------------------------------------
(***************************************************************************)
(* The functions.                                                          *)
(***************************************************************************)
\* socket_connect and the welcome of connect_server; then USER
connect_server ==
    /\ pc = "wait" /\ cmd = "" /\ ftp_sendcmd
    /\ IF result' = 220
       THEN Then("USER") /\ UNCHANGED short
       ELSE pc' = "closed" /\ UNCHANGED <<fn, calls, command, returned, server, served, short>>
    /\ UNCHANGED transfer

Login(ok) ==
    /\ IF ok THEN Return(0) ELSE pc' = "closed" /\ returned' = -1
    /\ UNCHANGED <<fn, calls, command, server, served, short>>

login_server ==
    /\ \/ /\ Answered("ftp_connect", "USER")
          /\ IF result' = 331 THEN Then("PASS") /\ UNCHANGED short ELSE Login(result' = 230)
       \/ Answered("ftp_connect", "PASS") /\ Login(result' = 230)
    /\ UNCHANGED transfer

ftp_connect ==
    /\ pc = "out" /\ calls = 0 /\ calls' = 1 /\ pc' \in {"wait", "closed"}
    /\ \E c \in {220, 421} : replies' = <<[code |-> c, n |-> 0, part |-> 1]>>
    /\ UNCHANGED <<fn, command, answered, result, returned, server, served, transfer, lost, short>>

\* the first command of each function
First == [ftp_type |-> "TYPE", ftp_cwd |-> "CWD", ftp_cdup |-> "CDUP", ftp_mkd |-> "MKD",
          ftp_list |-> "PASV", ftp_retrfile |-> "TYPE", ftp_storfile |-> "TYPE",
          ftp_renamefile |-> "RNFR", ftp_deletefile |-> "DELE", ftp_deletefolder |-> "RMD",
          ftp_quit |-> "QUIT"]

\* the local file of a transfer may not open
Call ==
    /\ pc = "idle" /\ calls < MaxCall /\ calls' = calls + 1
    /\ \E f \in DOMAIN First :
           /\ fn' = f
           /\ \/ Send(First[f]) /\ UNCHANGED returned
              \/ f \in {"ftp_retrfile", "ftp_storfile"} /\ Return(-1) /\ UNCHANGED command
    /\ UNCHANGED <<answer, server, served, transfer, lost, short>>

ftp_type == Single("ftp_type", "TYPE", 200, -1)
ftp_cwd == Single("ftp_cwd", "CWD", 250, -1)
ftp_cdup == Single("ftp_cdup", "CDUP", 250, result')
ftp_mkd == Single("ftp_mkd", "MKD", 257, result')
ftp_deletefile == Single("ftp_deletefile", "DELE", 250, result')
ftp_deletefolder == Single("ftp_deletefolder", "RMD", 250, result')

ftp_quit ==
    /\ Answered("ftp_quit", "QUIT") /\ pc' = "closed" /\ returned' = result'
    /\ UNCHANGED <<fn, calls, command, server, served, transfer, short>>

ftp_renamefile ==
    \/ /\ Answered("ftp_renamefile", "RNFR")
       /\ IF result' = 350
          THEN Then("RNTO") /\ UNCHANGED short
          ELSE Return(result') /\ UNCHANGED <<fn, calls, command, server, served, short>>
       /\ UNCHANGED transfer
    \/ Single("ftp_renamefile", "RNTO", 250, result')

-----------------------------------------------------------------------------
(***************************************************************************)
(* Transfers.                                                              *)
(***************************************************************************)
Transfer == [ftp_list |-> "LIST", ftp_retrfile |-> "RETR", ftp_storfile |-> "STOR"]

\* ftp_type's answer is not looked at
Typed ==
    /\ fn \in DOMAIN Transfer /\ Answered(fn, "TYPE") /\ Then("PASV")
    /\ UNCHANGED <<transfer, short>>

\* without an address it connects to one that was never set
ftp_pasv_connect ==
    /\ fn \in DOMAIN Transfer /\ Answered(fn, "PASV")
    /\ \/ /\ result' = 227 /\ server # "gone" /\ Then(Transfer[fn])
          /\ data' = "open" /\ put' = 0 /\ got' = 0 /\ short' = FALSE
       \/ Return(-1) /\ UNCHANGED <<fn, calls, command, server, served, transfer, short>>

Refused == result' >= 300 \/ result' = 0

\* the data connection that is opened is then left as it is
Begin ==
    /\ fn \in DOMAIN Transfer /\ Answered(fn, Transfer[fn])
    /\ IF Refused THEN Return(result') /\ UNCHANGED asked
       ELSE pc' = "data" /\ UNCHANGED <<asked, returned>>
    /\ UNCHANGED <<fn, calls, cmd, todo, server, served, transfer, short>>

\* the loop ends: the data connection is closed, and the last reply waited for
EndData ==
    /\ pc' = "last" /\ asked' = <<asked[1], 2>> /\ data' = "shut"
    /\ UNCHANGED <<fn, calls, cmd, todo, answer, returned, server, served, put, got, lost>>

\* the caller stops it, or a write fails; the last reply is not read
Stop ==
    /\ Return(-1) /\ data' = "shut" /\ lost' = TRUE
    /\ UNCHANGED <<fn, calls, command, answer, server, served, short>>

\* recv and write
RecvData ==
    /\ pc = "data" /\ fn # "ftp_storfile" /\ got < put /\ got' = got + 1
    /\ \/ UNCHANGED <<call, command, answer, returned, server, served, data, put, lost, short>>
       \/ fn = "ftp_retrfile" /\ Stop /\ UNCHANGED put

\* the end of the data; or none for 15 seconds, or an error, which end it alike
RecvEnd ==
    /\ pc = "data" /\ fn # "ftp_storfile" /\ EndData
    /\ \/ got = put /\ (data # "open" \/ server = "gone") /\ UNCHANGED short
       \/ short' = TRUE

\* read and send; into a connection that is broken off a send may still go
SendData ==
    /\ pc = "data" /\ fn = "ftp_storfile" /\ put < Blocks
    /\ \/ /\ put' = put + 1
          /\ UNCHANGED <<call, command, answer, returned, server, served, data, got, lost, short>>
       \/ put' \in {put, put + 1} /\ Stop /\ UNCHANGED got
       \/ /\ (data # "open" \/ server = "gone") /\ pc' = "killed"
          /\ UNCHANGED <<fn, calls, command, answer, returned, server, served, transfer, lost, short>>

\* the end of the file; or an error of read, which ends it alike
SendEnd ==
    /\ pc = "data" /\ fn = "ftp_storfile" /\ EndData
    /\ \/ put = Blocks /\ UNCHANGED short
       \/ short' = TRUE

Verdict_any(f, r) == 0

\* what the last reply means to each of them
Verdict(f, r) ==
    IF f = "ftp_list" THEN (IF r = 226 THEN 0 ELSE r) ELSE IF r >= 300 THEN r ELSE 0

\* if nothing comes, result is what the first reply has left in it, or was never set
Left == IF fn = "ftp_retrfile" THEN {result} ELSE {0, 550}

NumberOrLeft(code) == IF code = NoNumber THEN Left ELSE {code}

Last ==
    /\ pc = "last"
    /\ \/ \E k \in 0..Len(replies) :
             Recv(k) /\ result' \in IF k = 0 THEN Left ELSE NumberOrLeft(replies[1].code)
       \/ \E k \in 0..Len(replies) - 1 : \E p \in Pieces(replies[k + 1].code) :
             /\ RecvPiece(k, p)
             /\ result' \in NumberOrLeft(IF k = 0 THEN p.front ELSE replies[1].code)
    /\ Return(Verdict(fn, result'))
    /\ UNCHANGED <<fn, calls, command, server, served, transfer, short>>

-----------------------------------------------------------------------------
(***************************************************************************)
(* The server.                                                             *)
(***************************************************************************)
Good == [TYPE |-> 200, CWD |-> 250, CDUP |-> 250, MKD |-> 257, DELE |-> 250, RMD |-> 250,
         PASV |-> 227, RNFR |-> 350, RNTO |-> 250, PASS |-> 230, QUIT |-> 221]

Reply(c, n, part) == replies' = Append(replies, [code |-> c, n |-> n, part |-> part])

Serve ==
    /\ server = "idle" /\ todo # << >> /\ todo' = Tail(todo)
    /\ LET c == todo[1][1]  n == todo[1][2] IN
       /\ served' = n
       /\ \/ c \in DOMAIN Good /\ Reply(Good[c], n, 1) /\ server' = IF c = "QUIT" THEN "gone" ELSE server
          \/ c = "USER" /\ (\E code \in {230, 331} : Reply(code, n, 1)) /\ UNCHANGED server
          \/ c # "QUIT" /\ Reply(550, n, 1) /\ UNCHANGED server
          \/ /\ c \in {"LIST", "RETR", "STOR"} /\ data = "open" /\ Reply(150, n, 1)
             /\ server' = IF c = "STOR" THEN "getting" ELSE "sending"
    /\ UNCHANGED <<call, cmd, asked, answered, result, returned, transfer, lost, short>>

Sends ==
    /\ server = "sending" /\ data = "open" /\ put < Blocks /\ put' = put + 1
    /\ UNCHANGED <<call, command, answer, returned, server, served, data, got, lost, short>>

Gets ==
    /\ server = "getting" /\ got < put /\ got' = got + 1
    /\ UNCHANGED <<call, command, answer, returned, server, served, data, put, lost, short>>

\* all is there, or it breaks off: then both ends hear of it
Finish ==
    /\ server \in {"sending", "getting"} /\ server' = "idle" /\ data' = IF data = "open" THEN "cut" ELSE data
    /\ \/ server = "sending" /\ put = Blocks /\ Reply(226, served, 2)
       \/ server = "getting" /\ data = "shut" /\ got = put /\ Reply(226, served, 2)
       \/ Reply(426, served, 2)
    /\ UNCHANGED <<call, command, answered, result, returned, served, put, got, lost, short>>

Crash ==
    /\ server # "gone" /\ server' = "gone"
    /\ UNCHANGED <<call, command, answer, returned, served, transfer, lost, short>>

Over == pc \in {"idle", "closed", "killed"} /\ UNCHANGED vars

Next ==
    \/ ftp_connect \/ connect_server \/ login_server \/ Call
    \/ ftp_type \/ ftp_cwd \/ ftp_cdup \/ ftp_mkd \/ ftp_deletefile \/ ftp_deletefolder
    \/ ftp_quit \/ ftp_renamefile
    \/ Typed \/ ftp_pasv_connect \/ Begin \/ RecvData \/ RecvEnd \/ SendData \/ SendEnd \/ Last
    \/ Serve \/ Sends \/ Gets \/ Finish \/ Crash \/ Over

Spec == Init /\ [][Next]_vars

-----------------------------------------------------------------------------
\* While no reply was late, left unread, or taken in pieces or with another, every
\* reply is taken for what it answers, and a transfer that returns 0 has moved all
\* of the file, unless the server is gone, or an error of read or recv, or data that
\* were late, has ended the loop: the code goes on as at the end of the data then
\* (ftp_sendcmd, ftp_retrfile, ftp_storfile, ftp_list).
TellsTrue ==
    ~lost /\ server # "gone" /\ pc = "idle" =>
        /\ asked[1] > 0 => answered = asked
        /\ fn \in DOMAIN Transfer /\ returned = 0 /\ ~short => got = Blocks
=============================================================================
