----------------------------- MODULE FtpService -----------------------------
(***************************************************************************)
(* The FTP service (ftp_simple/version_3): clients, and a server that      *)
(* forks a child for each of them.  A control connection carries commands  *)
(* and four-byte replies; for each command the client listens on           *)
(* CLIENT_PORT, the same for all clients of a host, and the child connects *)
(* to it.  All children write and read one tmp.txt.                        *)
(*                                                                         *)
(* A process receives and answers in one step where it looks at nothing    *)
(* else in between.  Users wait, type what they like, and may interrupt    *)
(* the client.                                                             *)
(*                                                                         *)
(* A definition named X_y is a wrong form of the definition X after it, on *)
(* which the properties are seen to fail.                                  *)
(***************************************************************************)
EXTENDS Integers, SequencesExt, FiniteSetsExt

CONSTANTS Client,
          Host,        \* each client's host
          Length,      \* the readable files, each with its length in blocks
          Asked,       \* files that clients ask for, readable or not
          ListLen,     \* blocks of a directory listing
          Account,     \* the lines of .auth
          Word,        \* what users give for names and passwords: "mute", see GiveWord
          NameFront,   \* the accounts whose name begins with the word
          PassFront,   \* the accounts whose password begins with the word
          LOGIN_COUNT,
          MaxCmd,      \* bound: commands given by one client
          None         \* nobody, nothing

File == DOMAIN Length
Listing == "listing"

ASSUME BoundsAssumption ==
    /\ LOGIN_COUNT \in Nat /\ MaxCmd \in Nat /\ ListLen \in Nat
    /\ \A f \in File : Length[f] \in Nat
    /\ Listing \notin File
    /\ \A w \in Word : NameFront[w] \subseteq Account /\ PassFront[w] \subseteq Account
    /\ None \notin Client /\ None \notin Client \X (1 .. MaxCmd)

\* the processes: a client and its child are the ends of a control connection
End == Client \X {"client", "child"}
Cli(c) == <<c, "client">>
Srv(c) == <<c, "child">>
Peer(e) == IF e[2] = "client" THEN Srv(e[1]) ELSE Cli(e[1])

VARIABLES
    pc,       \* where each process is
    in,       \* per end: what it has not received yet
    rst,      \* per end: no, due (it has sent to a closed end), here, told
    count,    \* per end: main's and ftp_client_login's counters
    named,    \* per child: the accounts that the name it was given may mean
    passed,   \* per client: its last name and password may both mean one account
    cmd,      \* per end: the command in progress
    typed,    \* per client: commands given
    listens,  \* per client: it listens on CLIENT_PORT
    queue,    \* per client: the data connections that it may accept
    data,     \* the data connections, see Conn
    sock,     \* per client: the connection that it has accepted
    got,      \* per client: the blocks received for the command
    pos,      \* per child: how far it is in the file or in tmp.txt
    tmp,      \* the blocks of tmp.txt that have been written
    alone     \* per child: no other ls has run since its own began

control == <<in, rst>>
login == <<count, named, passed>>
transfer == <<listens, queue, data, sock, got>>
listing == <<pos, tmp, alone>>
vars == <<pc, control, login, cmd, typed, transfer, listing>>

\* what a client sends
LIST == [kind |-> "LIST", arg |-> Listing]
QUIT == [kind |-> "QUIT", arg |-> None]
RETR(f) == [kind |-> "RETR", arg |-> f]
Secret(w) == [kind |-> "secret", arg |-> w]
Ack == [kind |-> "ack", arg |-> None]

\* what a child answers
Reply(k) == [kind |-> k, arg |-> None]

\* recv's 0 and -1
Eof == [kind |-> "eof", arg |-> None]
Error == [kind |-> "error", arg |-> None]

\* the data connection of a child: a new one for each command
Conn(c) == <<c, typed[c]>>

NoData == [to |-> None, buf |-> << >>, closed |-> FALSE, reset |-> FALSE]

Init ==
    /\ pc = [e \in End |-> "new"]
    /\ in = [e \in End |-> << >>] /\ rst = [e \in End |-> "no"]
    /\ count = [e \in End |-> LOGIN_COUNT]
    /\ named = [c \in Client |-> {}] /\ passed = [c \in Client |-> FALSE]
    /\ cmd = [e \in End |-> QUIT] /\ typed = [c \in Client |-> 0]
    /\ listens = [c \in Client |-> FALSE] /\ queue = [c \in Client |-> << >>]
    /\ data = [x \in Client \X (1 .. MaxCmd) |-> NoData] /\ sock = [c \in Client |-> None]
    /\ got = [c \in Client |-> << >>]
    /\ pos = [c \in Client |-> 0] /\ tmp = {} /\ alone = [c \in Client |-> TRUE]

-----------------------------------------------------------------------------
(***************************************************************************)
(* The control connection.                                                 *)
(***************************************************************************)
Gone(e) == pc[e] = "gone"

Goto(e, l) == pc' = [pc EXCEPT ![e] = l]

\* what recv returns: a message, 0 when the peer has closed, once -1 after a reset
Recv(e) ==
    IF in[e] # << >> THEN {Head(in[e])}
    ELSE IF ~Gone(Peer(e)) THEN {}
    ELSE IF rst[e] = "here" THEN {Eof, Error} ELSE {Eof}

Took(e) == IF in[e] = << >> THEN in ELSE [in EXCEPT ![e] = Tail(@)]

Told(e, m) == IF m = Error THEN [rst EXCEPT ![e] = "told"] ELSE rst

\* e, having received m, goes on without an answer
Hear(e, m, l) == in' = Took(e) /\ rst' = Told(e, m) /\ Goto(e, l)

SigPipe_not(e, l) == Goto(e, l)

\* the process is killed by a further send to a connection that was reset
SigPipe(e, l) == Goto(e, "gone")

\* send, with q still to be received, and then on to l, or to f if it fails: to a
\* closed end it succeeds and has a reset come back, then fails once, then kills
Send(e, q, r, m, l, f) ==
    \/ /\ r[e] \in {"no", "due"}
       /\ in' = IF Gone(Peer(e)) THEN q ELSE [q EXCEPT ![Peer(e)] = Append(@, m)]
       /\ rst' = IF Gone(Peer(e)) THEN [r EXCEPT ![e] = "due"] ELSE r
       /\ Goto(e, l)
    \/ /\ r[e] = "here"
       /\ in' = q /\ rst' = [r EXCEPT ![e] = "told"] /\ Goto(e, f)
    \/ /\ r[e] \in {"here", "told"}
       /\ in' = q /\ rst' = r /\ SigPipe(e, l)

\* whether it fails is not looked at, or is: then the process exits
Say(e, m, l) == Send(e, in, rst, m, l, l)
Insist(e, m, l) == Send(e, in, rst, m, l, "gone")

Answer(e, m, k, l) == Send(e, Took(e), Told(e, m), Reply(k), l, l)

\* the peer had closed with something unread, or was sent something afterwards
ResetArrives(e) ==
    /\ ~Gone(e) /\ Gone(Peer(e))
    /\ rst[e] = "due" \/ (rst[e] = "no" /\ in[Peer(e)] # << >>)
    /\ rst' = [rst EXCEPT ![e] = "here"]
    /\ UNCHANGED <<pc, in, login, cmd, typed, transfer, listing>>

-----------------------------------------------------------------------------
(***************************************************************************)
(* The client.                                                             *)
(***************************************************************************)
\* main's connect, the server's accept and fork, which may fail
Connect(c) ==
    /\ pc[Cli(c)] = "new"
    /\ \E l \in {"start", "gone"} : pc' = [pc EXCEPT ![Cli(c)] = "welcome", ![Srv(c)] = l]
    /\ UNCHANGED <<control, login, cmd, typed, transfer, listing>>

Welcome(c) ==
    /\ pc[Cli(c)] = "welcome"
    /\ \E m \in Recv(Cli(c)) : Hear(Cli(c), m, "name")
    /\ UNCHANGED <<login, cmd, typed, transfer, listing>>

\* strlen finds the end of what is encrypted at its first zero byte: of a mute
\* word nothing is sent; one that has a zero byte later is taken for another
GiveWord(c, w, from, to) ==
    /\ pc[Cli(c)] = from
    /\ IF w = "mute" THEN Goto(Cli(c), to) /\ UNCHANGED control
       ELSE Say(Cli(c), Secret(w), to)
    /\ UNCHANGED <<login, cmd, typed, transfer, listing>>

\* 331, or whatever recv gives
AskPass(c) ==
    /\ pc[Cli(c)] = "wait"
    /\ \E m \in Recv(Cli(c)) : Hear(Cli(c), m, "pass")
    /\ UNCHANGED <<login, cmd, typed, transfer, listing>>

Verdict(c) ==
    /\ pc[Cli(c)] = "verdict"
    /\ \E m \in Recv(Cli(c)) :
         LET left == count[Cli(c)] - 1 IN
         /\ Hear(Cli(c), m, CASE m.kind = "230" -> "prompt"
                             [] m.kind = "430" /\ left > 0 -> "name"
                             [] OTHER -> "gone")
         /\ count' = [count EXCEPT ![Cli(c)] = IF m.kind = "430" THEN left ELSE @]
    /\ UNCHANGED <<named, passed, cmd, typed, transfer, listing>>

\* the prompt; what is no command is refused without being sent
Type(c, k) ==
    /\ pc[Cli(c)] = "prompt" /\ typed[c] < MaxCmd
    /\ typed' = [typed EXCEPT ![c] = @ + 1]
    /\ cmd' = [cmd EXCEPT ![Cli(c)] = k]
    /\ got' = [got EXCEPT ![c] = << >>]
    /\ Insist(Cli(c), k, "reply")
    /\ UNCHANGED <<login, listens, queue, data, sock, listing>>

GetReply(c) ==
    /\ pc[Cli(c)] = "reply"
    /\ \E m \in Recv(Cli(c)) :
         Hear(Cli(c), m, CASE m.kind = "221" -> "gone"
                         [] m.kind = "502" -> "prompt"
                         [] OTHER -> "open")
    /\ UNCHANGED <<login, cmd, typed, transfer, listing>>

Listeners(h) == {d \in Client : Host[d] = h /\ listens[d] /\ ~Gone(Cli(d))}

\* ftp_client_open_conn up to accept: if another client of the host listens the
\* socket is -1, and the acknowledgement is sent all the same
Open(c) ==
    /\ pc[Cli(c)] = "open"
    /\ listens' = [listens EXCEPT ![c] = (Listeners(Host[c]) = {})]
    /\ Insist(Cli(c), Ack, "accept")
    /\ UNCHANGED <<login, cmd, typed, queue, data, sock, got, listing>>

\* the first connection is taken, then the listening socket closed, which resets
\* the others
Accept(c) ==
    /\ pc[Cli(c)] = "accept" /\ listens[c] /\ queue[c] # << >>
    /\ sock' = [sock EXCEPT ![c] = Head(queue[c])]
    /\ listens' = [listens EXCEPT ![c] = FALSE]
    /\ queue' = [queue EXCEPT ![c] = << >>]
    /\ data' = [x \in DOMAIN data |-> IF Contains(Tail(queue[c]), x)
                                     THEN [data[x] EXCEPT !.reset = TRUE] ELSE data[x]]
    /\ Goto(Cli(c), "begin")
    /\ UNCHANGED <<control, login, cmd, typed, got, listing>>

AcceptFails(c) ==
    /\ pc[Cli(c)] = "accept" /\ ~listens[c]
    /\ Goto(Cli(c), "gone")
    /\ UNCHANGED <<control, login, cmd, typed, transfer, listing>>

\* what is left in it is lost
CloseData(c) ==
    /\ sock' = [sock EXCEPT ![c] = None]
    /\ data' = [data EXCEPT ![sock[c]] = [NoData EXCEPT !.reset = TRUE]]

Over_always(k, m) == TRUE

\* the command ends with its first reply: any will do for LIST
Over(k, m) == m.kind = (IF k = LIST THEN "error" ELSE "550")

Begin(c) ==
    /\ pc[Cli(c)] = "begin"
    /\ \E m \in Recv(Cli(c)) :
         LET over == Over(cmd[Cli(c)], m) IN
         /\ Hear(Cli(c), m, IF over THEN "prompt" ELSE "data")
         /\ IF over THEN CloseData(c) ELSE UNCHANGED <<sock, data>>
    /\ UNCHANGED <<login, cmd, typed, listens, queue, got, listing>>

Receive(c) ==
    /\ pc[Cli(c)] = "data" /\ data[sock[c]].buf # << >>
    /\ got' = [got EXCEPT ![c] = Append(@, Head(data[sock[c]].buf))]
    /\ data' = [data EXCEPT ![sock[c]].buf = Tail(@)]
    /\ UNCHANGED <<pc, control, login, cmd, typed, listens, queue, sock, listing>>

ReceiveEof(c) ==
    /\ pc[Cli(c)] = "data" /\ data[sock[c]].buf = << >>
    /\ data[sock[c]].closed \/ Gone(Srv(sock[c][1]))
    /\ Goto(Cli(c), "done")
    /\ UNCHANGED <<control, login, cmd, typed, transfer, listing>>

\* the last reply, then the data connection is closed
Done(c) ==
    /\ pc[Cli(c)] = "done"
    /\ \E m \in Recv(Cli(c)) : Hear(Cli(c), m, "prompt")
    /\ CloseData(c)
    /\ UNCHANGED <<login, cmd, typed, listens, queue, got, listing>>

Interrupt(c) ==
    /\ pc[Cli(c)] \notin {"new", "gone"}
    /\ Goto(Cli(c), "gone")
    /\ UNCHANGED <<control, login, cmd, typed, transfer, listing>>

-----------------------------------------------------------------------------
(***************************************************************************)
(* The child: ftp_serve_process.                                           *)
(***************************************************************************)
Start(c) ==
    /\ pc[Srv(c)] = "start"
    /\ Say(Srv(c), Reply("220"), "name")
    /\ UNCHANGED <<login, cmd, typed, transfer, listing>>

\* strncmp over the length of the word: it means whatever begins with it; of a
\* closed connection one is read of no characters from no memory, which may be any
Meant(m, front) == IF m = Eof THEN SUBSET Account ELSE {front[m.arg]}

LoginFails(c) ==
    /\ pc[Srv(c)] \in {"name", "pass"} /\ Error \in Recv(Srv(c))
    /\ Hear(Srv(c), Error, "gone")
    /\ UNCHANGED <<login, cmd, typed, transfer, listing>>

Name(c) ==
    /\ pc[Srv(c)] = "name"
    /\ \E m \in Recv(Srv(c)) \ {Error} :
         /\ \E as \in Meant(m, NameFront) : named' = [named EXCEPT ![c] = as]
         /\ Answer(Srv(c), m, "331", "pass")
    /\ UNCHANGED <<count, passed, cmd, typed, transfer, listing>>

\* ftp_serve_check_user: name and password are compared with those of one line
Accepts(names, passes) == names \cap passes # {}

TriesLeft(k) == k >= 0

\* after LOGIN_COUNT + 1 refusals the child goes on to the commands
Pass(c) ==
    /\ pc[Srv(c)] = "pass"
    /\ \E m \in Recv(Srv(c)) \ {Error} : \E as \in Meant(m, PassFront) :
         LET ok == Accepts(named[c], as)
             left == count[Srv(c)] - 1 IN
         /\ named' = [named EXCEPT ![c] = {}]
         /\ passed' = [passed EXCEPT ![c] = named[c] \cap as # {}]
         /\ count' = [count EXCEPT ![Srv(c)] = IF ok THEN @ ELSE left]
         /\ IF ok THEN Answer(Srv(c), m, "230", "cmd")
            ELSE Answer(Srv(c), m, "430", IF TriesLeft(left) THEN "name" ELSE "cmd")
    /\ UNCHANGED <<cmd, typed, transfer, listing>>

\* ftp_serve_recv_cmd; after QUIT, and after a closed connection's empty command,
\* the loop goes on
Command(c) ==
    /\ pc[Srv(c)] = "cmd"
    /\ \E m \in Recv(Srv(c)) :
         CASE m = Error ->
                Hear(Srv(c), m, "cmd") /\ UNCHANGED cmd
           [] m = QUIT ->
                Answer(Srv(c), m, "221", "cmd") /\ UNCHANGED cmd
           [] m.kind \in {"LIST", "RETR"} ->
                /\ Answer(Srv(c), m, "200", "ack")
                /\ cmd' = [cmd EXCEPT ![Srv(c)] = m]
           [] OTHER ->
                Answer(Srv(c), m, "502", "cmd") /\ UNCHANGED cmd
    /\ UNCHANGED <<login, typed, transfer, listing>>

\* ftp_serve_start_conn waits for the acknowledgement, whatever it is
GetAck(c) ==
    /\ pc[Srv(c)] = "ack"
    /\ \E m \in Recv(Srv(c)) : Hear(Srv(c), m, IF m = Error THEN "gone" ELSE "connect")
    /\ UNCHANGED <<login, cmd, typed, transfer, listing>>

\* it connects to CLIENT_PORT of the client's host, whoever listens there
ConnectBack(c) ==
    /\ pc[Srv(c)] = "connect"
    /\ \E d \in Listeners(Host[c]) :
         /\ queue' = [queue EXCEPT ![d] = Append(@, Conn(c))]
         /\ data' = [data EXCEPT ![Conn(c)] = [NoData EXCEPT !.to = d]]
    /\ pos' = [pos EXCEPT ![c] = 0]
    /\ Goto(Srv(c), IF cmd[Srv(c)] = LIST THEN "list" ELSE "retr")
    /\ UNCHANGED <<control, login, cmd, typed, listens, sock, got, tmp, alone>>

Refused(c) ==
    /\ pc[Srv(c)] = "connect" /\ Listeners(Host[c]) = {}
    /\ Goto(Srv(c), "gone")
    /\ UNCHANGED <<control, login, cmd, typed, transfer, listing>>

\* ftp_serve_list: the shell empties tmp.txt and ls begins
List(c) ==
    /\ pc[Srv(c)] = "list"
    /\ tmp' = {}
    /\ alone' = [d \in Client |->
                    IF d = c THEN \A x \in Client : pc[Srv(x)] # "ls"
                    ELSE alone[d] /\ pc[Srv(d)] \notin {"ls", "send"}]
    /\ Goto(Srv(c), "ls")
    /\ UNCHANGED <<control, login, cmd, typed, transfer, pos>>

\* system or fopen fails: exit
ListFails(c) ==
    /\ pc[Srv(c)] = "list"
    /\ Goto(Srv(c), "gone")
    /\ UNCHANGED <<control, login, cmd, typed, transfer, listing>>

Ls(c) ==
    /\ pc[Srv(c)] = "ls" /\ pos[c] < ListLen
    /\ pos' = [pos EXCEPT ![c] = @ + 1]
    /\ tmp' = tmp \cup {pos[c] + 1}
    /\ UNCHANGED <<pc, control, login, cmd, typed, transfer, alone>>

LsDone(c) ==
    /\ pc[Srv(c)] = "ls" /\ pos[c] >= ListLen
    /\ pos' = [pos EXCEPT ![c] = 0]
    /\ Say(Srv(c), Reply("1"), "send")
    /\ UNCHANGED <<login, cmd, typed, transfer, tmp, alone>>

HangUp_not(c) == data

\* close(sock_fd)
HangUp(c) == [data EXCEPT ![Conn(c)].closed = TRUE]

\* ftp_serve_retr
Retr(c) ==
    /\ pc[Srv(c)] = "retr"
    /\ LET f == cmd[Srv(c)].arg IN
       IF f \in File
       THEN Say(Srv(c), Reply("150"), "send") /\ UNCHANGED data
       ELSE Say(Srv(c), Reply("550"), "cmd") /\ data' = HangUp(c)
    /\ UNCHANGED <<login, cmd, typed, listens, queue, sock, got, listing>>

\* what fread gives next: block k of f, or zeros in a hole of tmp.txt
Size(f) == IF f = Listing THEN Max(tmp \cup {0}) ELSE Length[f]
Block(f, k) == <<f, IF f = Listing /\ k \notin tmp THEN 0 ELSE k>>

After_skip(k) == k + 2

After(k) == k + 1

\* reset, or nobody is left to read it
Lost(c) == data[Conn(c)].reset \/ data[Conn(c)].to \notin {d \in Client : ~Gone(Cli(d))}

\* a block is sent; to a connection that was reset in vain, or with SIGPIPE
SendBlock(c) ==
    LET f == cmd[Srv(c)].arg
        k == pos[c] + 1 IN
    /\ pc[Srv(c)] = "send" /\ k <= Size(f)
    /\ pos' = [pos EXCEPT ![c] = After(@)]
    /\ IF Lost(c)
       THEN pc' \in {pc, [pc EXCEPT ![Srv(c)] = "gone"]} /\ UNCHANGED data
       ELSE UNCHANGED pc /\ data' = [data EXCEPT ![Conn(c)].buf = Append(@, Block(f, k))]
    /\ UNCHANGED <<control, login, cmd, typed, listens, queue, sock, got, tmp, alone>>

SendDone(c) ==
    /\ pc[Srv(c)] = "send" /\ pos[c] >= Size(cmd[Srv(c)].arg)
    /\ Say(Srv(c), Reply("226"), "cmd")
    /\ data' = HangUp(c)
    /\ UNCHANGED <<login, cmd, typed, listens, queue, sock, got, listing>>

-----------------------------------------------------------------------------
Commands == {LIST, QUIT} \cup {RETR(f) : f \in Asked}

\* the user
User(c) == \/ Connect(c) \/ Interrupt(c)
           \/ \E w \in Word : GiveWord(c, w, "name", "wait") \/ GiveWord(c, w, "pass", "verdict")
           \/ \E k \in Commands : Type(c, k)

Works(c) == \/ Welcome(c) \/ AskPass(c) \/ Verdict(c) \/ GetReply(c)
            \/ Open(c) \/ Accept(c) \/ AcceptFails(c)
            \/ Begin(c) \/ Receive(c) \/ ReceiveEof(c) \/ Done(c)

Serves(c) == \/ Start(c) \/ Name(c) \/ Pass(c) \/ LoginFails(c)
             \/ Command(c) \/ GetAck(c) \/ ConnectBack(c) \/ Refused(c)
             \/ List(c) \/ ListFails(c) \/ Ls(c) \/ LsDone(c)
             \/ Retr(c) \/ SendBlock(c) \/ SendDone(c)

Processes == \E c \in Client : Works(c) \/ Serves(c)
Network == \E e \in End : ResetArrives(e)

Next == (\E c \in Client : User(c)) \/ Processes \/ Network

\* some process runs whenever one can, and resets arrive; users promise nothing
Fairness == WF_vars(Processes) /\ WF_vars(Network)

Spec == Init /\ [][Next]_vars /\ Fairness

-----------------------------------------------------------------------------
Kinds(e) ==
    CASE pc[e] \in {"name", "pass"} /\ e[2] = "child" -> {"secret"}
      [] pc[e] = "cmd" -> {"LIST", "RETR", "QUIT"}
      [] pc[e] = "ack" -> {"ack"}
      [] pc[e] = "welcome" -> {"220"}
      [] pc[e] = "wait" -> {"331"}
      [] pc[e] = "verdict" -> {"230", "430"}
      [] pc[e] = "reply" -> {"221", "200"}
      [] pc[e] = "begin" -> IF cmd[e] = LIST THEN {"1"} ELSE {"150", "550"}
      [] pc[e] = "done" -> {"226"}
      [] OTHER -> {}

\* recv takes what has arrived, whatever its boundaries: commands have none, so
\* there must never be two of a client's messages at once.
OneMessage == \A c \in Client : Len(in[Srv(c)]) <= 1

\* Both ends are at the same place of the protocol: what a process finds is an
\* answer to what it did, not one left over from a command before.
InStep == \A e \in End : (in[e] # << >> /\ Kinds(e) # {}) => Head(in[e]).kind \in Kinds(e)

\* A child carries out commands only for a client whose last name and password
\* begin, the empty ones included, those of one and the same account, though it
\* goes on to the commands by itself after its last refusal.
ServedLoggedIn ==
    \A c \in Client : pc[Srv(c)] \in {"ack", "connect", "list", "ls", "retr", "send"} => passed[c]

\* Client and child never lose each other, from the login to the last command.
Synchronised == OneMessage /\ InStep /\ ServedLoggedIn

Blocks(f, n) == [k \in 1 .. n |-> <<f, k>>]

Finished(c, k) == pc[Cli(c)] = "done" /\ cmd[Cli(c)] = k /\ sock[c] = Conn(c)

\* A file that came over the client's own data connection is whole, and a listing
\* is if no other child's ls ran in between and its own child did not give up.
GotWhole ==
    \A c \in Client :
        /\ \A f \in File : Finished(c, RETR(f)) => got[c] = Blocks(f, Length[f])
        /\ (Finished(c, LIST) /\ alone[c] /\ ~Gone(Srv(c))) => got[c] = Blocks(Listing, ListLen)

\* A name or a password was never sent: client and child both wait for a message.
Muted(c) == /\ pc[Cli(c)] \in {"wait", "verdict"} /\ pc[Srv(c)] \in {"name", "pass"}
            /\ in[Cli(c)] = << >> /\ in[Srv(c)] = << >>

\* A client that was given a command comes back to its prompt, or ends, unless its
\* child has died: client and child never wait for each other.  They do after a
\* mute word, and after no other.
CommandEndsFor(c) ==
    /\ pc[Cli(c)] \in {"reply", "open", "accept", "begin", "data", "done"}
           ~> (pc[Cli(c)] \in {"prompt", "gone"} \/ Gone(Srv(c)))
    /\ pc[Cli(c)] \in {"wait", "verdict"}
           ~> (pc[Cli(c)] \notin {"wait", "verdict"} \/ Muted(c) \/ Gone(Srv(c)))

\* A child ends after its client, though QUIT does not end its loop and neither
\* does the end of the connection.
ChildEndsAfter(c) == Gone(Cli(c)) ~> Gone(Srv(c))

\* "creates a data connection to the client": to its own.
DataIsOwn == \A c \in Client : sock[c] # None => sock[c][1] = c
=============================================================================
