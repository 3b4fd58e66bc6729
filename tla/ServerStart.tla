---------------------------- MODULE ServerStart ----------------------------
(***************************************************************************)
(* How the HTTP server starts (server.c's main up to its loop, util.c):    *)
(* the configuration is read line by line into one buffer, into which root *)
(* points from then on; then the sockets are made.  Neither a bad          *)
(* configuration nor a socket that cannot be made keeps it from starting.  *)
(*                                                                         *)
(* A line is a key, a value and a size in cells; None is a key of a line   *)
(* without "=".                                                            *)
(*                                                                         *)
(* A definition named X_y is a wrong form of the definition X after it, on *)
(* which the property is seen to fail.                                     *)
(***************************************************************************)
EXTENDS Integers, SequencesExt, FiniteSetsExt

CONSTANTS File,     \* configurations: sequences of lines
          BUF_LEN,
          None      \* nothing there; not set

Line(k, v, n) == [key |-> k, value |-> v, size |-> n]

VARIABLES
    pc,
    file,         \* the lines still to be read
    conf_buf,     \* per cell: the value whose line it belongs to
    current_pos,
    cf,           \* root is a place in conf_buf
    listen_fd,    \* made: the socket listens; failed
    read          \* the lines that were read

vars == <<pc, file, conf_buf, current_pos, cf, listen_fd, read>>

Init ==
    /\ pc = "options" /\ file \in File
    /\ conf_buf = [i \in 0..(BUF_LEN - 1) |-> None] /\ current_pos = 0
    /\ cf = [root |-> None, port |-> None, thread_num |-> None]
    /\ listen_fd = "failed" /\ read = << >>

\* without arguments, with the wrong ones or for help: the usage is printed
Options ==
    /\ pc = "options" /\ pc' \in {"exit", "conf"}
    /\ UNCHANGED <<file, conf_buf, current_pos, cf, listen_fd, read>>

\* read_conf cannot open the file
NoConf ==
    /\ pc = "conf" /\ read = << >> /\ pc' = "signal"
    /\ UNCHANGED <<file, conf_buf, current_pos, cf, listen_fd, read>>

Moved_not(l) == current_pos

Moved(l) == current_pos + l.size

\* the cells of a line and the 0 after it
Stored(l) ==
    [i \in DOMAIN conf_buf |->
        IF current_pos <= i /\ i < current_pos + l.size THEN l.value
        ELSE IF i = current_pos + l.size THEN None ELSE conf_buf[i]]

\* fgets is given the whole buffer's size each time: lines may run out of it
ReadConf ==
    /\ pc = "conf" /\ file # << >>
    /\ LET l == Head(file) IN
           IF current_pos + l.size >= BUF_LEN
           THEN pc' = "smashed" /\ UNCHANGED <<file, conf_buf, current_pos, cf, read>>
           ELSE /\ file' = Tail(file) /\ conf_buf' = Stored(l) /\ read' = Append(read, l)
                /\ pc' = IF l.key = None THEN "signal" ELSE "conf"
                /\ current_pos' = Moved(l)
                /\ cf' = IF l.key = "root" THEN [cf EXCEPT !.root = current_pos]
                         ELSE IF l.key \in DOMAIN cf THEN [cf EXCEPT ![l.key] = l.value] ELSE cf
    /\ UNCHANGED listen_fd

ConfDone ==
    /\ pc = "conf" /\ file = << >> /\ pc' = "signal"
    /\ UNCHANGED <<file, conf_buf, current_pos, cf, listen_fd, read>>

\* SIGPIPE is to be ignored
Signal ==
    /\ pc = "signal" /\ pc' \in {"exit", "listen"}
    /\ UNCHANGED <<file, conf_buf, current_pos, cf, listen_fd, read>>

\* socket, bind, listen; port 3000 for one that is not above 0
OpenListenFd ==
    /\ pc = "listen" /\ pc' = "nonblock"
    /\ listen_fd' \in {"made", "failed"}
    /\ UNCHANGED <<file, conf_buf, current_pos, cf, read>>

\* and epoll, its first request and the timers
MakeSocketNonblocking ==
    /\ pc = "nonblock" /\ pc' = "started"
    /\ UNCHANGED <<file, conf_buf, current_pos, cf, listen_fd, read>>

Over == pc \in {"exit", "smashed", "started"} /\ UNCHANGED vars

Next ==
    \/ Options \/ NoConf \/ ReadConf \/ ConfDone \/ Signal
    \/ OpenListenFd \/ MakeSocketNonblocking \/ Over

Spec == Init /\ [][Next]_vars

-----------------------------------------------------------------------------
Roots == {i \in DOMAIN read : read[i].key = "root"}

\* Where root points there is, once the server has started, the value of the last
\* line for it, though it was read into the same buffer as all the lines after it
\* (util.c:95).
RootKept ==
    pc = "started" /\ Roots # {} =>
        LET l == read[Max(Roots)]
        IN \A i \in 0..(l.size - 1) : conf_buf[cf.root + i] = l.value
=============================================================================
