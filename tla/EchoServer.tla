----------------------------- MODULE EchoServer -----------------------------
(***************************************************************************)
(* The echo server and its client, versions 1 and 3: the server takes a    *)
(* connection, reads one line, writes it back and closes; then the next    *)
(* one.  A client of version 1 sends one line, one of version 3 a line     *)
(* after the other.                                                        *)
(*                                                                         *)
(* Users may end what they type anywhere, so a line need not end in "\n",  *)
(* and may interrupt the client.  A line is read in one step once all of   *)
(* it is there: nobody else takes from the connection in between.          *)
(*                                                                         *)
(* A definition named X_y is a wrong form of the definition X after it, on *)
(* which the property is seen to fail.                                     *)
(***************************************************************************)
EXTENDS Integers, SequencesExt

CONSTANTS Client,
          Line,      \* per client: what fgets may return, sequences of characters
          MAX_LINE,
          MaxLine,   \* bound: lines of a client
          None       \* nobody; the character 0

VARIABLES
    version,
    at,      \* per client: new, typing, reading, gone
    first,   \* per client: the first line it sent
    lines,   \* per client: how many it sent
    in,      \* per client: what it sent and the server has not read
    out,     \* per client: what the server wrote and it has not read
    answer,  \* per client: all that the server wrote to it
    ended,   \* per client: no; closed; reset, by the server's close with bytes unread
    buffer,  \* the server's buffer
    listen,  \* the connections to be accepted
    conn,    \* the client that is served
    n        \* the bytes to be written back; -1: it reads; -2: it closes

client == <<at, first, lines>>
server == <<buffer, listen, conn, n>>
vars == <<version, client, in, out, answer, ended, server>>

Zero == [i \in 1..MAX_LINE |-> None]

Init ==
    /\ version \in {1, 3}
    /\ at = [c \in Client |-> "new"] /\ lines = [c \in Client |-> 0]
    /\ first = [c \in Client |-> << >>]
    /\ in = [c \in Client |-> << >>] /\ out = [c \in Client |-> << >>]
    /\ answer = [c \in Client |-> << >>] /\ ended = [c \in Client |-> "no"]
    /\ buffer = Zero /\ listen = << >> /\ conn = None /\ n = -1

\* a line from the front of s, of less than max characters; what is there at its end
LineOf(s, max) == SubSeq(s, 1, Min({SelectInSeq(Append(s, "\n"), LAMBDA x : x = "\n"), Len(s), max - 1}))

\* a read of a line would not wait any more
IsLine(s, max) == Len(s) >= max - 1 \/ "\n" \in ToSet(s)

\* rio_read_lineb's count: one too many if the line does not end in "\n"
CountOf(s) == IF s = << >> THEN 0 ELSE IF Last(s) = "\n" THEN Len(s) ELSE Len(s) + 1

-----------------------------------------------------------------------------
(***************************************************************************)
(* The client.                                                             *)
(***************************************************************************)
Goto(c, l) == at' = [at EXCEPT ![c] = l]

Connect(c) ==
    /\ at[c] = "new" /\ Goto(c, "typing") /\ listen' = Append(listen, c)
    /\ UNCHANGED <<version, first, lines, in, out, answer, ended, buffer, conn, n>>

\* fgets and the line's write; the second write to a closed end kills
Send(c) ==
    /\ at[c] = "typing" /\ lines[c] < MaxLine
    /\ lines' = [lines EXCEPT ![c] = @ + 1]
    /\ \E s \in Line[c] \cup {<< >>} :
           /\ version = 3 => s # << >>
           /\ first' = IF lines[c] = 0 THEN [first EXCEPT ![c] = s] ELSE first
           /\ in' = IF ended[c] = "no" THEN [in EXCEPT ![c] = @ \o s] ELSE in
    /\ ended' = IF ended[c] = "closed" THEN [ended EXCEPT ![c] = "reset"] ELSE ended
    /\ Goto(c, IF ended[c] = "reset" THEN "gone" ELSE "reading")
    /\ UNCHANGED <<version, out, answer, server>>

\* version 1: one read, whatever it brings, and the end
ReadOnce(c) ==
    /\ version = 1 /\ at[c] = "reading"
    /\ out[c] # << >> \/ ended[c] # "no"
    /\ Goto(c, "gone")
    /\ UNCHANGED <<version, first, lines, in, out, answer, ended, server>>

\* version 3: a line, or nothing when the server has closed; then its buffer is put out
ReadLine(c) ==
    /\ version = 3 /\ at[c] = "reading"
    /\ IsLine(out[c], MAX_LINE) \/ ended[c] # "no"
    /\ out' = [out EXCEPT ![c] = SubSeq(@, Len(LineOf(@, MAX_LINE)) + 1, Len(@))]
    /\ Goto(c, "typing")
    /\ UNCHANGED <<version, first, lines, in, answer, ended, server>>

\* fgets returns NULL, or the user interrupts the client
Leave(c) ==
    /\ at[c] \in {"typing", "reading"} /\ Goto(c, "gone")
    /\ UNCHANGED <<version, first, lines, in, out, answer, ended, server>>

-----------------------------------------------------------------------------
(***************************************************************************)
(* The server.                                                             *)
(***************************************************************************)
Cleared_not == buffer

\* version 1 clears the buffer for each connection
Cleared == IF version = 1 THEN Zero ELSE buffer

Accept ==
    /\ conn = None /\ listen # << >>
    /\ conn' = Head(listen) /\ listen' = Tail(listen) /\ n' = -1 /\ buffer' = Cleared
    /\ UNCHANGED <<version, client, in, out, answer, ended>>

\* the buffer with s, and the 0 after it, at its front
With(s, zero) ==
    [i \in 1..MAX_LINE |->
        IF i <= Len(s) THEN s[i] ELSE IF i = Len(s) + 1 /\ zero THEN None ELSE buffer[i]]

\* the place before the first 0
StrLen(b) == SelectInSeq(Append(b, None), LAMBDA x : x = None) - 1

\* read_line of version 1 returns at the end of file before it has put the 0
ReadLine1 ==
    LET s == LineOf(in[conn], MAX_LINE - 1)
        whole == IsLine(in[conn], MAX_LINE - 1)
    IN /\ whole \/ at[conn] = "gone"
       /\ buffer' = With(s, whole) /\ n' = StrLen(buffer')
       /\ in' = [in EXCEPT ![conn] = SubSeq(@, Len(s) + 1, Len(@))]

\* rio_read_lineb of version 3
ReadLine3 ==
    LET s == LineOf(in[conn], MAX_LINE) IN
    /\ IsLine(in[conn], MAX_LINE) \/ at[conn] = "gone"
    /\ buffer' = With(s, s # << >>) /\ n' = CountOf(s)
    /\ in' = [in EXCEPT ![conn] = SubSeq(@, Len(s) + 1, Len(@))]

ServerRead ==
    /\ conn # None /\ n = -1
    /\ (version = 1 /\ ReadLine1) \/ (version = 3 /\ ReadLine3)
    /\ UNCHANGED <<version, client, out, answer, ended, listen, conn>>

\* write_line, rio_writen: n bytes of the buffer
ServerWrite ==
    /\ conn # None /\ n >= 0
    /\ answer' = [answer EXCEPT ![conn] = @ \o SubSeq(buffer, 1, n)]
    /\ out' = IF at[conn] = "gone" THEN out ELSE [out EXCEPT ![conn] = @ \o SubSeq(buffer, 1, n)]
    /\ n' = -2
    /\ UNCHANGED <<version, client, in, ended, buffer, listen, conn>>

\* what is left unread resets the connection; rio may have read it already
ServerClose ==
    /\ conn # None /\ n = -2
    /\ \E e \in {"closed", "reset"} :
           /\ e = "reset" => in[conn] # << >>
           /\ e = "closed" => (in[conn] = << >> \/ version = 3)
           /\ ended' = [ended EXCEPT ![conn] = e]
    /\ conn' = None
    /\ UNCHANGED <<version, client, in, out, answer, buffer, listen, n>>

\* every client has come and gone
Over == conn = None /\ listen = << >> /\ (\A c \in Client : at[c] = "gone") /\ UNCHANGED vars

Next ==
    \/ \E c \in Client : Connect(c) \/ Send(c) \/ ReadOnce(c) \/ ReadLine(c) \/ Leave(c)
    \/ Accept \/ ServerRead \/ ServerWrite \/ ServerClose \/ Over

Spec == Init /\ [][Next]_vars

-----------------------------------------------------------------------------
\* What a client is sent is the beginning of its own line, and at most a 0 after
\* it, though one buffer serves all clients; and all of the line when that ends in
\* "\n" and is not too long (echo_server.c:85 in version 1, :71 in version 3).
EchoOwn ==
    \A c \in Client :
        /\ IsPrefix(answer[c], Append(first[c], None))
        /\ ended[c] # "no" /\ IsLine(first[c], MAX_LINE) /\ Len(first[c]) <= MAX_LINE - 2
               => answer[c] = first[c]
=============================================================================
