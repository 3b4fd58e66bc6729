-------------------------------- MODULE Rio ---------------------------------
(***************************************************************************)
(* rio.c of simple_http_server: reading and writing a socket through short *)
(* counts, interruptions, EAGAIN and end of file, with and without a       *)
(* buffer.  echo_server's method.c is an earlier copy.                     *)
(*                                                                         *)
(* One caller makes one call after the other; a call takes a step for each *)
(* read(2) or write(2) and for each piece it copies.  An interrupted call  *)
(* (EINTR) is repeated at once and changes nothing, so it is no step.      *)
(*                                                                         *)
(* A definition named X_y is a wrong form of the definition X after it, on *)
(* which the properties are seen to fail.                                  *)
(***************************************************************************)
EXTENDS Integers, SequencesExt

CONSTANTS Stream,       \* what the peer may send before it closes
          Call,         \* the functions the caller uses
          Size,         \* the n and max_len it passes
          RIO_BUF_SIZE,
          SndBuf,       \* bytes the kernel takes from writers and keeps
          Mode,         \* whether the socket may be O_NONBLOCK
          Nl, None      \* the newline, no call

Byte == UNION {Range(s) : s \in Stream}

ASSUME SizeAssumption ==
    /\ Stream \subseteq Seq(Byte) /\ None \notin {"line", "n_b", "n", "write"}
    /\ Size \subseteq Nat \ {0} /\ RIO_BUF_SIZE \in Nat \ {0} /\ SndBuf \in Nat \ {0}
    /\ Call \subseteq {"line", "n_b", "n", "write"} /\ Mode \subseteq BOOLEAN

VARIABLES
    stream,   \* what the peer sends in all
    nonblocking,
    arrived,  \* how much of it has reached the socket
    kern,     \* bytes in the socket, unread
    peer,     \* open; closed; broken, when the connection was reset; told, when a
              \* call has said so
    buf,      \* rio_buf, from rio_buf_ptr on: rio_cnt bytes
    call,     \* the function being executed, or None
    n,        \* its size argument
    out,      \* usr_buf: bytes copied to it, or bytes still to be written
    count,    \* rio_read_line_b's n
    got,      \* what all calls so far returned to the caller
    snd,      \* bytes written that the peer has not taken
    failed,   \* some reading call has reported a failure
    result    \* the last call: its name, value and bytes, and whether it met
              \* the end of file

fixed == <<stream, nonblocking>>
reader == <<buf, call, n, out, count, got, snd, failed, result>>
vars == <<stream, nonblocking, arrived, kern, peer, reader>>

NoResult == [call |-> None, value |-> 0, out |-> << >>, eof |-> FALSE]

\* rio_read_init_b
Init ==
    /\ stream \in Stream /\ nonblocking \in Mode /\ arrived = 0 /\ kern = << >> /\ peer = "open"
    /\ buf = << >> /\ call = None /\ n = 0 /\ out = << >> /\ count = 0
    /\ got = << >> /\ snd = 0 /\ failed = FALSE /\ result = NoResult

-----------------------------------------------------------------------------
(***************************************************************************)
(* The peer.                                                               *)
(***************************************************************************)
Arrive ==
    /\ peer = "open" /\ arrived < Len(stream)
    /\ arrived' = arrived + 1
    /\ kern' = Append(kern, stream[arrived'])
    /\ UNCHANGED <<fixed, peer, reader>>

Hangup ==
    /\ peer = "open"
    /\ peer' = "closed"
    /\ UNCHANGED <<fixed, arrived, kern, reader>>

\* a reset, a host that cannot be reached: reads fail once what has arrived is
\* taken, unless the peer had closed, and writes fail at once
Break ==
    /\ peer \in {"open", "closed"}
    /\ peer' = IF peer = "open" THEN "broken" ELSE "told"
    /\ UNCHANGED <<fixed, arrived, kern, reader>>

Take ==
    /\ snd > 0
    /\ snd' = snd - 1
    /\ UNCHANGED <<fixed, arrived, kern, peer, buf, call, n, out, count, got, failed, result>>

-----------------------------------------------------------------------------
\* A caller that mixes buffered and plain reads does so at an empty buffer.
Begin(c, k) ==
    /\ call = None
    /\ c = "n" => buf = << >>
    /\ call' = c /\ n' = k /\ count' = 1
    /\ out' = IF c = "write" THEN [i \in 1 .. k |-> i] ELSE << >>
    /\ UNCHANGED <<fixed, arrived, kern, peer, buf, got, snd, failed, result>>

Return(v, bytes, e) ==
    /\ result' = [call |-> call, value |-> v, out |-> bytes, eof |-> e]
    /\ call' = None /\ n' = 0 /\ out' = << >> /\ count' = 0

\* a read call hands its bytes to the caller, unless it reports a failure
Deliver(v, bytes, e) ==
    /\ Return(v, bytes, e)
    /\ got' = IF v < 0 THEN got ELSE got \o bytes
    /\ failed' = (failed \/ v < 0)

Buffered == call \in {"line", "n_b"}

\* rio_read's read(2): it fills the empty buffer with what is there, in part
Fill ==
    /\ Buffered /\ buf = << >> /\ kern # << >>
    /\ \E k \in 1 .. RIO_BUF_SIZE :
         /\ k <= Len(kern)
         /\ buf' = SubSeq(kern, 1, k)
         /\ kern' = SubSeq(kern, k + 1, Len(kern))
    /\ UNCHANGED <<fixed, arrived, peer, call, n, out, count, got, snd, failed, result>>

AtEof_never == FALSE

AtEof == kern = << >> /\ peer \in {"closed", "told"}

WouldBlock == kern = << >> /\ peer = "open" /\ nonblocking

Broken == kern = << >> /\ peer = "broken"

Advance_half(k) == SubSeq(buf, k, Len(buf))

\* rio_buf_ptr moves on over what was copied
Advance(k) == SubSeq(buf, k + 1, Len(buf))

\* how much of the buffer rio_read copies
CopyCount == IF Len(buf) < n - Len(out) THEN Len(buf) ELSE n - Len(out)

\* rio_read_n_b
CopyN ==
    /\ call = "n_b" /\ buf # << >> /\ Len(out) < n
    /\ out' = out \o SubSeq(buf, 1, CopyCount)
    /\ buf' = Advance(CopyCount)
    /\ UNCHANGED <<fixed, arrived, kern, peer, call, n, count, got, snd, failed, result>>

Enough == Len(out) >= n

NDone ==
    /\ call \in {"n_b", "n"} /\ Enough
    /\ Deliver(Len(out), out, FALSE)
    /\ UNCHANGED <<fixed, arrived, kern, peer, buf, snd>>

\* end of file: what was read so far
NEof ==
    /\ call \in {"n_b", "n"} /\ Len(out) < n /\ buf = << >> /\ AtEof
    /\ Deliver(Len(out), out, TRUE)
    /\ UNCHANGED <<fixed, arrived, kern, peer, buf, snd>>

\* EAGAIN is an error like any other: what was read so far is not reported
NFails ==
    /\ call \in {"n_b", "n"} /\ Len(out) < n /\ buf = << >> /\ (WouldBlock \/ Broken)
    /\ Deliver(-1, out, FALSE)
    /\ peer' = IF Broken THEN "told" ELSE peer
    /\ UNCHANGED <<fixed, arrived, kern, buf, snd>>

\* rio_read_n's read(2)
ReadN ==
    /\ call = "n" /\ Len(out) < n /\ kern # << >>
    /\ \E k \in 1 .. n - Len(out) :
         /\ k <= Len(kern)
         /\ out' = out \o SubSeq(kern, 1, k)
         /\ kern' = SubSeq(kern, k + 1, Len(kern))
    /\ UNCHANGED <<fixed, arrived, peer, buf, call, n, count, got, snd, failed, result>>

-----------------------------------------------------------------------------
EndsLine(b) == b = Nl

\* rio_read_line_b: the next byte
LineByte ==
    /\ call = "line" /\ count < n /\ buf # << >>
    /\ buf' = Advance(1)
    /\ IF EndsLine(Head(buf))
       THEN Deliver(count, Append(out, Head(buf)), FALSE)
       ELSE /\ out' = Append(out, Head(buf))
            /\ count' = count + 1
            /\ UNCHANGED <<call, n, got, failed, result>>
    /\ UNCHANGED <<fixed, arrived, kern, peer, snd>>

\* the loop has counted up to max_len, one more than the bytes
LineFull ==
    /\ call = "line" /\ count >= n
    /\ Deliver(count, out, FALSE)
    /\ UNCHANGED <<fixed, arrived, kern, peer, buf, snd>>

\* so it has here, unless there was nothing
LineEof ==
    /\ call = "line" /\ count < n /\ buf = << >> /\ AtEof
    /\ Deliver(IF count = 1 THEN 0 ELSE count, out, TRUE)
    /\ UNCHANGED <<fixed, arrived, kern, peer, buf, snd>>

\* -EAGAIN: the bytes of the line that were read are in usr_buf, unreported
LineFails ==
    /\ call = "line" /\ count < n /\ buf = << >> /\ WouldBlock
    /\ Deliver(-11, out, FALSE)
    /\ UNCHANGED <<fixed, arrived, kern, peer, buf, snd>>

LineBreaks ==
    /\ call = "line" /\ count < n /\ buf = << >> /\ Broken
    /\ Deliver(-1, out, FALSE)
    /\ peer' = "told"
    /\ UNCHANGED <<fixed, arrived, kern, buf, snd>>

-----------------------------------------------------------------------------
\* rio_write_n: write(2) takes part of the rest
WriteSome ==
    /\ call = "write" /\ out # << >> /\ peer \in {"open", "closed"}
    /\ \E k \in 1 .. Len(out) :
         /\ snd + k <= SndBuf
         /\ snd' = snd + k
         /\ out' = SubSeq(out, k + 1, Len(out))
    /\ UNCHANGED <<fixed, arrived, kern, peer, buf, call, n, count, got, failed, result>>

Written == out = << >>

WriteDone ==
    /\ call = "write" /\ Written
    /\ Return(n, out, FALSE)
    /\ UNCHANGED <<fixed, arrived, kern, peer, buf, got, snd, failed>>

\* EAGAIN or a broken connection: the peer has a part, and the caller cannot know
\* which
WriteFails ==
    /\ call = "write" /\ out # << >>
    /\ (snd = SndBuf /\ nonblocking) \/ peer \in {"broken", "told"}
    /\ Return(-1, out, FALSE)
    /\ peer' = IF peer = "broken" THEN "told" ELSE peer
    /\ UNCHANGED <<fixed, arrived, kern, buf, got, snd, failed>>

-----------------------------------------------------------------------------
Progress == \/ Fill \/ CopyN \/ NDone \/ NEof \/ NFails \/ ReadN
            \/ LineByte \/ LineFull \/ LineEof \/ LineFails \/ LineBreaks
            \/ WriteSome \/ WriteDone \/ WriteFails

Next == \/ Arrive \/ Hangup \/ Break \/ Take \/ Progress
        \/ \E c \in Call, k \in Size : Begin(c, k)

\* the caller's thread runs, and the peer closes in the end and takes what it
\* was sent
Fairness == WF_vars(Progress) /\ WF_vars(Hangup) /\ WF_vars(Take)

Spec == Init /\ [][Next]_vars /\ Fairness

-----------------------------------------------------------------------------
\* No call writes past usr_buf or rio_buf, and the counters stay within their sizes.
TypeOK ==
    /\ nonblocking \in BOOLEAN /\ arrived \in 0 .. Len(stream)
    /\ peer \in {"open", "closed", "broken", "told"}
    /\ Len(kern) <= arrived /\ Len(buf) <= RIO_BUF_SIZE
    /\ call \in Call \cup {None} /\ n \in Size \cup {0} /\ count \in 0 .. n
    /\ Len(out) <= n /\ snd \in 0 .. SndBuf

\* No byte is lost, repeated or moved between the socket, the buffer, the call in
\* progress and the calls before it, however short the reads are and however
\* calls of different sizes follow each other, until a call reports an error.
StreamIntact ==
    ~failed =>
        got \o (IF call \in {"line", "n_b", "n"} THEN out ELSE << >>) \o buf \o kern
            = SubSeq(stream, 1, arrived)

\* What rio_read_line_b returns as a line has its newline at the end and nowhere
\* else; without one it is as long as it may be or the last of the stream.
LinesEndRight ==
    (result.call = "line" /\ result.value > 0) =>
        LET r == result.out IN
        /\ \A i \in 1 .. Len(r) - 1 : r[i] # Nl
        /\ r # << >> => (Last(r) # Nl =>
                            result.eof \/ \E k \in Size : Len(r) = k - 1)

\* What rio_read_line_b returns is the number of bytes of a line that has its
\* newline, 0 at the end of the stream, and otherwise one more than the bytes.
LineValue ==
    LET r == result.out IN
    (result.call = "line" /\ result.value >= 0) =>
        result.value = IF r # << >> /\ Last(r) = Nl THEN Len(r)
                       ELSE IF r = << >> /\ result.eof THEN 0 ELSE Len(r) + 1

\* n bytes, unless the end of file was met: a short answer means the end.
FullUnlessEof ==
    (result.call \in {"n_b", "n"} /\ result.value >= 0) =>
        /\ result.value = Len(result.out)
        /\ ~result.eof => result.value \in Size

\* Whatever calls came before it on the same buffer, a call that reports no error
\* has the next bytes of the stream, as many as its value says: but for a line
\* without its newline, whose value is one too many.
ReadsRight == TypeOK /\ StreamIntact /\ LinesEndRight /\ LineValue /\ FullUnlessEof

\* Every call returns once the peer closes and takes what it is sent.
CallsReturn == call # None ~> call = None
=============================================================================
