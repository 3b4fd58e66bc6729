----------------------------- MODULE Rio_proofs -----------------------------
(***************************************************************************)
(* rio.c for every stream, however it is cut up on its way, for all sizes  *)
(* of the buffers and of the requests, and every order of the calls: every *)
(* answer has the next bytes of the stream, and its value is their number, *)
(* or one more for a line without its newline.                             *)
(*                                                                         *)
(* The invariant adds what each function keeps of its own between two      *)
(* steps: how far a line has come, that it has no newline yet, and that    *)
(* the plain reads run at an empty buffer.                                 *)
(***************************************************************************)
EXTENDS Rio, TLAPS, SequenceTheorems

Reading == call \in {"line", "n_b", "n"}

Peers == {"open", "closed", "broken", "told"}

Shape ==
    /\ stream \in Seq(Byte) /\ kern \in Seq(Byte) /\ buf \in Seq(Byte) /\ got \in Seq(Byte)
    /\ arrived \in Nat /\ failed \in BOOLEAN
    /\ call = None => n = 0 /\ count = 0 /\ out = << >>
    /\ call # None => n \in Size /\ count >= 1
    /\ Reading => out \in Seq(Byte)
    /\ call = "write" => out \in Seq(Nat)

\* between two bytes of a line
LineSoFar ==
    call = "line" => Len(out) = count - 1 /\ \A i \in 1 .. Len(out) : out[i] # Nl

PlainAtEmpty == call = "n" => buf = << >>

Inv == ReadsRight /\ Shape /\ LineSoFar /\ PlainAtEmpty

\* the bytes the call in progress holds
Held == IF Reading THEN out ELSE << >>

-----------------------------------------------------------------------------
(***************************************************************************)
(* Sequences of bytes.                                                     *)
(***************************************************************************)

\* A read that takes k bytes off a sequence leaves the rest of it behind.
LEMMA SplitAt ==
    ASSUME NEW S, NEW s \in Seq(S), NEW k \in 0 .. Len(s)
    PROVE  /\ SubSeq(s, 1, k) \in Seq(S) /\ Len(SubSeq(s, 1, k)) = k
           /\ SubSeq(s, k + 1, Len(s)) \in Seq(S)
           /\ Len(SubSeq(s, k + 1, Len(s))) = Len(s) - k
           /\ SubSeq(s, 1, k) \o SubSeq(s, k + 1, Len(s)) = s
<1>0. /\ Len(s) \in Nat /\ k \in Int /\ Len(s) \in Int /\ 1 \in Int /\ k + 1 \in Int
      /\ \A i \in 1 .. Len(s) : s[i] \in S
  BY LenProperties, ElementOfSeq
<1>1. SubSeq(s, 1, k) \in Seq(S) /\ Len(SubSeq(s, 1, k)) = k
  <2>1. \A i \in 1 .. k : s[i] \in S
    BY <1>0
  <2>2. /\ SubSeq(s, 1, k) \in Seq(S)
        /\ Len(SubSeq(s, 1, k)) = IF 1 <= k THEN k - 1 + 1 ELSE 0
    BY <1>0, <2>1, SubSeqProperties
  <2> QED BY <1>0, <2>2
<1>2. /\ SubSeq(s, k + 1, Len(s)) \in Seq(S)
      /\ Len(SubSeq(s, k + 1, Len(s))) = Len(s) - k
  <2>1. \A i \in k + 1 .. Len(s) : s[i] \in S
    BY <1>0
  <2>2. /\ SubSeq(s, k + 1, Len(s)) \in Seq(S)
        /\ Len(SubSeq(s, k + 1, Len(s))) = IF k + 1 <= Len(s) THEN Len(s) - (k + 1) + 1 ELSE 0
    BY <1>0, <2>1, SubSeqProperties
  <2> QED BY <1>0, <2>2
<1>3. SubSeq(s, 1, k) \o SubSeq(s, k + 1, Len(s)) = SubSeq(s, 1, Len(s))
  <2>1. 1 \in 1 .. Len(s) + 1 /\ k \in 1 - 1 .. Len(s) /\ Len(s) \in k .. Len(s)
    BY <1>0
  <2> QED BY <2>1, ConcatAdjacentSubSeq
<1> QED BY <1>1, <1>2, <1>3, SubSeqFull

LEMMA Regroup == \A S : \A p, q, r \in Seq(S) : (p \o q) \o r = p \o (q \o r)
<1> TAKE S
<1> TAKE p, q, r \in Seq(S)
<1> QED BY ConcatAssociative

\* Of three pieces, the front of the last may go to the second.
LEMMA MoveFront ==
    ASSUME NEW S, NEW a \in Seq(S), NEW b \in Seq(S), NEW x \in Seq(S), NEW c \in Seq(S),
           NEW y, y = x \o c, NEW z, z = b \o x
    PROVE  (a \o b) \o y = ((a \o b) \o x) \o c /\ (a \o b) \o y = (a \o z) \o c
<1>1. a \o b \in Seq(S)
  BY ConcatProperties
<1>2. (a \o b) \o x = a \o (b \o x)
  BY Regroup, SMTT(60)
<1>3. PICK w \in Seq(S) : w = a \o b
  BY <1>1
<1>4. (w \o x) \o c = w \o (x \o c)
  BY Regroup, SMTT(60)
<1> QED BY <1>2, <1>3, <1>4

\* An empty piece in the middle does not count.
LEMMA EmptyMiddle ==
    ASSUME NEW S, NEW a \in Seq(S), NEW b \in Seq(S)
    PROVE  a \o b \in Seq(S) /\ (a \o b) \o << >> = a \o b
BY ConcatProperties, ConcatEmptySeq

\* Everything that has arrived, in the order the caller gets it: what the calls
\* before this one returned, what this one holds, the buffer, the socket.
Whole(a, b, c, d) == ((a \o b) \o c) \o d

\* Left unexpanded where the provers are only to match it.
Cut(s, front, rest) == s = front \o rest

\* From the buffer to the call.
LEMMA Copied ==
    ASSUME NEW a \in Seq(Byte), NEW b \in Seq(Byte), NEW x \in Seq(Byte),
           NEW c \in Seq(Byte), NEW d, NEW y, Cut(y, x, c), NEW z, Cut(z, b, x)
    PROVE  Whole(a, b, y, d) = Whole(a, z, c, d)
BY MoveFront DEF Whole, Cut

\* From the socket to the empty buffer.
LEMMA Filled ==
    ASSUME NEW a \in Seq(Byte), NEW b \in Seq(Byte), NEW x \in Seq(Byte),
           NEW d \in Seq(Byte), NEW y, Cut(y, x, d)
    PROVE  Whole(a, b, << >>, y) = Whole(a, b, x, d)
<1>1. (a \o b) \o << >> = a \o b
  BY EmptyMiddle
<1>2. (a \o b) \o y = ((a \o b) \o x) \o d
  BY MoveFront DEF Cut
<1> QED BY <1>1, <1>2 DEF Whole

\* From the socket to the call, past the empty buffer.
LEMMA ReadOn ==
    ASSUME NEW a \in Seq(Byte), NEW b \in Seq(Byte), NEW x \in Seq(Byte),
           NEW d \in Seq(Byte), NEW y, Cut(y, x, d), NEW z \in Seq(Byte), Cut(z, b, x)
    PROVE  Whole(a, b, << >>, y) = Whole(a, z, << >>, d)
<1>1. (a \o b) \o << >> = a \o b
  BY EmptyMiddle
<1>2. (a \o z) \o << >> = a \o z
  BY EmptyMiddle
<1>3. (a \o b) \o y = (a \o z) \o d
  BY MoveFront DEF Cut
<1> QED BY <1>1, <1>2, <1>3 DEF Whole

\* A byte that arrives is the last.
LEMMA AppendLast ==
    ASSUME NEW S, NEW a \in Seq(S), NEW k \in Seq(S), NEW e \in S
    PROVE  a \o Append(k, e) = (a \o k) \o <<e>>
<1>1. Append(k, e) = k \o <<e>>
  BY AppendIsConcat
<1>2. <<e>> \in Seq(S)
  OBVIOUS
<1> QED BY <1>1, <1>2, ConcatAssociative

-----------------------------------------------------------------------------
\* What the assumption says of the sizes.
LEMMA Sizes ==
    /\ Size \subseteq Nat /\ \A k \in Size : k >= 1
    /\ RIO_BUF_SIZE \in Nat /\ SndBuf \in Nat
    /\ Call \subseteq {"line", "n_b", "n", "write"} /\ Stream \subseteq Seq(Byte)
    /\ None \notin {"line", "n_b", "n", "write"}
BY SizeAssumption

LEMMA InvInit == Init => Inv
<1> SUFFICES ASSUME Init PROVE Inv
  OBVIOUS
<1> USE Sizes DEF Init
<1>0. /\ stream \in Seq(Byte) /\ Len(stream) \in Nat /\ << >> \in Seq(Byte)
      /\ Len(<< >>) = 0
  BY LenProperties, EmptySeq
<1>1. TypeOK
  <2>1. nonblocking \in BOOLEAN /\ peer \in Peers /\ call \in Call \cup {None}
    BY SizeAssumption DEF Peers
  <2>2. /\ arrived \in 0 .. Len(stream) /\ Len(kern) <= arrived /\ Len(buf) <= RIO_BUF_SIZE
        /\ n \in Size \cup {0} /\ count \in 0 .. n /\ Len(out) <= n /\ snd \in 0 .. SndBuf
    BY <1>0
  <2> QED BY <2>1, <2>2 DEF TypeOK, Peers
<1>2. StreamIntact
  <2>1. SubSeq(stream, 1, 0) = << >>
    BY SubSeqEmpty
  <2> QED BY <2>1 DEF StreamIntact
<1>3. LinesEndRight /\ LineValue /\ FullUnlessEof
  BY DEF LinesEndRight, LineValue, FullUnlessEof, NoResult
<1>4. Shape /\ LineSoFar /\ PlainAtEmpty
  BY <1>0 DEF Shape, Reading, LineSoFar, PlainAtEmpty
<1> QED BY <1>1, <1>2, <1>3, <1>4 DEF Inv, ReadsRight

\* The lengths and the pieces, in the shape the steps use them.
LEMMA Pieces ==
    ASSUME Inv
    PROVE  /\ stream \in Seq(Byte) /\ kern \in Seq(Byte) /\ buf \in Seq(Byte)
           /\ got \in Seq(Byte) /\ Held \in Seq(Byte)
           /\ Len(stream) \in Nat /\ Len(kern) \in Nat /\ Len(buf) \in Nat
           /\ Len(out) \in Nat /\ n \in Nat /\ count \in Nat /\ arrived \in Nat /\ snd \in Nat
           /\ kern # << >> => Len(kern) > 0
           /\ buf # << >> => Len(buf) > 0
           /\ ~failed => got \o Held \o buf \o kern = SubSeq(stream, 1, arrived)
<1> USE Sizes
<1>1. Shape /\ TypeOK /\ StreamIntact
  BY DEF Inv, ReadsRight
<1>2. << >> \in Seq(Byte) /\ Len(<< >>) = 0
  BY EmptySeq
<1>3. Held \in Seq(Byte)
  BY <1>1, <1>2 DEF Shape, Held
<1>4. call = None \/ Reading \/ call = "write"
  BY <1>1 DEF TypeOK, Peers, Reading
<1>5. Len(out) \in Nat
  BY <1>1, <1>2, <1>4, LenProperties DEF Shape
<1>6. /\ stream \in Seq(Byte) /\ kern \in Seq(Byte) /\ buf \in Seq(Byte)
      /\ got \in Seq(Byte) /\ arrived \in Nat
  BY <1>1 DEF Shape
<1>7. Len(stream) \in Nat /\ Len(kern) \in Nat /\ Len(buf) \in Nat
  BY <1>6, LenProperties
<1>8. kern # << >> => Len(kern) > 0
  BY <1>6, <1>7, EmptySeq
<1>9. buf # << >> => Len(buf) > 0
  BY <1>6, <1>7, EmptySeq
<1>10. n \in Nat /\ count \in Nat /\ snd \in Nat
  BY <1>1 DEF TypeOK, Peers
<1>11. ~failed => got \o Held \o buf \o kern = SubSeq(stream, 1, arrived)
  BY <1>1 DEF StreamIntact, Held, Reading
<1> QED BY <1>3, <1>5, <1>6, <1>7, <1>8, <1>9, <1>10, <1>11

-----------------------------------------------------------------------------
(***************************************************************************)
(* The peer.                                                               *)
(***************************************************************************)
LEMMA ArriveKeeps == Inv /\ Arrive => Inv'
<1> SUFFICES ASSUME Inv, Arrive PROVE Inv'
  OBVIOUS
<1> USE DEF Arrive, fixed, reader
<1>0. TypeOK /\ Shape /\ LinesEndRight /\ LineValue /\ FullUnlessEof /\ LineSoFar /\ PlainAtEmpty
  BY DEF Inv, ReadsRight
<1>1. /\ stream \in Seq(Byte) /\ kern \in Seq(Byte) /\ buf \in Seq(Byte)
      /\ got \in Seq(Byte) /\ Held \in Seq(Byte) /\ arrived \in Nat /\ Len(stream) \in Nat
      /\ Len(kern) \in Nat
  BY Pieces
<1>2. arrived + 1 \in 1 .. Len(stream)
  BY <1>1
<1>3. PICK e \in Byte : e = stream[arrived + 1]
  BY <1>1, <1>2, ElementOfSeq
<1>4. kern' = Append(kern, e)
  BY <1>3
<1>5. kern' \in Seq(Byte) /\ Len(kern') = Len(kern) + 1
  BY <1>1, <1>4, AppendProperties
<1>6. TypeOK'
  BY <1>0, <1>1, <1>2, <1>5 DEF TypeOK, Peers
<1>7. StreamIntact'
  <2> SUFFICES ASSUME ~failed
               PROVE  ((got \o Held) \o buf) \o kern' = SubSeq(stream, 1, arrived + 1)
    BY DEF StreamIntact, Held, Reading
  <2>1. ((got \o Held) \o buf) \o kern = SubSeq(stream, 1, arrived)
    BY Pieces
  <2>2. PICK a \in Seq(Byte) : a = (got \o Held) \o buf
    <3>1. got \o Held \in Seq(Byte)
      BY <1>1, ConcatProperties
    <3>2. (got \o Held) \o buf \in Seq(Byte)
      BY <1>1, <3>1, ConcatProperties
    <3> QED BY <3>2
  <2>3. a \o Append(kern, e) = (a \o kern) \o <<e>>
    BY <1>1, AppendLast
  <2>4. SubSeq(stream, 1, arrived + 1) = SubSeq(stream, 1, arrived) \o <<e>>
    <3>1. 1 \in 1 .. Len(stream) /\ arrived + 1 \in 1 .. Len(stream) /\ arrived + 1 - 1 = arrived
      BY <1>1, <1>2
    <3> QED BY <1>1, <1>3, <3>1, SubSeqRecursiveSecond
  <2> QED BY <1>4, <2>1, <2>2, <2>3, <2>4
<1>8. (Shape /\ LinesEndRight /\ LineValue /\ FullUnlessEof /\ LineSoFar /\ PlainAtEmpty)'
  BY <1>0, <1>1, <1>5
     DEF Shape, Reading, LinesEndRight, LineValue, FullUnlessEof, LineSoFar, PlainAtEmpty
<1> QED BY <1>6, <1>7, <1>8 DEF Inv, ReadsRight

\* Steps that leave the bytes and the calls where they are.
LEMMA SocketKeeps ==
    ASSUME Inv, UNCHANGED <<fixed, arrived, kern, buf, call, n, out, count, got, failed, result>>,
           peer' \in Peers, snd' \in 0 .. SndBuf
    PROVE  Inv'
<1>0. TypeOK /\ StreamIntact /\ Shape /\ LinesEndRight /\ LineValue /\ FullUnlessEof /\ LineSoFar /\ PlainAtEmpty
  BY DEF Inv, ReadsRight
<1> USE DEF fixed
<1>1. TypeOK'
  BY <1>0 DEF TypeOK, Peers
<1>2. StreamIntact' /\ Shape' /\ LinesEndRight' /\ LineValue' /\ FullUnlessEof'
  BY <1>0 DEF StreamIntact, Shape, Reading, LinesEndRight, LineValue, FullUnlessEof
<1>3. LineSoFar' /\ PlainAtEmpty'
  BY <1>0 DEF LineSoFar, PlainAtEmpty
<1> QED BY <1>1, <1>2, <1>3 DEF Inv, ReadsRight

LEMMA HangupKeeps == Inv /\ Hangup => Inv'
<1> SUFFICES ASSUME Inv, Hangup PROVE Inv'
  OBVIOUS
<1>1. peer' \in Peers /\ snd' = snd /\ snd \in 0 .. SndBuf
  BY DEF Hangup, reader, Inv, ReadsRight, TypeOK, Peers
<1> QED BY <1>1, SocketKeeps DEF Hangup, reader, fixed

LEMMA BreakKeeps == Inv /\ Break => Inv'
<1> SUFFICES ASSUME Inv, Break PROVE Inv'
  OBVIOUS
<1>1. peer' \in Peers /\ snd' = snd /\ snd \in 0 .. SndBuf
  BY DEF Break, reader, Inv, ReadsRight, TypeOK, Peers
<1> QED BY <1>1, SocketKeeps DEF Break, reader, fixed

LEMMA TakeKeeps == Inv /\ Take => Inv'
<1> SUFFICES ASSUME Inv, Take PROVE Inv'
  OBVIOUS
<1>1. peer' \in Peers /\ snd \in 0 .. SndBuf
  BY DEF Take, Inv, ReadsRight, TypeOK, Peers
<1>2. snd' \in 0 .. SndBuf
  BY <1>1, Sizes DEF Take
<1> QED BY <1>1, <1>2, SocketKeeps DEF Take, fixed

-----------------------------------------------------------------------------
(***************************************************************************)
(* Beginning and ending a call.                                            *)
(***************************************************************************)
LEMMA BeginKeeps ==
    ASSUME Inv, NEW c \in Call, NEW k \in Size, Begin(c, k)
    PROVE  Inv'
<1> USE DEF Begin, fixed
<1>0. TypeOK /\ StreamIntact /\ Shape /\ LinesEndRight /\ LineValue /\ FullUnlessEof
  BY DEF Inv, ReadsRight
<1>1. k \in Nat /\ k >= 1 /\ c \in {"line", "n_b", "n", "write"} /\ << >> \in Seq(Byte)
      /\ Len(<< >>) = 0
  BY Sizes, EmptySeq
<1>2. CASE c = "write"
  <2>1. out' = [i \in 1 .. k |-> i]
    BY <1>2
  <2>2. out' \in Seq(Nat) /\ Len(out') = k
    BY <1>1, <2>1
  <2>3. TypeOK'
    BY <1>0, <1>1, <2>2 DEF TypeOK, Peers
  <2>4. Shape'
    BY <1>0, <1>1, <1>2, <2>2, Sizes DEF Shape, Reading
  <2>5. StreamIntact'
    BY <1>0, <1>2, Sizes DEF StreamIntact
  <2>6. LinesEndRight' /\ LineValue' /\ FullUnlessEof' /\ LineSoFar' /\ PlainAtEmpty'
    BY <1>0, <1>2 DEF LinesEndRight, LineValue, FullUnlessEof, LineSoFar, PlainAtEmpty
  <2> QED BY <2>3, <2>4, <2>5, <2>6 DEF Inv, ReadsRight
<1>3. CASE c # "write"
  <2>1. out' = << >>
    BY <1>3
  <2>3. TypeOK'
    BY <1>0, <1>1, <2>1 DEF TypeOK, Peers
  <2>4. Shape'
    BY <1>0, <1>1, <1>3, <2>1, Sizes DEF Shape, Reading
  <2>5. StreamIntact'
    <3>1. (IF call \in {"line", "n_b", "n"} THEN out ELSE << >>) = << >>
      BY Sizes
    <3>2. (IF call' \in {"line", "n_b", "n"} THEN out' ELSE << >>) = << >>
      BY <2>1
    <3> QED BY <1>0, <3>1, <3>2 DEF StreamIntact
  <2>6. LinesEndRight' /\ LineValue' /\ FullUnlessEof'
    BY <1>0 DEF LinesEndRight, LineValue, FullUnlessEof
  <2>7. LineSoFar' /\ PlainAtEmpty'
    BY <1>0, <1>1, <2>1 DEF LineSoFar, PlainAtEmpty
  <2> QED BY <2>3, <2>4, <2>5, <2>6, <2>7 DEF Inv, ReadsRight
<1> QED BY <1>2, <1>3

\* What a call that returns these bytes must have kept of them.
LEMMA DeliverKeeps ==
    ASSUME Inv, Reading, NEW v \in Int, NEW bytes \in Seq(Byte), NEW e \in BOOLEAN,
           Deliver(v, bytes, e), UNCHANGED <<fixed, arrived, kern, snd>>, peer' \in Peers,
           buf' \in Seq(Byte), Len(buf') <= RIO_BUF_SIZE,
           v >= 0 => bytes \o buf' = out \o buf,
           (call = "line" /\ v > 0) =>
               /\ \A i \in 1 .. Len(bytes) - 1 : bytes[i] # Nl
               /\ bytes # << >> => (bytes[Len(bytes)] # Nl =>
                                       e \/ \E k \in Size : Len(bytes) = k - 1),
           (call = "line" /\ v >= 0) =>
               v = IF bytes # << >> /\ bytes[Len(bytes)] = Nl THEN Len(bytes)
                   ELSE IF bytes = << >> /\ e THEN 0 ELSE Len(bytes) + 1,
           (call \in {"n_b", "n"} /\ v >= 0) => v = Len(bytes) /\ (~e => v \in Size)
    PROVE  Inv'
<1> USE DEF Deliver, Return, fixed
<1>0. TypeOK /\ Shape
  BY DEF Inv, ReadsRight
<1>1. << >> \in Seq(Byte) /\ Len(<< >>) = 0
  BY EmptySeq
<1>2. /\ call' = None /\ n' = 0 /\ out' = << >> /\ count' = 0
      /\ result' = [call |-> call, value |-> v, out |-> bytes, eof |-> e]
      /\ got' = IF v < 0 THEN got ELSE got \o bytes
      /\ failed' = (failed \/ v < 0)
  OBVIOUS
<1>3. got \in Seq(Byte) /\ out \in Seq(Byte) /\ buf \in Seq(Byte) /\ Held = out
  BY <1>0 DEF Shape, Held, Reading
<1>4. TypeOK'
  BY <1>0, <1>1, <1>2 DEF TypeOK, Peers
<1>5. got' \in Seq(Byte)
  BY <1>2, <1>3, ConcatProperties
<1>6. Shape'
  BY <1>0, <1>2, <1>5, Sizes DEF Shape, Reading
<1>7. LineSoFar' /\ PlainAtEmpty'
  BY <1>2, Sizes DEF LineSoFar, PlainAtEmpty
<1>8. LinesEndRight' /\ LineValue' /\ FullUnlessEof'
  BY <1>2 DEF LinesEndRight, LineValue, FullUnlessEof, Last
<1>9. StreamIntact'
  <2>0. (IF call' \in {"line", "n_b", "n"} THEN out' ELSE << >>) = << >>
    BY <1>2
  <2> SUFFICES ASSUME ~failed'
               PROVE  ((got' \o << >>) \o buf') \o kern = SubSeq(stream, 1, arrived)
    BY <2>0 DEF StreamIntact
  <2>5. ~failed /\ v >= 0 /\ got' = got \o bytes
    <3>1. ~failed /\ ~(v < 0)
      BY <1>2, Zenon
    <3> QED BY <1>2, <3>1
  <2>1. ((got \o out) \o buf) \o kern = SubSeq(stream, 1, arrived)
    BY <1>3, <2>5, Pieces
  <2>2. (got \o bytes) \o << >> = got \o bytes
    BY <1>3, EmptyMiddle
  <2>3. (got \o bytes) \o buf' = got \o (bytes \o buf')
    BY <1>3, Regroup, SMTT(60)
  <2>4. (got \o out) \o buf = got \o (out \o buf)
    BY <1>3, Regroup, SMTT(60)
  <2> QED BY <2>1, <2>2, <2>3, <2>4, <2>5
<1> QED BY <1>4, <1>6, <1>7, <1>8, <1>9 DEF Inv, ReadsRight

\* A write hands nothing to the caller.
LEMMA ReturnKeeps ==
    ASSUME Inv, call = "write", NEW v, NEW bytes, NEW e,
           Return(v, bytes, e), UNCHANGED <<fixed, arrived, kern, buf, got, snd, failed>>,
           peer' \in Peers
    PROVE  Inv'
<1> USE DEF Return, fixed
<1>0. TypeOK /\ Shape /\ StreamIntact
  BY DEF Inv, ReadsRight
<1>1. Len(<< >>) = 0
  BY EmptySeq
<1>2. TypeOK'
  BY <1>0, <1>1 DEF TypeOK, Peers
<1>3. Shape' /\ LineSoFar' /\ PlainAtEmpty'
  BY <1>0, Sizes DEF Shape, Reading, LineSoFar, PlainAtEmpty
<1>4. StreamIntact'
  BY <1>0, Sizes DEF StreamIntact
<1>5. LinesEndRight' /\ LineValue' /\ FullUnlessEof'
  BY DEF LinesEndRight, LineValue, FullUnlessEof
<1> QED BY <1>2, <1>3, <1>4, <1>5 DEF Inv, ReadsRight

-----------------------------------------------------------------------------
(***************************************************************************)
(* read(2), and what is copied on from the buffer.                         *)
(***************************************************************************)
LEMMA FillKeeps == Inv /\ Fill => Inv'
<1> SUFFICES ASSUME Inv, Fill PROVE Inv'
  OBVIOUS
<1>a. /\ call \in {"line", "n_b"} /\ buf = << >>
      /\ UNCHANGED <<stream, nonblocking, arrived, peer, call, n, out, count, got, snd, failed, result>>
  BY DEF Fill, Buffered, fixed
<1>0. TypeOK /\ Shape /\ LinesEndRight /\ LineValue /\ FullUnlessEof /\ LineSoFar
  BY DEF Inv, ReadsRight
<1>1. PICK k \in 1 .. RIO_BUF_SIZE :
         /\ k <= Len(kern)
         /\ buf' = SubSeq(kern, 1, k)
         /\ kern' = SubSeq(kern, k + 1, Len(kern))
  BY DEF Fill
<1>2. kern \in Seq(Byte) /\ got \in Seq(Byte) /\ Held \in Seq(Byte) /\ Len(kern) \in Nat
  BY Pieces
<1>3. k \in 0 .. Len(kern) /\ k <= RIO_BUF_SIZE
  BY <1>1, <1>2, Sizes
<1>4. /\ buf' \in Seq(Byte) /\ Len(buf') = k /\ kern' \in Seq(Byte)
      /\ Len(kern') = Len(kern) - k /\ buf' \o kern' = kern
  BY <1>1, <1>2, <1>3, SplitAt
<1>5. TypeOK'
  BY <1>a, <1>0, <1>2, <1>3, <1>4 DEF TypeOK, Peers
<1>6. (Shape /\ LinesEndRight /\ LineValue /\ FullUnlessEof /\ LineSoFar /\ PlainAtEmpty)'
  BY <1>a, <1>0, <1>4 DEF Shape, Reading, LinesEndRight, LineValue, FullUnlessEof, LineSoFar, PlainAtEmpty
<1>7. StreamIntact'
  <2> SUFFICES ASSUME ~failed
               PROVE  Whole(got, Held, buf', kern') = SubSeq(stream, 1, arrived)
    BY <1>a DEF StreamIntact, Held, Reading, Whole
  <2>1. Whole(got, Held, << >>, kern) = SubSeq(stream, 1, arrived)
    BY <1>a, Pieces DEF Whole
  <2>2. Whole(got, Held, << >>, kern) = Whole(got, Held, buf', kern')
    <3>1. got \in Seq(Byte) /\ Held \in Seq(Byte) /\ buf' \in Seq(Byte) /\ kern' \in Seq(Byte)
          /\ Cut(kern, buf', kern')
      BY <1>2, <1>4 DEF Cut
    <3> QED BY <3>1, Filled
  <2> QED BY <2>1, <2>2
<1> QED BY <1>5, <1>6, <1>7 DEF Inv, ReadsRight

\* How many bytes rio_read copies.
LEMMA CopySome ==
    ASSUME Inv, buf # << >>, Len(out) < n
    PROVE  CopyCount \in 1 .. Len(buf) /\ Len(out) + CopyCount <= n
<1>1. Len(buf) \in Nat /\ Len(buf) > 0 /\ Len(out) \in Nat /\ n \in Nat
  BY Pieces
<1> QED BY <1>1 DEF CopyCount

LEMMA CopyNKeeps == Inv /\ CopyN => Inv'
<1> SUFFICES ASSUME Inv, CopyN PROVE Inv'
  OBVIOUS
<1>a. /\ call = "n_b" /\ buf # << >> /\ Len(out) < n
      /\ out' = out \o SubSeq(buf, 1, CopyCount) /\ buf' = Advance(CopyCount)
      /\ UNCHANGED <<stream, nonblocking, arrived, kern, peer, call, n, count, got, snd, failed, result>>
  BY DEF CopyN, fixed
<1>0. TypeOK /\ Shape /\ LinesEndRight /\ LineValue /\ FullUnlessEof
  BY DEF Inv, ReadsRight
<1>1. PICK k \in 1 .. Len(buf) : k = CopyCount /\ Len(out) + k <= n
  BY <1>a, CopySome
<1>2. /\ kern \in Seq(Byte) /\ got \in Seq(Byte) /\ buf \in Seq(Byte) /\ Len(buf) \in Nat
      /\ Len(out) \in Nat /\ n \in Nat
  BY Pieces
<1>3. out \in Seq(Byte) /\ Held = out /\ Held' = out'
  BY <1>a, <1>0 DEF Shape, Reading, Held
<1>4. out' = out \o SubSeq(buf, 1, k) /\ buf' = SubSeq(buf, k + 1, Len(buf))
  BY <1>a, <1>1 DEF Advance
<1> DEFINE x == SubSeq(buf, 1, k)
<1>5. k \in 0 .. Len(buf)
  BY <1>2
<1>6. /\ x \in Seq(Byte) /\ Len(x) = k /\ buf' \in Seq(Byte)
      /\ Len(buf') = Len(buf) - k /\ x \o buf' = buf
  BY <1>2, <1>4, <1>5, SplitAt
<1>7. out' = out \o x
  BY <1>4
<1> HIDE DEF x
<1>8. out' \in Seq(Byte) /\ Len(out') = Len(out) + k
  BY <1>3, <1>6, <1>7, ConcatProperties
<1>9. Len(out') <= n /\ Len(buf') <= RIO_BUF_SIZE
  <2>1. Len(buf) <= RIO_BUF_SIZE
    BY <1>0 DEF TypeOK, Peers
  <2> QED BY <1>1, <1>2, <1>5, <1>6, <1>8, <2>1, Sizes
<1>10. TypeOK'
  BY <1>a, <1>0, <1>9 DEF TypeOK, Peers
<1>11. (Shape /\ LinesEndRight /\ LineValue /\ FullUnlessEof)'
  BY <1>a, <1>0, <1>6, <1>8, Sizes DEF Shape, Reading, LinesEndRight, LineValue, FullUnlessEof
<1>12. LineSoFar' /\ PlainAtEmpty'
  BY <1>a DEF LineSoFar, PlainAtEmpty
<1>13. StreamIntact'
  <2> SUFFICES ASSUME ~failed
               PROVE  Whole(got, out', buf', kern) = SubSeq(stream, 1, arrived)
    BY <1>a, <1>3 DEF StreamIntact, Whole
  <2>1. Whole(got, out, buf, kern) = SubSeq(stream, 1, arrived)
    BY <1>3, Pieces DEF Whole
  <2>2. Whole(got, out, buf, kern) = Whole(got, out', buf', kern)
    <3>1. got \in Seq(Byte) /\ out \in Seq(Byte) /\ x \in Seq(Byte) /\ buf' \in Seq(Byte)
          /\ Cut(buf, x, buf') /\ Cut(out', out, x)
      BY <1>2, <1>3, <1>6, <1>7 DEF Cut
    <3> QED BY <3>1, Copied
  <2> QED BY <2>1, <2>2
<1> QED BY <1>10, <1>11, <1>12, <1>13 DEF Inv, ReadsRight

LEMMA ReadNKeeps == Inv /\ ReadN => Inv'
<1> SUFFICES ASSUME Inv, ReadN PROVE Inv'
  OBVIOUS
<1>a. /\ call = "n" /\ Len(out) < n
      /\ UNCHANGED <<stream, nonblocking, arrived, peer, buf, call, n, count, got, snd, failed, result>>
  BY DEF ReadN, fixed
<1>0. TypeOK /\ Shape /\ LinesEndRight /\ LineValue /\ FullUnlessEof /\ PlainAtEmpty
  BY DEF Inv, ReadsRight
<1>1. PICK k \in 1 .. n - Len(out) :
         /\ k <= Len(kern)
         /\ out' = out \o SubSeq(kern, 1, k)
         /\ kern' = SubSeq(kern, k + 1, Len(kern))
  BY DEF ReadN
<1>2. /\ kern \in Seq(Byte) /\ got \in Seq(Byte) /\ Len(kern) \in Nat
      /\ Len(out) \in Nat /\ n \in Nat
  BY Pieces
<1>3. out \in Seq(Byte) /\ Held = out /\ Held' = out' /\ buf = << >>
  BY <1>a, <1>0 DEF Shape, Reading, Held, PlainAtEmpty
<1> DEFINE x == SubSeq(kern, 1, k)
<1>5. k \in 0 .. Len(kern) /\ Len(out) + k <= n
  BY <1>1, <1>2
<1>6. /\ x \in Seq(Byte) /\ Len(x) = k /\ kern' \in Seq(Byte)
      /\ Len(kern') = Len(kern) - k /\ x \o kern' = kern
  BY <1>1, <1>2, <1>5, SplitAt
<1>7. out' = out \o x
  BY <1>1
<1> HIDE DEF x
<1>8. out' \in Seq(Byte) /\ Len(out') = Len(out) + k
  BY <1>3, <1>6, <1>7, ConcatProperties
<1>9. Len(out') <= n /\ Len(kern') <= arrived
  <2>1. Len(kern) <= arrived /\ arrived \in Nat
    BY <1>0 DEF TypeOK, Peers, Shape
  <2> QED BY <1>2, <1>5, <1>6, <1>8, <2>1
<1>10. TypeOK'
  BY <1>a, <1>0, <1>9 DEF TypeOK, Peers
<1>11. (Shape /\ LinesEndRight /\ LineValue /\ FullUnlessEof)'
  BY <1>a, <1>0, <1>6, <1>8, Sizes DEF Shape, Reading, LinesEndRight, LineValue, FullUnlessEof
<1>12. LineSoFar' /\ PlainAtEmpty'
  BY <1>a, <1>0 DEF LineSoFar, PlainAtEmpty
<1>13. StreamIntact'
  <2> SUFFICES ASSUME ~failed
               PROVE  Whole(got, out', << >>, kern') = SubSeq(stream, 1, arrived)
    BY <1>a, <1>3 DEF StreamIntact, Whole
  <2>1. Whole(got, out, << >>, kern) = SubSeq(stream, 1, arrived)
    BY <1>3, Pieces DEF Whole
  <2>2. Whole(got, out, << >>, kern) = Whole(got, out', << >>, kern')
    <3>1. got \in Seq(Byte) /\ out \in Seq(Byte) /\ x \in Seq(Byte) /\ kern' \in Seq(Byte)
          /\ Cut(kern, x, kern') /\ out' \in Seq(Byte) /\ Cut(out', out, x)
      BY <1>2, <1>3, <1>6, <1>7, <1>8 DEF Cut
    <3> QED BY <3>1, ReadOn
  <2> QED BY <2>1, <2>2
<1> QED BY <1>10, <1>11, <1>12, <1>13 DEF Inv, ReadsRight

-----------------------------------------------------------------------------
(***************************************************************************)
(* rio_read_line_b.                                                        *)
(***************************************************************************)

\* The first byte of a sequence and the rest of it.
LEMMA HeadFirst ==
    ASSUME NEW S, NEW s \in Seq(S), s # << >>
    PROVE  /\ Head(s) \in S /\ <<Head(s)>> \in Seq(S)
           /\ SubSeq(s, 2, Len(s)) \in Seq(S) /\ Len(SubSeq(s, 2, Len(s))) = Len(s) - 1
           /\ <<Head(s)>> \o SubSeq(s, 2, Len(s)) = s
<1>1. Len(s) \in Nat /\ Len(s) > 0
  BY LenProperties, EmptySeq
<1>2. 1 \in 0 .. Len(s) /\ 1 \in 1 .. Len(s) /\ Len(s) \in 1 .. Len(s) /\ 1 + 1 = 2
  BY <1>1
<1>3. SubSeq(s, 2, Len(s)) \in Seq(S) /\ Len(SubSeq(s, 2, Len(s))) = Len(s) - 1
  <2>1. /\ SubSeq(s, 1 + 1, Len(s)) \in Seq(S)
        /\ Len(SubSeq(s, 1 + 1, Len(s))) = Len(s) - 1
    BY <1>2, SplitAt
  <2> QED BY <2>1
<1>4. Head(s) = s[1] /\ s[1] \in S
  BY <1>2, HeadTailProperties, ElementOfSeq
<1>5. SubSeq(s, 1, Len(s)) = << s[1] >> \o SubSeq(s, 1 + 1, Len(s))
  BY <1>2, SubSeqRecursiveFirst
<1>6. SubSeq(s, 1, Len(s)) = s
  BY SubSeqFull
<1>7. <<s[1]>> \in Seq(S)
  BY <1>4
<1> QED BY <1>3, <1>4, <1>5, <1>6, <1>7

\* The line grows by one byte.
LEMMA LineGrows ==
    ASSUME NEW S, NEW s \in Seq(S), NEW e \in S
    PROVE  /\ Append(s, e) \in Seq(S) /\ Len(Append(s, e)) = Len(s) + 1
           /\ Append(s, e) = s \o <<e>> /\ Append(s, e) # << >>
           /\ \A i \in 1 .. Len(s) : Append(s, e)[i] = s[i]
           /\ Append(s, e)[Len(s) + 1] = e
BY AppendProperties, AppendIsConcat

LEMMA LineByteKeeps == Inv /\ LineByte => Inv'
<1> SUFFICES ASSUME Inv, LineByte PROVE Inv'
  OBVIOUS
<1> DEFINE e == Head(buf)
           rest == SubSeq(buf, 2, Len(buf))
<1>a. /\ call = "line" /\ count < n /\ buf # << >>
      /\ UNCHANGED <<stream, nonblocking, arrived, kern, peer, snd>>
  BY DEF LineByte, fixed
<1>b. buf' = rest
  BY DEF LineByte, Advance
<1>c. \/ EndsLine(e) /\ Deliver(count, Append(out, e), FALSE)
      \/ /\ ~EndsLine(e) /\ out' = Append(out, e) /\ count' = count + 1
         /\ UNCHANGED <<call, n, got, failed, result>>
  BY DEF LineByte
<1>0. TypeOK /\ Shape /\ LinesEndRight /\ LineValue /\ FullUnlessEof /\ LineSoFar
  BY DEF Inv, ReadsRight
<1>1. /\ kern \in Seq(Byte) /\ got \in Seq(Byte) /\ buf \in Seq(Byte) /\ Len(buf) \in Nat
      /\ Len(out) \in Nat /\ n \in Nat /\ count \in Nat
  BY Pieces
<1>2. out \in Seq(Byte) /\ Held = out /\ Reading
  BY <1>a, <1>0 DEF Shape, Reading, Held
<1>3. /\ e \in Byte /\ <<e>> \in Seq(Byte) /\ rest \in Seq(Byte) /\ Len(rest) = Len(buf) - 1
      /\ Cut(buf, <<e>>, rest)
  BY <1>a, <1>1, HeadFirst DEF Cut
<1> HIDE DEF e, rest
<1>4. PICK grown \in Seq(Byte) :
        /\ grown = Append(out, e) /\ Len(grown) = Len(out) + 1 /\ grown # << >>
        /\ Cut(grown, out, <<e>>)
        /\ \A i \in 1 .. Len(out) : grown[i] = out[i]
        /\ grown[Len(out) + 1] = e
  BY <1>2, <1>3, LineGrows DEF Cut
<1>5. Len(out) = count - 1 /\ \A i \in 1 .. Len(out) : out[i] # Nl
  BY <1>a, <1>0 DEF LineSoFar
<1>6. Len(grown) = count /\ count >= 1
  BY <1>1, <1>4, <1>5
<1>7. buf' \in Seq(Byte) /\ Len(buf') <= RIO_BUF_SIZE
  <2>1. Len(buf) <= RIO_BUF_SIZE
    BY <1>0 DEF TypeOK, Peers
  <2> QED BY <1>b, <1>1, <1>3, <2>1, Sizes
<1>8. CASE EndsLine(e) /\ Deliver(count, Append(out, e), FALSE)
  <2>1. \A i \in 1 .. Len(grown) - 1 : grown[i] # Nl
    BY <1>1, <1>4, <1>5
  <2>2. grown[Len(grown)] = Nl
    BY <1>4, <1>8 DEF EndsLine
  <2>3. grown \o buf' = out \o buf
    <3>1. (out \o <<e>>) \o rest = out \o (<<e>> \o rest)
      BY <1>2, <1>3, Regroup, SMTT(60)
    <3> QED BY <1>b, <1>3, <1>4, <3>1 DEF Cut
  <2>4. Deliver(count, grown, FALSE)
    BY <1>4, <1>8
  <2>5. ~(call \in {"n_b", "n"}) /\ count = Len(grown)
    BY <1>a, <1>6
  <2>6. UNCHANGED <<fixed, arrived, kern, snd>> /\ peer' \in Peers
    BY <1>a, <1>0 DEF fixed, TypeOK, Peers
  <2>7. count \in Int /\ FALSE \in BOOLEAN
    BY <1>1
  <2> QED BY <1>2, <1>4, <1>7, <2>1, <2>2, <2>3, <2>4, <2>5, <2>6, <2>7, DeliverKeeps
<1>9. CASE /\ ~EndsLine(e) /\ out' = Append(out, e) /\ count' = count + 1
           /\ UNCHANGED <<call, n, got, failed, result>>
  <2>1. out' = grown /\ Held' = grown
    BY <1>a, <1>4, <1>9 DEF Held, Reading
  <2>2. TypeOK'
    <3>1. count' \in 0 .. n' /\ Len(out') <= n'
      BY <1>a, <1>1, <1>6, <1>9, <2>1
    <3> QED BY <1>a, <1>0, <1>7, <1>9, <3>1 DEF TypeOK, Peers
  <2>3. Shape'
    BY <1>a, <1>0, <1>1, <1>7, <1>9, <2>1, Sizes DEF Shape, Reading
  <2>4. LineSoFar'
    <3>1. Len(grown) = count' - 1
      BY <1>1, <1>6, <1>9
    <3>2. e # Nl
      BY <1>9 DEF EndsLine
    <3>3. \A i \in 1 .. Len(grown) : grown[i] # Nl
      BY <1>1, <1>4, <1>5, <3>2
    <3> QED BY <2>1, <3>1, <3>3 DEF LineSoFar
  <2>5. LinesEndRight' /\ LineValue' /\ FullUnlessEof' /\ PlainAtEmpty'
    BY <1>a, <1>0, <1>9 DEF LinesEndRight, LineValue, FullUnlessEof, PlainAtEmpty
  <2>6. StreamIntact'
    <3> SUFFICES ASSUME ~failed
                 PROVE  Whole(got, grown, buf', kern) = SubSeq(stream, 1, arrived)
      BY <1>a, <1>9, <2>1 DEF StreamIntact, Whole
    <3>1. Whole(got, out, buf, kern) = SubSeq(stream, 1, arrived)
      BY <1>2, Pieces DEF Whole
    <3>2. Whole(got, out, buf, kern) = Whole(got, grown, rest, kern)
      <4>1. PICK one \in Seq(Byte) : one = <<e>>
        BY <1>3
      <4>2. /\ got \in Seq(Byte) /\ out \in Seq(Byte) /\ rest \in Seq(Byte)
            /\ Cut(buf, one, rest) /\ Cut(grown, out, one)
        BY <4>1, <1>1, <1>2, <1>3, <1>4
      <4> QED BY <4>2, Copied
    <3> QED BY <1>b, <3>1, <3>2
  <2> QED BY <2>2, <2>3, <2>4, <2>5, <2>6 DEF Inv, ReadsRight
<1> QED BY <1>c, <1>8, <1>9

\* A reading call that returns what it has copied so far.
LEMMA ReturnsAll ==
    ASSUME Inv, Reading, NEW v \in Int, NEW e \in BOOLEAN, Deliver(v, out, e),
           UNCHANGED <<fixed, arrived, kern, buf, snd>>, peer' \in Peers,
           (call = "line" /\ v > 0) => e \/ \E k \in Size : Len(out) = k - 1,
           (call = "line" /\ v >= 0) => v = IF out = << >> /\ e THEN 0 ELSE Len(out) + 1,
           (call \in {"n_b", "n"} /\ v >= 0) => v = Len(out) /\ (~e => v \in Size)
    PROVE  Inv'
<1>0. TypeOK /\ Shape /\ LineSoFar
  BY DEF Inv, ReadsRight
<1>1. out \in Seq(Byte) /\ buf' = buf /\ buf \in Seq(Byte) /\ Len(buf) <= RIO_BUF_SIZE
  BY <1>0 DEF Shape, Reading, TypeOK, Peers
<1>2. Len(out) \in Nat
  BY Pieces
<1>3. call = "line" => \A i \in 1 .. Len(out) - 1 : out[i] # Nl
  BY <1>0, <1>2 DEF LineSoFar
<1>4. UNCHANGED <<fixed, arrived, kern, snd>>
  OBVIOUS
<1>5. out \o buf' = out \o buf
  BY <1>1
<1>6. call = "line" => ~(out # << >> /\ out[Len(out)] = Nl)
  BY <1>0, <1>1, <1>2, EmptySeq DEF LineSoFar
<1> QED BY <1>1, <1>3, <1>4, <1>5, <1>6, DeliverKeeps

LEMMA LineFullKeeps == Inv /\ LineFull => Inv'
<1> SUFFICES ASSUME Inv, LineFull PROVE Inv'
  OBVIOUS
<1>1. count \in 0 .. n /\ n \in Size /\ n \in Nat /\ count \in Int
  <2>1. TypeOK /\ Shape
    BY DEF Inv, ReadsRight
  <2> QED BY <2>1, Sizes, Pieces DEF TypeOK, Peers, Shape, LineFull
<1>2. Len(out) = n - 1
  BY <1>1 DEF LineFull, Inv, LineSoFar
<1>3. Reading /\ call = "line" /\ Deliver(count, out, FALSE)
      /\ UNCHANGED <<fixed, arrived, kern, buf, snd>> /\ peer' \in Peers
  BY DEF LineFull, Reading, Inv, ReadsRight, TypeOK, Peers
<1>4. (\E k \in Size : Len(out) = k - 1) /\ count = Len(out) + 1
  BY <1>1, <1>2 DEF LineFull
<1> QED BY <1>1, <1>3, <1>4, ReturnsAll

LEMMA LineEofKeeps == Inv /\ LineEof => Inv'
<1> SUFFICES ASSUME Inv, LineEof PROVE Inv'
  OBVIOUS
<1> DEFINE v == IF count = 1 THEN 0 ELSE count
<1>1. v \in Int
  BY Pieces
<1>2. Reading /\ call = "line" /\ Deliver(v, out, TRUE)
      /\ UNCHANGED <<fixed, arrived, kern, buf, snd>> /\ peer' \in Peers
  BY DEF LineEof, Reading, Inv, ReadsRight, TypeOK, Peers
<1>3. Len(out) = count - 1 /\ count \in Nat /\ Len(out) \in Nat /\ (out = << >> <=> Len(out) = 0)
  <2>1. out \in Seq(Byte) /\ Len(out) = count - 1
    BY <1>2 DEF Inv, Shape, LineSoFar
  <2> QED BY <2>1, Pieces, EmptySeq
<1>4. v = IF out = << >> THEN 0 ELSE Len(out) + 1
  BY <1>3
<1> HIDE DEF v
<1> QED BY <1>1, <1>2, <1>4, ReturnsAll

LEMMA LineFailsKeeps == Inv /\ (LineFails \/ LineBreaks) => Inv'
<1> SUFFICES ASSUME Inv, NEW v \in {-11, -1}, Reading, Deliver(v, out, FALSE),
                    UNCHANGED <<fixed, arrived, kern, buf, snd>>, peer' \in Peers
             PROVE  Inv'
  BY DEF LineFails, LineBreaks, Reading, Inv, ReadsRight, TypeOK, Peers
<1>1. v \in Int /\ ~(v > 0) /\ ~(v >= 0)
  OBVIOUS
<1> QED BY <1>1, ReturnsAll

\* The same for the two functions that count.
LEMMA ReturnsN ==
    ASSUME Inv, call \in {"n_b", "n"}, NEW v \in Int, NEW e \in BOOLEAN, Deliver(v, out, e),
           UNCHANGED <<fixed, arrived, kern, buf, snd>>, peer' \in Peers,
           v >= 0 => v = Len(out) /\ (~e => v \in Size)
    PROVE  Inv'
<1>1. Reading /\ call # "line"
  BY DEF Reading
<1> QED BY <1>1, ReturnsAll

LEMMA NDoneKeeps == Inv /\ NDone => Inv'
<1> SUFFICES ASSUME Inv, NDone PROVE Inv'
  OBVIOUS
<1> DEFINE v == Len(out)
<1>1. /\ call \in {"n_b", "n"} /\ Deliver(v, out, FALSE)
      /\ UNCHANGED <<fixed, arrived, kern, buf, snd>> /\ peer' \in Peers
  BY DEF NDone, Inv, ReadsRight, TypeOK, Peers
<1>2. Len(out) \in Nat /\ n \in Nat /\ Len(out) <= n /\ n \in Size
  <2>1. TypeOK /\ Shape
    BY DEF Inv, ReadsRight
  <2> QED BY <2>1, Sizes, Pieces DEF NDone, TypeOK, Peers, Shape
<1>3. v \in Int /\ v = Len(out) /\ v \in Size
  BY <1>2 DEF NDone, Enough
<1> HIDE DEF v
<1> QED BY <1>1, <1>3, ReturnsN

LEMMA NEofKeeps == Inv /\ NEof => Inv'
<1> SUFFICES ASSUME Inv, NEof PROVE Inv'
  OBVIOUS
<1>1. /\ call \in {"n_b", "n"} /\ Deliver(Len(out), out, TRUE)
      /\ UNCHANGED <<fixed, arrived, kern, buf, snd>> /\ peer' \in Peers
  BY DEF NEof, Inv, ReadsRight, TypeOK, Peers
<1>2. Len(out) \in Int
  BY Pieces
<1> QED BY <1>1, <1>2, ReturnsN

LEMMA NFailsKeeps == Inv /\ NFails => Inv'
<1> SUFFICES ASSUME Inv, NFails PROVE Inv'
  OBVIOUS
<1> DEFINE v == -1
<1>1. /\ call \in {"n_b", "n"} /\ Deliver(v, out, FALSE)
      /\ UNCHANGED <<fixed, arrived, kern, buf, snd>> /\ peer' \in Peers
  BY DEF NFails, Inv, ReadsRight, TypeOK, Peers
<1>2. v \in Int /\ ~(v >= 0)
  OBVIOUS
<1> HIDE DEF v
<1> QED BY <1>1, <1>2, ReturnsN

-----------------------------------------------------------------------------
(***************************************************************************)
(* Writing.                                                                *)
(***************************************************************************)
LEMMA WriteSomeKeeps == Inv /\ WriteSome => Inv'
<1> SUFFICES ASSUME Inv, WriteSome PROVE Inv'
  OBVIOUS
<1>a. /\ call = "write"
      /\ UNCHANGED <<stream, nonblocking, arrived, kern, peer, buf, call, n, count, got, failed, result>>
  BY DEF WriteSome, fixed
<1>0. TypeOK /\ Shape /\ StreamIntact /\ LinesEndRight /\ LineValue /\ FullUnlessEof
  BY DEF Inv, ReadsRight
<1>1. PICK k \in 1 .. Len(out) :
         snd + k <= SndBuf /\ snd' = snd + k /\ out' = SubSeq(out, k + 1, Len(out))
  BY DEF WriteSome
<1>2. out \in Seq(Nat) /\ Len(out) \in Nat /\ Len(out) <= n /\ n \in Nat
      /\ snd \in Nat
  BY <1>a, <1>0, Pieces DEF Shape, TypeOK, Peers
<1>3. out' \in Seq(Nat) /\ Len(out') = Len(out) - k
  <2>1. k \in 0 .. Len(out)
    BY <1>2
  <2> QED BY <1>1, <1>2, <2>1, SplitAt
<1>4. Len(out') <= n /\ snd' \in 0 .. SndBuf
  BY <1>1, <1>2, <1>3, Sizes
<1>5. TypeOK'
  BY <1>a, <1>0, <1>4 DEF TypeOK, Peers
<1>6. Shape'
  BY <1>a, <1>0, <1>3, Sizes DEF Shape, Reading
<1>7. StreamIntact' /\ LinesEndRight' /\ LineValue' /\ FullUnlessEof' /\ LineSoFar' /\ PlainAtEmpty'
  BY <1>a, <1>0 DEF StreamIntact, LinesEndRight, LineValue, FullUnlessEof, LineSoFar, PlainAtEmpty
<1> QED BY <1>5, <1>6, <1>7 DEF Inv, ReadsRight

LEMMA WriteEndKeeps == Inv /\ (WriteDone \/ WriteFails) => Inv'
BY ReturnKeeps DEF WriteDone, WriteFails, Inv, ReadsRight, TypeOK, Peers

-----------------------------------------------------------------------------
LEMMA InvStep == Inv /\ [Next]_vars => Inv'
<1> SUFFICES ASSUME Inv, [Next]_vars PROVE Inv'
  OBVIOUS
<1>1. CASE Arrive \/ Hangup \/ Break \/ Take
  BY <1>1, ArriveKeeps, HangupKeeps, BreakKeeps, TakeKeeps
<1>2. CASE \E c \in Call, k \in Size : Begin(c, k)
  BY <1>2, BeginKeeps
<1>3. CASE Progress
  BY <1>3, FillKeeps, CopyNKeeps, NDoneKeeps, NEofKeeps, NFailsKeeps, ReadNKeeps,
     LineByteKeeps, LineFullKeeps, LineEofKeeps, LineFailsKeeps, WriteSomeKeeps, WriteEndKeeps
     DEF Progress
<1>4. CASE UNCHANGED vars
  <2>1. UNCHANGED <<fixed, arrived, kern, buf, call, n, out, count, got, failed, result>>
    BY <1>4 DEF vars, fixed, reader
  <2>2. peer' \in Peers /\ snd' \in 0 .. SndBuf
    BY <1>4 DEF vars, reader, Inv, ReadsRight, TypeOK, Peers
  <2> QED BY <2>1, <2>2, SocketKeeps
<1> QED BY <1>1, <1>2, <1>3, <1>4 DEF Next

\* Every answer of rio.c has the next bytes of the stream, whatever calls came before
\* it on the same buffer and until one reports an error: no byte is lost, repeated or moved, a
\* line ends at its newline, a value is the number of bytes, or, for a line without its
\* newline, one more, and a short answer means the end of the file.
THEOREM ReadsAlwaysRight == Spec => []ReadsRight
<1>1. Inv => ReadsRight
  BY DEF Inv
<1> QED BY <1>1, InvInit, InvStep, PTL DEF Spec
=============================================================================
