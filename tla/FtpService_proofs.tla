------------------------- MODULE FtpService_proofs --------------------------
(***************************************************************************)
(* Client and child of the FTP service stay synchronised, for any number   *)
(* of clients, files, words, commands and login attempts, whatever is lost *)
(* or reset.                                                               *)
(*                                                                         *)
(* The invariant tells, for a client and its child that are both alive,    *)
(* the pairs of places they can be at with what is then on its way between *)
(* them (Together); for one whose peer is gone, what it may still find.    *)
(***************************************************************************)
EXTENDS FtpService, TLAPS, SequenceTheorems

-----------------------------------------------------------------------------
(***************************************************************************)
(* The invariant.  C and S are the places of client and child, a and q     *)
(* what either has not received yet, k and s their commands, p whether the *)
(* client logged in, x and y their counters.                               *)
(***************************************************************************)
\* the child carries out a command
Serving == {"ack", "connect", "list", "ls", "retr", "send"}
\* the client waits for the data connection and its first reply; it receives
Connecting == {"accept", "begin"}
Receiving == {"data", "done"}

\* the first reply to command k, unless that cannot be carried out
First(k) == Reply(IF k = LIST THEN "1" ELSE "150")
Secrets == {<< >>} \cup {<<Secret(w)>> : w \in Word}

\* until the verdict
LoggingIn(C, S, a, q) ==
    \/ C = "new" /\ S = "new" /\ a = << >> /\ q = << >>
    \/ C = "welcome" /\ S = "start" /\ a = << >> /\ q = << >>
    \/ C = "welcome" /\ S = "name" /\ a = <<Reply("220")>> /\ q = << >>
    \/ C = "name" /\ S = "name" /\ a = << >> /\ q = << >>
    \/ C = "wait" /\ S = "name" /\ a = << >> /\ q \in Secrets
    \/ C = "wait" /\ S = "pass" /\ a = <<Reply("331")>> /\ q = << >>
    \/ C = "pass" /\ S = "pass" /\ a = << >> /\ q = << >>
    \/ C = "verdict" /\ S = "pass" /\ a = << >> /\ q \in Secrets

\* from the reply 200 to the end of the command
Transferring(C, S, a, q, k) ==
    \/ C = "reply" /\ S = "ack" /\ a = <<Reply("200")>> /\ q = << >>
    \/ C = "open" /\ S = "ack" /\ a = << >> /\ q = << >>
    \/ C \in Connecting /\ S = "ack" /\ a = << >> /\ q = <<Ack>>
    \/ C \in Connecting /\ S = "connect" /\ a = << >> /\ q = << >>
    \/ C \in Connecting /\ S \in {"list", "ls"} /\ k = LIST /\ a = << >> /\ q = << >>
    \/ C \in Connecting /\ S = "retr" /\ k # LIST /\ a = << >> /\ q = << >>
    \/ C \in Connecting /\ S = "send" /\ a = <<First(k)>> /\ q = << >>
    \/ C \in Connecting /\ S = "cmd" /\ a = <<First(k), Reply("226")>> /\ q = << >>
    \/ C \in Connecting /\ S = "cmd" /\ k # LIST /\ k.arg \notin File /\ a = <<Reply("550")>> /\ q = << >>
    \/ C \in Receiving /\ S = "send" /\ a = << >> /\ q = << >>
    \/ C \in Receiving /\ S = "cmd" /\ a = <<Reply("226")>> /\ q = << >>

\* from the verdict 230 on
LoggedIn(C, S, a, q, k, s) ==
    \/ C = "verdict" /\ S = "cmd" /\ a = <<Reply("230")>> /\ q = << >>
    \/ C = "prompt" /\ S = "cmd" /\ a = << >> /\ q = << >>
    \/ C = "reply" /\ S = "cmd" /\ a = << >> /\ q = <<k>>
    \/ C = "reply" /\ S = "cmd" /\ k = QUIT /\ a = <<Reply("221")>> /\ q = << >>
    \/ k # QUIT /\ s = k /\ Transferring(C, S, a, q, k)

\* both are alive: the login, its refusal, or what comes after it
Together(C, S, a, q, k, s, p, x, y) ==
    \/ LoggingIn(C, S, a, q) /\ x = y
    \/ /\ C = "verdict" /\ a = <<Reply("430")>> /\ q = << >> /\ x = y + 1
       /\ S = "name" \/ (S = "cmd" /\ y < 0)
    \/ p /\ LoggedIn(C, S, a, q, k, s)

\* what a client finds whose child has died, ...
ClientLeft(C, a, k) ==
    C # "new" /\ (a = << >> \/ (C \in Connecting /\ a = <<First(k)>>))

\* ... and a child whose client has ended
ChildLeft(S, q, p) ==
    /\ S \in {"name", "pass"} => q \in Secrets
    /\ S = "cmd" => q = << >> \/ (p /\ \E k \in Commands : q = <<k>>)
    /\ S = "ack" => q = << >> \/ q = <<Ack>>
    /\ S \notin {"name", "pass", "cmd", "ack"} => q = << >>
    /\ S \in Serving => p

Pair(C, S, a, q, k, s, p, x, y) ==
    /\ Len(q) <= 1
    /\ C # "gone" /\ S # "gone" => Together(C, S, a, q, k, s, p, x, y)
    /\ C # "gone" /\ S = "gone" => ClientLeft(C, a, k)
    /\ C = "gone" /\ S # "gone" => ChildLeft(S, q, p)

Met(c) == Pair(pc[Cli(c)], pc[Srv(c)], in[Cli(c)], in[Srv(c)], cmd[Cli(c)], cmd[Srv(c)],
               passed[c], count[Cli(c)], count[Srv(c)])

\* types, where the argument needs them
ControlMaps ==
    pc = [e \in End |-> pc[e]] /\ in = [e \in End |-> in[e]] /\ rst = [e \in End |-> rst[e]]

Maps ==
    /\ ControlMaps
    /\ count \in [End -> Int] /\ cmd = [e \in End |-> cmd[e]] /\ passed = [c \in Client |-> passed[c]]

\* a connection is reset only when its other end is gone
ResetKnown(e) == rst[e] \in {"no", "due", "here", "told"} /\ (rst[e] = "no" \/ Gone(Peer(e)))

\* the inductive invariant
SyncInv ==
    /\ Maps
    /\ \A e \in End : ResetKnown(e)
    /\ \A c \in Client : Met(c) /\ cmd[Cli(c)] \in Commands

-----------------------------------------------------------------------------
(***************************************************************************)
(* Ends of connections, and short sequences of messages.                   *)
(***************************************************************************)
\* Clients and children are different ends, and each other's peers.
LEMMA Ends ==
    \A c, d \in Client :
        /\ Cli(c) \in End /\ Srv(c) \in End /\ Cli(c) # Srv(d)
        /\ Peer(Cli(c)) = Srv(c) /\ Peer(Srv(c)) = Cli(c)
        /\ (Cli(c) = Cli(d) <=> c = d) /\ (Srv(c) = Srv(d) <=> c = d)
BY DEF Cli, Srv, End, Peer

\* There are no other ends.
LEMMA EveryEnd == \A e \in End : \E c \in Client : e = Cli(c) \/ e = Srv(c)
BY DEF Cli, Srv, End

\* A sequence of one message, ...
LEMMA One ==
    \A m : /\ <<m>> # << >> /\ Head(<<m>>) = m /\ Tail(<<m>>) = << >>
           /\ Append(<< >>, m) = <<m>> /\ Len(<<m>>) = 1
OBVIOUS

\* ... and of two.
LEMMA Two ==
    \A m, n : /\ <<m, n>> # << >> /\ Head(<<m, n>>) = m /\ Tail(<<m, n>>) = <<n>>
              /\ Append(<<m>>, n) = <<m, n>>
<1> TAKE m, n
<1>1. <<m, n>> # << >> /\ Head(<<m, n>>) = m
  OBVIOUS
<1> DEFINE S == {m, n}
           two == <<m, n>>
           one == <<n>>
           all == Append(<<m>>, n)
           rest == Tail(two)
<1>2. /\ two \in Seq(S) /\ Len(two) = 2 /\ two[1] = m /\ two[2] = n
      /\ one \in Seq(S) /\ Len(one) = 1 /\ one[1] = n
  OBVIOUS
<1>3. all \in Seq(S) /\ Len(all) = 2 /\ all[1] = m /\ all[2] = n
  OBVIOUS
<1>4. rest \in Seq(S) /\ Len(rest) = 1 /\ rest[1] = n
  OBVIOUS
<1> HIDE DEF S, two, one, all, rest
<1>5. all = two
  BY <1>2, <1>3, SeqEqual
<1>6. rest = one
  BY <1>2, <1>4, SeqEqual
<1> QED BY <1>1, <1>5, <1>6 DEF two, one, all, rest

\* The empty sequence.
LEMMA NoneYet == Len(<< >>) = 0 /\ \A m : Append(<< >>, m) = <<m>>
OBVIOUS

\* What is sent to an end that has received everything is the one message there.
LEMMA FirstIn == \A s, q, m : s = << >> /\ q = Append(s, m) => q = <<m>> /\ Len(q) <= 1
<1>1. \A m : Append(<< >>, m) = <<m>> /\ Len(<<m>>) <= 1
  BY One
<1> QED BY <1>1, Zenon

\* One message is the other if their sequences are.
LEMMA OneIs == \A m, n : <<m>> = <<n>> => m = n
OBVIOUS

\* One message is not two.
LEMMA TwoIs == \A l, m, n : <<m>> # <<l, n>>
OBVIOUS

\* Replies differ by their numbers.
LEMMA Replies == \A k, l : /\ Reply(k).kind = k /\ Reply(k).arg = None /\ (Reply(k) = Reply(l) <=> k = l)
BY DEF Reply

-----------------------------------------------------------------------------
(***************************************************************************)
(* What a step does to the control connections.                            *)
(***************************************************************************)

\* a step of c's client or child
Moves(c) ==
    /\ ControlMaps' /\ \A e \in End : ResetKnown(e)'
    /\ \A d \in Client \ {c} : /\ pc'[Cli(d)] = pc[Cli(d)] /\ pc'[Srv(d)] = pc[Srv(d)]
                               /\ in'[Cli(d)] = in[Cli(d)] /\ in'[Srv(d)] = in[Srv(d)]

LoginKept(c) ==
    /\ \A d \in Client \ {c} : /\ count'[Cli(d)] = count[Cli(d)] /\ count'[Srv(d)] = count[Srv(d)]
                               /\ cmd'[Cli(d)] = cmd[Cli(d)] /\ cmd'[Srv(d)] = cmd[Srv(d)]
                               /\ passed'[d] = passed[d]
    /\ count' \in [End -> Int] /\ cmd' = [e \in End |-> cmd'[e]]
    /\ passed' = [d \in Client |-> passed'[d]]

\* A step of one client or child concerns no other client.
LEMMA OthersStay ==
    ASSUME SyncInv, NEW c \in Client, Moves(c), LoginKept(c), Met(c)', cmd'[Cli(c)] \in Commands
    PROVE  SyncInv'
<1>1. Maps' /\ \A e \in End : ResetKnown(e)'
  BY DEF Moves, LoginKept, Maps
<1>2. ASSUME NEW d \in Client PROVE Met(d)' /\ cmd'[Cli(d)] \in Commands
  <2>1. CASE d = c
    BY <2>1
  <2>2. CASE d # c
    BY <2>2 DEF SyncInv, Met, Moves, LoginKept
  <2> QED BY <2>1, <2>2
<1>3. Commands' = Commands
  BY DEF Commands
<1> QED BY <1>1, <1>2, <1>3 DEF SyncInv

\* This holds of steps that change no login and no command.
LEMMA LoginStays ==
    ASSUME SyncInv, NEW c \in Client, UNCHANGED <<count, cmd, passed>>
    PROVE  LoginKept(c) /\ cmd'[Cli(c)] \in Commands
BY DEF SyncInv, Maps, LoginKept

\* A name or a password is at most one message.
LEMMA SecretsAre ==
    /\ << >> \in Secrets /\ \A w \in Word : <<Secret(w)>> \in Secrets
    /\ \A q \in Secrets : Len(q) <= 1 /\ (q # << >> => \E w \in Word : q = <<Secret(w)>>)
<1>1. << >> \in Secrets /\ \A w \in Word : <<Secret(w)>> \in Secrets
  BY DEF Secrets
<1>2. \A q \in Secrets : q # << >> => \E w \in Word : q = <<Secret(w)>>
  BY DEF Secrets
<1>3. \A q : q = << >> \/ (\E w \in Word : q = <<Secret(w)>>) => Len(q) <= 1
  <2>1. Len(<< >>) <= 1 /\ \A m : Len(<<m>>) <= 1
    BY One, NoneYet
  <2> QED BY <2>1, Zenon
<1> QED BY <1>1, <1>2, <1>3

\* recv's -1 is no message.
LEMMA NotError ==
    /\ \A w : Secret(w) # Error
    /\ Ack # Error
    /\ \A k \in Commands : k # Error
    /\ \A k : Reply(k) = Error => k = "error"
BY DEF Secret, Ack, Error, Commands, Reply, LIST, QUIT, RETR

\* no message is taken for recv's -1
LEMMA NoErrorWaits ==
    ASSUME SyncInv, NEW c \in Client
    PROVE  /\ pc[Cli(c)] # "gone" /\ in[Cli(c)] # << >> => Head(in[Cli(c)]) # Error
           /\ pc[Srv(c)] # "gone" /\ in[Srv(c)] # << >> => Head(in[Srv(c)]) # Error
<1>1. Met(c) /\ cmd[Cli(c)] \in Commands
  BY DEF SyncInv
<1>2. ASSUME pc[Cli(c)] # "gone", in[Cli(c)] # << >> PROVE Head(in[Cli(c)]) # Error
  BY <1>1, <1>2, One, Two, NotError DEF Met, Pair, Together, LoggingIn, LoggedIn, Transferring, ClientLeft, First
<1>3. ASSUME pc[Srv(c)] # "gone", in[Srv(c)] # << >> PROVE Head(in[Srv(c)]) # Error
  BY <1>1, <1>3, One, NotError DEF Met, Pair, Together, LoggingIn, LoggedIn, Transferring, ChildLeft, Secrets
<1> QED BY <1>2, <1>3

\* an end receives
LEMMA EndHears ==
    ASSUME SyncInv, NEW c \in Client, NEW e \in {Cli(c), Srv(c)}, NEW m \in Recv(e), NEW l,
           Hear(e, m, l), pc[e] # "gone"
    PROVE  /\ Moves(c) /\ pc'[e] = l /\ pc'[Peer(e)] = pc[Peer(e)] /\ in'[Peer(e)] = in[Peer(e)]
           /\ in[e] = << >> => in'[e] = << >> /\ pc[Peer(e)] = "gone" /\ m \in {Eof, Error}
           /\ in[e] # << >> => in'[e] = Tail(in[e]) /\ m = Head(in[e]) /\ m # Error
<1>1. ControlMaps /\ e \in End /\ Peer(e) \in End /\ Peer(e) # e /\ Peer(Peer(e)) = e
  BY Ends DEF SyncInv, Maps
<1>2. \A x \in End : ResetKnown(x)
  BY DEF SyncInv
<1>3. /\ ControlMaps' /\ pc'[e] = l
      /\ \A x \in End \ {e} : pc'[x] = pc[x] /\ in'[x] = in[x] /\ rst'[x] = rst[x]
      /\ in[e] = << >> => in'[e] = << >> /\ Gone(Peer(e)) /\ m \in {Eof, Error}
      /\ in[e] # << >> => in'[e] = Tail(in[e]) /\ m = Head(in[e])
      /\ rst'[e] = rst[e] \/ (rst'[e] = "told" /\ m = Error)
  BY <1>1 DEF Recv, Took, Told, Hear, Goto, ControlMaps
<1>4. \A x \in End : Peer(x) \in End /\ Peer(Peer(x)) = x
  BY Ends, EveryEnd
<1>5. in[e] # << >> => Head(in[e]) # Error
  BY NoErrorWaits
<1>6. ASSUME NEW x \in End PROVE ResetKnown(x)'
  <2>1. CASE x = e
    <3>1. Gone(Peer(e))' <=> Gone(Peer(e))
      BY <1>1, <1>3 DEF Gone
    <3> QED BY <2>1, <1>2, <1>3, <1>5, <3>1 DEF ResetKnown
  <2>2. CASE x # e
    <3>1. rst'[x] = rst[x] /\ (Gone(Peer(x)) => Gone(Peer(x))')
      BY <2>2, <1>1, <1>3, <1>4 DEF Gone
    <3> QED BY <3>1, <1>2 DEF ResetKnown
  <2> QED BY <2>1, <2>2
<1>7. Moves(c)
  BY <1>3, <1>6, Ends DEF Moves
<1> QED BY <1>1, <1>3, <1>5, <1>7 DEF Gone

\* an end sends, having received or not: Q is what is then still to be received
LEMMA EndSends ==
    ASSUME SyncInv, NEW c \in Client, NEW e \in {Cli(c), Srv(c)}, pc[e] # "gone",
           NEW q, q = [x \in End |-> q[x]], \A x \in End \ {e} : q[x] = in[x],
           NEW r, r = [x \in End |-> r[x]], \A x \in End \ {e} : r[x] = rst[x],
           r[e] = rst[e] \/ (r[e] = "told" /\ Gone(Peer(e))),
           NEW m, NEW l, NEW f, Send(e, q, r, m, l, f)
    PROVE  /\ Moves(c) /\ pc'[Peer(e)] = pc[Peer(e)] /\ in'[e] = q[e]
           /\ pc[Peer(e)] # "gone" => pc'[e] = l /\ in'[Peer(e)] = Append(in[Peer(e)], m)
           /\ pc[Peer(e)] = "gone" => pc'[e] \in {l, f, "gone"} /\ in'[Peer(e)] = in[Peer(e)]
<1>1. ControlMaps /\ e \in End /\ Peer(e) \in End /\ Peer(e) # e /\ Peer(Peer(e)) = e
  BY Ends DEF SyncInv, Maps
<1>2. \A x \in End : ResetKnown(x)
  BY DEF SyncInv
<1>3. /\ pc' = [x \in End |-> pc'[x]] /\ \A x \in End \ {e} : pc'[x] = pc[x]
      /\ pc'[e] \in {l, f, "gone"} /\ (pc[Peer(e)] # "gone" => pc'[e] = l)
  BY <1>1, <1>2 DEF Send, Goto, SigPipe, ControlMaps, ResetKnown, Gone
<1>4. /\ rst' = [x \in End |-> rst'[x]] /\ \A x \in End \ {e} : rst'[x] = rst[x]
      /\ rst'[e] = rst[e] \/ (rst'[e] \in {"due", "told"} /\ Gone(Peer(e)))
  BY <1>1, <1>2 DEF Send, ResetKnown
<1>5. /\ in' = [x \in End |-> in'[x]] /\ \A x \in End \ {e, Peer(e)} : in'[x] = in[x]
      /\ in'[e] = q[e]
      /\ in'[Peer(e)] = IF pc[Peer(e)] = "gone" THEN in[Peer(e)] ELSE Append(in[Peer(e)], m)
  <2>1. CASE pc[Peer(e)] = "gone"
    BY <2>1, <1>1 DEF Send, Gone
  <2>2. CASE pc[Peer(e)] # "gone"
    <3>1. in' = [q EXCEPT ![Peer(e)] = Append(@, m)]
      BY <2>2, <1>1, <1>2 DEF Send, Gone, ResetKnown
    <3> QED BY <3>1, <2>2, <1>1
  <2> QED BY <2>1, <2>2
<1>6. \A x \in End : Peer(x) \in End /\ Peer(Peer(x)) = x
  BY Ends, EveryEnd
<1>7. ASSUME NEW x \in End PROVE ResetKnown(x)'
  <2>1. CASE x = e
    <3>1. Gone(Peer(e))' <=> Gone(Peer(e))
      BY <1>1, <1>3 DEF Gone
    <3> QED BY <2>1, <1>2, <1>4, <3>1 DEF ResetKnown
  <2>2. CASE x # e
    <3>1. rst'[x] = rst[x] /\ (Gone(Peer(x)) => Gone(Peer(x))')
      BY <2>2, <1>1, <1>3, <1>4, <1>6 DEF Gone
    <3> QED BY <3>1, <1>2 DEF ResetKnown
  <2> QED BY <2>1, <2>2
<1>8. Moves(c)
  BY <1>3, <1>4, <1>5, <1>7, Ends DEF Moves, ControlMaps
<1> QED BY <1>1, <1>3, <1>5, <1>8

LEMMA EndSays ==
    ASSUME SyncInv, NEW c \in Client, NEW e \in {Cli(c), Srv(c)}, pc[e] # "gone",
           NEW m, NEW l, NEW f, Send(e, in, rst, m, l, f)
    PROVE  /\ Moves(c) /\ pc'[Peer(e)] = pc[Peer(e)] /\ in'[e] = in[e]
           /\ pc[Peer(e)] # "gone" => pc'[e] = l /\ in'[Peer(e)] = Append(in[Peer(e)], m)
           /\ pc[Peer(e)] = "gone" => pc'[e] \in {l, f, "gone"} /\ in'[Peer(e)] = in[Peer(e)]
<1>1. ControlMaps
  BY DEF SyncInv, Maps
<1> QED BY <1>1, EndSends DEF ControlMaps

LEMMA EndAnswers ==
    ASSUME SyncInv, NEW c \in Client, NEW e \in {Cli(c), Srv(c)}, pc[e] # "gone",
           NEW m \in Recv(e), NEW k, NEW l, Answer(e, m, k, l)
    PROVE  /\ Moves(c) /\ pc'[Peer(e)] = pc[Peer(e)]
           /\ in[e] = << >> => in'[e] = << >> /\ pc[Peer(e)] = "gone" /\ m \in {Eof, Error}
           /\ in[e] # << >> => in'[e] = Tail(in[e]) /\ m = Head(in[e]) /\ m # Error
           /\ pc[Peer(e)] # "gone" => pc'[e] = l /\ in'[Peer(e)] = Append(in[Peer(e)], Reply(k))
           /\ pc[Peer(e)] = "gone" => pc'[e] \in {l, "gone"} /\ in'[Peer(e)] = in[Peer(e)]
<1>1. ControlMaps /\ e \in End
  BY Ends DEF SyncInv, Maps
<1>2. in[e] # << >> => Head(in[e]) # Error
  BY NoErrorWaits
<1>3. /\ in[e] = << >> => Took(e)[e] = << >> /\ pc[Peer(e)] = "gone" /\ m \in {Eof, Error}
      /\ in[e] # << >> => Took(e)[e] = Tail(in[e]) /\ m = Head(in[e]) /\ m # Error
  BY <1>1, <1>2 DEF Recv, Took, Gone, ControlMaps
<1> DEFINE q == Took(e)
           r == Told(e, m)
<1>4. q = [x \in End |-> q[x]] /\ \A x \in End \ {e} : q[x] = in[x]
  BY <1>1 DEF Took, ControlMaps
<1>5. /\ r = [x \in End |-> r[x]] /\ \A x \in End \ {e} : r[x] = rst[x]
      /\ r[e] = rst[e] \/ (r[e] = "told" /\ Gone(Peer(e)))
  BY <1>1, <1>3 DEF Told, ControlMaps, Gone
<1>6. Send(e, q, r, Reply(k), l, l)
  BY DEF Answer
<1> HIDE DEF q, r
<1>7. /\ Moves(c) /\ pc'[Peer(e)] = pc[Peer(e)] /\ in'[e] = q[e]
      /\ pc[Peer(e)] # "gone" => pc'[e] = l /\ in'[Peer(e)] = Append(in[Peer(e)], Reply(k))
      /\ pc[Peer(e)] = "gone" => pc'[e] \in {l, "gone"} /\ in'[Peer(e)] = in[Peer(e)]
  BY <1>4, <1>5, <1>6, EndSends
<1> QED BY <1>3, <1>7 DEF q

LEMMA EndGoes ==
    ASSUME SyncInv, NEW c \in Client, NEW e \in {Cli(c), Srv(c)}, pc[e] # "gone",
           NEW l, Goto(e, l), UNCHANGED control
    PROVE  /\ Moves(c) /\ pc'[Peer(e)] = pc[Peer(e)] /\ in' = in /\ pc'[e] = l
<1>1. ControlMaps /\ e \in End /\ Peer(e) \in End /\ Peer(e) # e /\ Peer(Peer(e)) = e
  BY Ends DEF SyncInv, Maps
<1>2. \A x \in End : ResetKnown(x)
  BY DEF SyncInv
<1>3. /\ ControlMaps' /\ in' = in /\ rst' = rst /\ pc'[e] = l /\ \A x \in End \ {e} : pc'[x] = pc[x]
  BY <1>1 DEF Goto, ControlMaps, control
<1>4. ASSUME NEW x \in End PROVE ResetKnown(x)'
  <2>1. Peer(x) \in End
    BY Ends, EveryEnd
  <2>2. Gone(Peer(x)) => Gone(Peer(x))'
    BY <2>1, <1>3 DEF Gone
  <2> QED BY <2>2, <1>2, <1>3 DEF ResetKnown
<1>5. Moves(c)
  BY <1>3, <1>4, Ends DEF Moves
<1> QED BY <1>1, <1>3, <1>5

-----------------------------------------------------------------------------
(***************************************************************************)
(* Each action keeps both ends of a connection together.                   *)
(***************************************************************************)

\* for a step that changes no login and no command
LEMMA Stays ==
    ASSUME SyncInv, NEW c \in Client, Moves(c), UNCHANGED <<count, cmd, passed>>, Met(c)'
    PROVE  SyncInv'
BY LoginStays, OthersStay

\* what client and child are before the step
LEMMA Before ==
    ASSUME SyncInv, NEW c \in Client
    PROVE  Met(c) /\ cmd[Cli(c)] \in Commands /\ Peer(Cli(c)) = Srv(c) /\ Peer(Srv(c)) = Cli(c)
BY Ends DEF SyncInv

\* The steps of the client: each keeps the invariant.
LEMMA WelcomeMeets ==
    ASSUME SyncInv, NEW c \in Client, Welcome(c)
    PROVE  SyncInv'
<1>1. PICK m \in Recv(Cli(c)) : Hear(Cli(c), m, "name")
  BY DEF Welcome
<1>2. pc[Cli(c)] = "welcome" /\ UNCHANGED <<count, cmd, passed>> /\ Met(c)
  BY Before DEF Welcome, login
<1>3. /\ Moves(c) /\ pc'[Cli(c)] = "name" /\ pc'[Srv(c)] = pc[Srv(c)] /\ in'[Srv(c)] = in[Srv(c)]
      /\ in[Cli(c)] = << >> => in'[Cli(c)] = << >> /\ pc[Srv(c)] = "gone"
      /\ in[Cli(c)] # << >> => in'[Cli(c)] = Tail(in[Cli(c)])
  BY <1>1, <1>2, EndHears, Before
<1>4. Met(c)'
  BY <1>2, <1>3, One DEF Met, Pair, Together, LoggingIn, LoggedIn, Transferring,
    ClientLeft, ChildLeft, Connecting, Receiving
<1> QED BY <1>2, <1>3, <1>4, Stays

LEMMA GiveWordMeets ==
    ASSUME SyncInv, NEW c \in Client, NEW w \in Word,
           GiveWord(c, w, "name", "wait") \/ GiveWord(c, w, "pass", "verdict")
    PROVE  SyncInv'
<1>1. UNCHANGED <<count, cmd, passed>>
  BY DEF GiveWord, login
<1>2. PICK from, to : /\ GiveWord(c, w, from, to) /\ pc[Cli(c)] = from
                      /\ <<from, to>> \in {<<"name", "wait">>, <<"pass", "verdict">>}
  BY DEF GiveWord
<1>3. /\ Moves(c) /\ pc'[Srv(c)] = pc[Srv(c)] /\ in'[Cli(c)] = in[Cli(c)]
      /\ pc[Srv(c)] # "gone" => /\ pc'[Cli(c)] = to
                                /\ in'[Srv(c)] \in {in[Srv(c)], Append(in[Srv(c)], Secret(w))}
      /\ pc[Srv(c)] = "gone" => pc'[Cli(c)] \in {to, "gone"} /\ in'[Srv(c)] = in[Srv(c)]
  <2>1. CASE w = "mute"
    BY <2>1, <1>2, EndGoes, Before DEF GiveWord
  <2>2. CASE w # "mute"
    BY <2>2, <1>2, EndSays, Before DEF GiveWord, Say
  <2> QED BY <2>1, <2>2
<1>4. Met(c)'
  <2>1. CASE pc[Srv(c)] = "gone"
    BY <2>1, <1>1, <1>2, <1>3, Before DEF Met, Pair, ClientLeft, Connecting
  <2>2. CASE pc[Srv(c)] # "gone"
    <3>1. /\ in[Cli(c)] = << >> /\ in[Srv(c)] = << >> /\ count[Cli(c)] = count[Srv(c)]
          /\ pc[Srv(c)] = from
      BY <2>2, <1>2, Before DEF Met, Pair, Together, LoggingIn, LoggedIn, Transferring, Connecting, Receiving
    <3>2. in'[Srv(c)] = << >> \/ in'[Srv(c)] = <<Secret(w)>>
      BY <2>2, <3>1, <1>3, NoneYet
    <3>2a. in'[Srv(c)] \in Secrets /\ Len(in'[Srv(c)]) <= 1
      BY <3>2, SecretsAre
    <3>3. LoggingIn(pc[Cli(c)], pc[Srv(c)], in[Cli(c)], in[Srv(c)])'
      BY <3>1, <3>2a, <2>2, <1>2, <1>3 DEF LoggingIn
    <3> QED BY <2>2, <3>1, <3>2a, <3>3, <1>1, <1>2, <1>3 DEF Met, Pair, Together
  <2> QED BY <2>1, <2>2
<1> QED BY <1>1, <1>3, <1>4, Stays

LEMMA AskPassMeets ==
    ASSUME SyncInv, NEW c \in Client, AskPass(c)
    PROVE  SyncInv'
<1>1. PICK m \in Recv(Cli(c)) : Hear(Cli(c), m, "pass")
  BY DEF AskPass
<1>2. pc[Cli(c)] = "wait" /\ UNCHANGED <<count, cmd, passed>> /\ Met(c)
  BY Before DEF AskPass, login
<1>3. /\ Moves(c) /\ pc'[Cli(c)] = "pass" /\ pc'[Srv(c)] = pc[Srv(c)] /\ in'[Srv(c)] = in[Srv(c)]
      /\ in[Cli(c)] = << >> => in'[Cli(c)] = << >> /\ pc[Srv(c)] = "gone"
      /\ in[Cli(c)] # << >> => in'[Cli(c)] = Tail(in[Cli(c)])
  BY <1>1, <1>2, EndHears, Before
<1>4. Met(c)'
  BY <1>2, <1>3, One DEF Met, Pair, Together, LoggingIn, LoggedIn, Transferring,
    ClientLeft, ChildLeft, Connecting, Receiving
<1> QED BY <1>2, <1>3, <1>4, Stays

LEMMA VerdictMeets ==
    ASSUME SyncInv, NEW c \in Client, Verdict(c)
    PROVE  SyncInv'
<1> DEFINE left == count[Cli(c)] - 1
           To(m) == CASE m.kind = "230" -> "prompt"
                      [] m.kind = "430" /\ left > 0 -> "name"
                      [] OTHER -> "gone"
<1>1. PICK m \in Recv(Cli(c)) :
        /\ Hear(Cli(c), m, To(m))
        /\ count' = [count EXCEPT ![Cli(c)] = IF m.kind = "430" THEN left ELSE @]
  BY DEF Verdict
<1>2. pc[Cli(c)] = "verdict" /\ UNCHANGED <<cmd, passed>> /\ Met(c) /\ cmd[Cli(c)] \in Commands
  BY Before DEF Verdict
<1>3. /\ Cli(c) \in End /\ Srv(c) \in End /\ \A d \in Client : Srv(c) # Cli(d) /\ (Cli(c) = Cli(d) => c = d)
      /\ count \in [End -> Int]
  BY Ends DEF SyncInv, Maps
<1>4. LoginKept(c) /\ count'[Srv(c)] = count[Srv(c)]
      /\ count'[Cli(c)] = IF m.kind = "430" THEN count[Cli(c)] - 1 ELSE count[Cli(c)]
  BY <1>1, <1>2, <1>3, Ends DEF SyncInv, Maps, LoginKept
<1> HIDE DEF To
<1>5. /\ Moves(c) /\ pc'[Cli(c)] = To(m) /\ pc'[Srv(c)] = pc[Srv(c)] /\ in'[Srv(c)] = in[Srv(c)]
      /\ in[Cli(c)] = << >> => in'[Cli(c)] = << >> /\ pc[Srv(c)] = "gone" /\ m \in {Eof, Error}
      /\ in[Cli(c)] # << >> => in'[Cli(c)] = Tail(in[Cli(c)]) /\ m = Head(in[Cli(c)])
  BY <1>1, <1>2, EndHears, Before
<1> USE DEF To
<1>6. Met(c)'
  <2>1. CASE pc[Srv(c)] = "gone"
    BY <2>1, <1>2, <1>5 DEF Met, Pair, ClientLeft, Connecting, Eof, Error
  <2>2. CASE pc[Srv(c)] # "gone"
    <3>1. in[Cli(c)] # << >>
      BY <2>2, <1>5
    <3>2. \/ /\ in[Cli(c)] = <<Reply("430")>> /\ in[Srv(c)] = << >>
             /\ count[Cli(c)] = count[Srv(c)] + 1
             /\ pc[Srv(c)] = "name" \/ (pc[Srv(c)] = "cmd" /\ count[Srv(c)] < 0)
          \/ /\ in[Cli(c)] = <<Reply("230")>> /\ in[Srv(c)] = << >>
             /\ pc[Srv(c)] = "cmd" /\ passed[c]
      BY <3>1, <2>2, <1>2 DEF Met, Pair, Together, LoggingIn, LoggedIn, Transferring, Connecting, Receiving
    <3>3. CASE in[Cli(c)] = <<Reply("430")>>
      <4>1. m = Reply("430") /\ m.kind = "430" /\ in'[Cli(c)] = << >> /\ count[Srv(c)] \in Int
        BY <3>1, <3>3, <1>3, <1>5, One, Replies
      <4>2. /\ in[Srv(c)] = << >> /\ count[Cli(c)] = count[Srv(c)] + 1
            /\ pc[Srv(c)] = "name" \/ (pc[Srv(c)] = "cmd" /\ count[Srv(c)] < 0)
        BY <3>2, <3>3, OneIs, Replies
      <4>3. CASE left > 0
        BY <4>1, <4>2, <4>3, <2>2, <1>4, <1>5, NoneYet DEF Met, Pair, Together, LoggingIn
      <4>4. CASE ~(left > 0)
        <5>1. pc'[Cli(c)] = "gone"
          BY <4>1, <4>4, <1>5
        <5> QED
          BY <5>1, <4>2, <2>2, <1>5, NoneYet, SecretsAre DEF Met, Pair, ChildLeft, Serving
      <4> QED BY <4>3, <4>4
    <3>4. CASE in[Cli(c)] = <<Reply("230")>>
      <4>1. m.kind = "230" /\ in'[Cli(c)] = << >>
        BY <3>1, <3>4, <1>5, One, Replies
      <4>2. in[Srv(c)] = << >> /\ pc[Srv(c)] = "cmd" /\ passed[c]
        BY <3>2, <3>4, OneIs, Replies
      <4>3. pc'[Cli(c)] = "prompt"
        BY <4>1, <1>5
      <4> QED
        BY <4>1, <4>2, <4>3, <2>2, <1>2, <1>5, NoneYet DEF Met, Pair, Together, LoggedIn
    <3> QED BY <3>2, <3>3, <3>4
  <2> QED BY <2>1, <2>2
<1> QED BY <1>2, <1>4, <1>5, <1>6, OthersStay

LEMMA TypeMeets ==
    ASSUME SyncInv, NEW c \in Client, NEW k \in Commands, Type(c, k)
    PROVE  SyncInv'
<1>1. /\ pc[Cli(c)] = "prompt" /\ UNCHANGED <<count, passed>> /\ Met(c)
      /\ cmd' = [cmd EXCEPT ![Cli(c)] = k] /\ Send(Cli(c), in, rst, k, "reply", "gone")
  BY Before DEF Type, Insist, login
<1>2. /\ LoginKept(c) /\ cmd'[Cli(c)] = k /\ cmd'[Srv(c)] = cmd[Srv(c)]
  BY <1>1, Ends DEF SyncInv, Maps, LoginKept
<1>3. /\ Moves(c) /\ pc'[Srv(c)] = pc[Srv(c)] /\ in'[Cli(c)] = in[Cli(c)]
      /\ pc[Srv(c)] # "gone" => pc'[Cli(c)] = "reply" /\ in'[Srv(c)] = Append(in[Srv(c)], k)
      /\ pc[Srv(c)] = "gone" => pc'[Cli(c)] \in {"reply", "gone"} /\ in'[Srv(c)] = in[Srv(c)]
  BY <1>1, EndSays, Before
<1>4. Met(c)'
  <2>1. CASE pc[Srv(c)] = "gone"
    BY <2>1, <1>1, <1>3 DEF Met, Pair, ClientLeft, Connecting
  <2>2. CASE pc[Srv(c)] # "gone"
    <3>1. in[Cli(c)] = << >> /\ in[Srv(c)] = << >> /\ pc[Srv(c)] = "cmd" /\ passed[c]
      BY <2>2, <1>1 DEF Met, Pair, Together, LoggingIn, LoggedIn, Transferring, Connecting, Receiving
    <3>2. in'[Srv(c)] = <<k>> /\ Len(in'[Srv(c)]) <= 1
      BY <2>2, <3>1, <1>3, FirstIn
    <3> QED BY <2>2, <3>1, <3>2, <1>1, <1>2, <1>3 DEF Met, Pair, Together, LoggedIn
  <2> QED BY <2>1, <2>2
<1>5. cmd'[Cli(c)] \in Commands
  BY <1>2
<1> QED BY <1>2, <1>3, <1>4, <1>5, OthersStay

LEMMA GetReplyMeets ==
    ASSUME SyncInv, NEW c \in Client, GetReply(c)
    PROVE  SyncInv'
<1> DEFINE To(m) == CASE m.kind = "221" -> "gone"
                      [] m.kind = "502" -> "prompt"
                      [] OTHER -> "open"
<1>1. PICK m \in Recv(Cli(c)) : Hear(Cli(c), m, To(m))
  BY DEF GetReply
<1>2. /\ pc[Cli(c)] = "reply" /\ UNCHANGED <<count, cmd, passed>> /\ Met(c)
      /\ cmd[Cli(c)] \in Commands
  BY Before DEF GetReply, login
<1> HIDE DEF To
<1>3. /\ Moves(c) /\ pc'[Cli(c)] = To(m) /\ pc'[Srv(c)] = pc[Srv(c)] /\ in'[Srv(c)] = in[Srv(c)]
      /\ in[Cli(c)] = << >> => in'[Cli(c)] = << >> /\ pc[Srv(c)] = "gone"
      /\ in[Cli(c)] # << >> => in'[Cli(c)] = Tail(in[Cli(c)]) /\ m = Head(in[Cli(c)])
  BY <1>1, <1>2, EndHears, Before
<1>4. Met(c)'
  <2>1. CASE pc[Srv(c)] = "gone"
    <3>1. pc'[Cli(c)] # "new" /\ in[Cli(c)] = << >>
      BY <2>1, <1>2, <1>3 DEF To, Met, Pair, ClientLeft, Connecting
    <3> QED BY <2>1, <3>1, <1>2, <1>3 DEF Met, Pair, ClientLeft
  <2>2. CASE pc[Srv(c)] # "gone"
    <3>1. in[Cli(c)] # << >>
      BY <2>2, <1>3
    <3>2. /\ passed[c] /\ in[Srv(c)] = << >>
          /\ \/ pc[Srv(c)] = "cmd" /\ in[Cli(c)] = <<Reply("221")>>
             \/ /\ pc[Srv(c)] = "ack" /\ in[Cli(c)] = <<Reply("200")>>
                /\ cmd[Cli(c)] # QUIT /\ cmd[Srv(c)] = cmd[Cli(c)]
      BY <2>2, <3>1, <1>2 DEF Met, Pair, Together, LoggingIn, LoggedIn, Transferring, Connecting, Receiving
    <3>3. CASE pc[Srv(c)] = "cmd" /\ in[Cli(c)] = <<Reply("221")>>
      <4>1. m.kind = "221"
        BY <3>1, <3>3, <1>3, One, Replies
      <4>2. pc'[Cli(c)] = "gone"
        BY <4>1, <1>3 DEF To
      <4> QED BY <4>2, <3>2, <3>3, <2>2, <1>3, NoneYet DEF Met, Pair, ChildLeft, Serving
    <3>4. CASE pc[Srv(c)] = "ack" /\ in[Cli(c)] = <<Reply("200")>>
      <4>1. m.kind = "200" /\ in'[Cli(c)] = << >>
        BY <3>1, <3>4, <1>3, One, Replies
      <4>2. pc'[Cli(c)] = "open"
        BY <4>1, <1>3 DEF To
      <4>3. cmd[Cli(c)] # QUIT /\ cmd[Srv(c)] = cmd[Cli(c)]
        BY <3>2, <3>4
      <4> QED BY <4>1, <4>2, <4>3, <3>2, <3>4, <2>2, <1>2, <1>3, NoneYet
            DEF Met, Pair, Together, LoggedIn, Transferring
    <3> QED BY <3>2, <3>3, <3>4
  <2> QED BY <2>1, <2>2
<1> QED BY <1>2, <1>3, <1>4, Stays

LEMMA OpenMeets ==
    ASSUME SyncInv, NEW c \in Client, Open(c)
    PROVE  SyncInv'
<1>1. /\ pc[Cli(c)] = "open" /\ UNCHANGED <<count, cmd, passed>> /\ Met(c)
      /\ Send(Cli(c), in, rst, Ack, "accept", "gone")
  BY Before DEF Open, Insist, login
<1>2. /\ Moves(c) /\ pc'[Srv(c)] = pc[Srv(c)] /\ in'[Cli(c)] = in[Cli(c)]
      /\ pc[Srv(c)] # "gone" => pc'[Cli(c)] = "accept" /\ in'[Srv(c)] = Append(in[Srv(c)], Ack)
      /\ pc[Srv(c)] = "gone" => pc'[Cli(c)] \in {"accept", "gone"} /\ in'[Srv(c)] = in[Srv(c)]
  BY <1>1, EndSays, Before
<1>3. Met(c)'
  <2>1. CASE pc[Srv(c)] = "gone"
    BY <2>1, <1>1, <1>2 DEF Met, Pair, ClientLeft, Connecting
  <2>2. CASE pc[Srv(c)] # "gone"
    <3>1. /\ in[Cli(c)] = << >> /\ in[Srv(c)] = << >> /\ pc[Srv(c)] = "ack" /\ passed[c]
          /\ cmd[Cli(c)] # QUIT /\ cmd[Srv(c)] = cmd[Cli(c)]
      BY <2>2, <1>1 DEF Met, Pair, Together, LoggingIn, LoggedIn, Transferring, Connecting, Receiving
    <3>2. in'[Srv(c)] = <<Ack>> /\ Len(in'[Srv(c)]) <= 1
      BY <2>2, <3>1, <1>2, FirstIn
    <3> QED BY <2>2, <3>1, <3>2, <1>1, <1>2 DEF Met, Pair, Together, LoggedIn, Transferring, Connecting
  <2> QED BY <2>1, <2>2
<1> QED BY <1>1, <1>2, <1>3, Stays

\* the client goes on without hearing or saying anything, or ends
LEMMA ClientGoesMeets ==
    ASSUME SyncInv, NEW c \in Client, UNCHANGED <<control, count, cmd, passed>>,
           NEW l, Goto(Cli(c), l), pc[Cli(c)] # "gone",
           <<pc[Cli(c)], l>> \in {<<"accept", "begin">>, <<"data", "done">>} \/ l = "gone"
    PROVE  SyncInv'
<1>1. UNCHANGED <<count, cmd, passed>> /\ Met(c) /\ cmd[Cli(c)] \in Commands
  BY Before
<1>2. Moves(c) /\ pc'[Srv(c)] = pc[Srv(c)] /\ in' = in /\ pc'[Cli(c)] = l
  BY EndGoes, Before
<1>3. Met(c)'
  <2>1. CASE pc[Srv(c)] = "gone"
    BY <2>1, <1>1, <1>2 DEF Met, Pair, ClientLeft, Connecting
  <2>2. CASE pc[Srv(c)] # "gone" /\ l = "gone"
    BY <2>2, <1>1, <1>2, SecretsAre DEF Met, Pair, Together, LoggingIn, LoggedIn, Transferring,
      ChildLeft, Serving
  <2>3. CASE pc[Srv(c)] # "gone" /\ l # "gone"
    BY <2>3, <1>1, <1>2 DEF Met, Pair, Together, LoggingIn, LoggedIn, Transferring,
      Connecting, Receiving
  <2> QED BY <2>1, <2>2, <2>3
<1> QED BY <1>1, <1>2, <1>3, Stays

LEMMA BeginMeets ==
    ASSUME SyncInv, NEW c \in Client, Begin(c)
    PROVE  SyncInv'
<1> DEFINE To(m) == IF Over(cmd[Cli(c)], m) THEN "prompt" ELSE "data"
<1>1. PICK m \in Recv(Cli(c)) : Hear(Cli(c), m, To(m))
  BY DEF Begin
<1>2. pc[Cli(c)] = "begin" /\ UNCHANGED <<count, cmd, passed>> /\ Met(c)
  BY Before DEF Begin, login
<1> HIDE DEF To
<1>3. /\ Moves(c) /\ pc'[Cli(c)] = To(m) /\ pc'[Srv(c)] = pc[Srv(c)] /\ in'[Srv(c)] = in[Srv(c)]
      /\ in[Cli(c)] = << >> => in'[Cli(c)] = << >> /\ pc[Srv(c)] = "gone"
      /\ in[Cli(c)] # << >> => in'[Cli(c)] = Tail(in[Cli(c)]) /\ m = Head(in[Cli(c)])
  BY <1>1, <1>2, EndHears, Before
<1>4. Met(c)'
  <2> DEFINE k == cmd[Cli(c)]
  <2>1. CASE pc[Srv(c)] = "gone"
    <3>1. in'[Cli(c)] = << >>
      BY <2>1, <1>2, <1>3, One DEF Met, Pair, ClientLeft
    <3> QED BY <2>1, <3>1, <1>2, <1>3 DEF Met, Pair, ClientLeft, To
  <2>2. CASE pc[Srv(c)] # "gone"
    <3>1. in[Cli(c)] # << >>
      BY <2>2, <1>3
    <3>2. /\ passed[c] /\ in[Srv(c)] = << >> /\ k # QUIT /\ cmd[Srv(c)] = k
          /\ \/ pc[Srv(c)] = "send" /\ in[Cli(c)] = <<First(k)>>
             \/ pc[Srv(c)] = "cmd" /\ in[Cli(c)] = <<First(k), Reply("226")>>
             \/ pc[Srv(c)] = "cmd" /\ in[Cli(c)] = <<Reply("550")>> /\ k # LIST
      BY <2>2, <3>1, <1>2 DEF Met, Pair, Together, LoggingIn, LoggedIn, Transferring, Connecting, Receiving
    <3>3. ~Over(k, First(k)) /\ (k # LIST => Over(k, Reply("550")))
      BY Replies DEF Over, First
    <3> HIDE DEF k
    <3>4. CASE pc[Srv(c)] = "send" /\ in[Cli(c)] = <<First(k)>>
      <4>1. m = First(k) /\ in'[Cli(c)] = << >>
        BY <3>1, <3>4, <1>3, One
      <4>2. pc'[Cli(c)] = "data"
        BY <4>1, <3>3, <1>3 DEF To, k
      <4> QED BY <4>1, <4>2, <3>2, <3>4, <2>2, <1>2, <1>3, NoneYet
            DEF Met, Pair, Together, LoggedIn, Transferring, Receiving, k
    <3>5. CASE pc[Srv(c)] = "cmd" /\ in[Cli(c)] = <<First(k), Reply("226")>>
      <4>1. m = First(k) /\ in'[Cli(c)] = <<Reply("226")>>
        BY <3>1, <3>5, <1>3, Two
      <4>2. pc'[Cli(c)] = "data"
        BY <4>1, <3>3, <1>3 DEF To, k
      <4> QED BY <4>1, <4>2, <3>2, <3>5, <2>2, <1>2, <1>3, NoneYet
            DEF Met, Pair, Together, LoggedIn, Transferring, Receiving, k
    <3>6. CASE pc[Srv(c)] = "cmd" /\ in[Cli(c)] = <<Reply("550")>> /\ k # LIST
      <4>1. m = Reply("550") /\ in'[Cli(c)] = << >>
        BY <3>1, <3>6, <1>3, One
      <4>2. pc'[Cli(c)] = "prompt"
        BY <4>1, <3>3, <3>6, <1>3 DEF To, k
      <4> QED BY <4>1, <4>2, <3>2, <3>6, <2>2, <1>2, <1>3, NoneYet DEF Met, Pair, Together, LoggedIn
    <3> QED BY <3>2, <3>4, <3>5, <3>6
  <2> QED BY <2>1, <2>2
<1> QED BY <1>2, <1>3, <1>4, Stays

LEMMA DoneMeets ==
    ASSUME SyncInv, NEW c \in Client, Done(c)
    PROVE  SyncInv'
<1>1. PICK m \in Recv(Cli(c)) : Hear(Cli(c), m, "prompt")
  BY DEF Done
<1>2. pc[Cli(c)] = "done" /\ UNCHANGED <<count, cmd, passed>> /\ Met(c)
  BY Before DEF Done, login
<1>3. /\ Moves(c) /\ pc'[Cli(c)] = "prompt" /\ pc'[Srv(c)] = pc[Srv(c)] /\ in'[Srv(c)] = in[Srv(c)]
      /\ in[Cli(c)] = << >> => in'[Cli(c)] = << >> /\ pc[Srv(c)] = "gone"
      /\ in[Cli(c)] # << >> => in'[Cli(c)] = Tail(in[Cli(c)])
  BY <1>1, <1>2, EndHears, Before
<1>4. Met(c)'
  <2>1. CASE pc[Srv(c)] = "gone"
    BY <2>1, <1>2, <1>3 DEF Met, Pair, ClientLeft, Connecting
  <2>2. CASE pc[Srv(c)] # "gone"
    <3>1. in[Cli(c)] # << >>
      BY <2>2, <1>3
    <3>2. /\ passed[c] /\ in[Srv(c)] = << >> /\ pc[Srv(c)] = "cmd" /\ in[Cli(c)] = <<Reply("226")>>
      BY <2>2, <3>1, <1>2 DEF Met, Pair, Together, LoggingIn, LoggedIn, Transferring, Connecting, Receiving
    <3> QED BY <2>2, <3>1, <3>2, <1>2, <1>3, One, NoneYet DEF Met, Pair, Together, LoggedIn
  <2> QED BY <2>1, <2>2
<1> QED BY <1>2, <1>3, <1>4, Stays

\* The user's first step: client and child begin.
LEMMA ConnectMeets ==
    ASSUME SyncInv, NEW c \in Client, Connect(c)
    PROVE  SyncInv'
<1>1. PICK l \in {"start", "gone"} : pc' = [pc EXCEPT ![Cli(c)] = "welcome", ![Srv(c)] = l]
  BY DEF Connect
<1>2. /\ pc[Cli(c)] = "new" /\ UNCHANGED <<count, cmd, passed>> /\ Met(c)
      /\ in' = in /\ rst' = rst
  BY Before DEF Connect, login, control
<1>3. /\ Cli(c) \in End /\ Srv(c) \in End /\ Cli(c) # Srv(c) /\ Peer(Cli(c)) = Srv(c)
      /\ ControlMaps
  BY Ends DEF SyncInv, Maps
<1>4. /\ ControlMaps' /\ pc'[Cli(c)] = "welcome" /\ pc'[Srv(c)] = l
      /\ \A x \in End : x # Cli(c) /\ x # Srv(c) => pc'[x] = pc[x]
  BY <1>1, <1>2, <1>3 DEF ControlMaps
<1>5. ASSUME NEW x \in End PROVE ResetKnown(x)'
  <2>1. ResetKnown(x) /\ Peer(x) \in End
    BY Ends, EveryEnd DEF SyncInv
  <2>2. pc[Srv(c)] # "gone"
    BY <1>2 DEF Met, Pair, ClientLeft
  <2>3. Gone(Peer(x)) => Gone(Peer(x))'
    BY <2>1, <2>2, <1>2, <1>4 DEF Gone
  <2> QED BY <2>1, <2>3, <1>2 DEF ResetKnown
<1>6. Moves(c)
  BY <1>2, <1>4, <1>5, Ends DEF Moves
<1>7. Met(c)'
  <2>1. in[Cli(c)] = << >> /\ in[Srv(c)] = << >> /\ count[Cli(c)] = count[Srv(c)]
    BY <1>2 DEF Met, Pair, ClientLeft, Together, LoggingIn, LoggedIn, Transferring, Connecting, Receiving
  <2> QED BY <2>1, <1>2, <1>4, NoneYet DEF Met, Pair, ClientLeft, Together, LoggingIn
<1> QED BY <1>2, <1>6, <1>7, Stays

\* The steps of the child.
LEMMA StartMeets ==
    ASSUME SyncInv, NEW c \in Client, Start(c)
    PROVE  SyncInv'
<1>1. /\ pc[Srv(c)] = "start" /\ UNCHANGED <<count, cmd, passed>> /\ Met(c)
      /\ Send(Srv(c), in, rst, Reply("220"), "name", "name")
  BY Before DEF Start, Say, login
<1>2. /\ Moves(c) /\ pc'[Cli(c)] = pc[Cli(c)] /\ in'[Srv(c)] = in[Srv(c)]
      /\ pc[Cli(c)] # "gone" => pc'[Srv(c)] = "name" /\ in'[Cli(c)] = Append(in[Cli(c)], Reply("220"))
      /\ pc[Cli(c)] = "gone" => pc'[Srv(c)] \in {"name", "gone"} /\ in'[Cli(c)] = in[Cli(c)]
  BY <1>1, EndSays, Before
<1>3. Met(c)'
  <2>1. CASE pc[Cli(c)] = "gone"
    BY <2>1, <1>1, <1>2, SecretsAre DEF Met, Pair, ChildLeft, Serving
  <2>2. CASE pc[Cli(c)] # "gone"
    <3>1. /\ in[Cli(c)] = << >> /\ in[Srv(c)] = << >> /\ pc[Cli(c)] = "welcome"
          /\ count[Cli(c)] = count[Srv(c)]
      BY <2>2, <1>1 DEF Met, Pair, Together, LoggingIn, LoggedIn, Transferring
    <3>2. in'[Cli(c)] = <<Reply("220")>>
      BY <2>2, <3>1, <1>2, FirstIn
    <3> QED BY <2>2, <3>1, <3>2, <1>1, <1>2 DEF Met, Pair, Together, LoggingIn
  <2> QED BY <2>1, <2>2
<1> QED BY <1>1, <1>2, <1>3, Stays

LEMMA LoginFailsMeets ==
    ASSUME SyncInv, NEW c \in Client, LoginFails(c)
    PROVE  SyncInv'
<1>1. Error \in Recv(Srv(c)) /\ Hear(Srv(c), Error, "gone")
  BY DEF LoginFails
<1>2. pc[Srv(c)] \in {"name", "pass"} /\ UNCHANGED <<count, cmd, passed>> /\ Met(c)
  BY Before DEF LoginFails, login
<1>3. /\ Moves(c) /\ pc'[Srv(c)] = "gone" /\ pc'[Cli(c)] = pc[Cli(c)] /\ pc[Cli(c)] = "gone"
      /\ in'[Srv(c)] = << >>
  BY <1>1, <1>2, EndHears, Before
<1>4. Met(c)'
  BY <1>3, NoneYet DEF Met, Pair
<1> QED BY <1>2, <1>3, <1>4, Stays

\* At most one message waits for the child: when it is received, none is left.
LEMMA Shorter ==
    ASSUME SyncInv, NEW c \in Client, in[Srv(c)] # << >>, pc[Srv(c)] # "gone"
    PROVE  Tail(in[Srv(c)]) = << >>
<1>1. Met(c) /\ cmd[Cli(c)] \in Commands
  BY Before
<1>2. \E m : in[Srv(c)] = <<m>>
  BY <1>1, SecretsAre DEF Met, Pair, Together, LoggingIn, LoggedIn, Transferring, ChildLeft
<1> QED BY <1>2, One

LEMMA NameMeets ==
    ASSUME SyncInv, NEW c \in Client, Name(c)
    PROVE  SyncInv'
<1>1. PICK m \in Recv(Srv(c)) : m # Error /\ Answer(Srv(c), m, "331", "pass")
  BY DEF Name
<1>2. pc[Srv(c)] = "name" /\ UNCHANGED <<count, cmd, passed>> /\ Met(c)
  BY Before DEF Name
<1>3. /\ Moves(c) /\ pc'[Cli(c)] = pc[Cli(c)]
      /\ in[Srv(c)] = << >> => in'[Srv(c)] = << >> /\ pc[Cli(c)] = "gone"
      /\ in[Srv(c)] # << >> => in'[Srv(c)] = Tail(in[Srv(c)])
      /\ pc[Cli(c)] # "gone" => pc'[Srv(c)] = "pass" /\ in'[Cli(c)] = Append(in[Cli(c)], Reply("331"))
      /\ pc[Cli(c)] = "gone" => pc'[Srv(c)] \in {"pass", "gone"} /\ in'[Cli(c)] = in[Cli(c)]
  BY <1>1, <1>2, EndAnswers, Before
<1>4. in'[Srv(c)] = << >>
  BY <1>2, <1>3, Shorter
<1>5. Met(c)'
  <2>1. CASE pc[Cli(c)] = "gone"
    BY <2>1, <1>3, <1>4, SecretsAre, NoneYet DEF Met, Pair, ChildLeft, Serving
  <2>2. CASE pc[Cli(c)] # "gone"
    <3>1. in[Cli(c)] = << >> /\ pc[Cli(c)] = "wait" /\ count[Cli(c)] = count[Srv(c)]
      BY <2>2, <1>2, <1>3 DEF Met, Pair, Together, LoggingIn, LoggedIn, Transferring
    <3>2. in'[Cli(c)] = <<Reply("331")>>
      BY <2>2, <3>1, <1>3, FirstIn
    <3> QED BY <2>2, <3>1, <3>2, <1>2, <1>3, <1>4, NoneYet DEF Met, Pair, Together, LoggingIn
  <2> QED BY <2>1, <2>2
<1> QED BY <1>2, <1>3, <1>5, Stays

LEMMA PassMeets ==
    ASSUME SyncInv, NEW c \in Client, Pass(c)
    PROVE  SyncInv'
<1> DEFINE left == count[Srv(c)] - 1
           To(ok) == IF ok \/ ~TriesLeft(left) THEN "cmd" ELSE "name"
           Says(ok) == IF ok THEN "230" ELSE "430"
<1>1. PICK m \in Recv(Srv(c)), ok \in BOOLEAN :
        /\ passed' = [passed EXCEPT ![c] = ok]
        /\ count' = [count EXCEPT ![Srv(c)] = IF ok THEN @ ELSE left]
        /\ Answer(Srv(c), m, Says(ok), To(ok))
  <2>1. PICK m \in Recv(Srv(c)), as \in UNION {Meant(x, PassFront) : x \in Recv(Srv(c))} :
          LET ok == Accepts(named[c], as) IN
          /\ passed' = [passed EXCEPT ![c] = named[c] \cap as # {}]
          /\ count' = [count EXCEPT ![Srv(c)] = IF ok THEN @ ELSE left]
          /\ IF ok THEN Answer(Srv(c), m, "230", "cmd")
             ELSE Answer(Srv(c), m, "430", IF TriesLeft(left) THEN "name" ELSE "cmd")
    BY DEF Pass
  <2>2. CASE named[c] \cap as # {}
    <3>1. (named[c] \cap as # {}) = TRUE /\ Accepts(named[c], as)
      BY <2>2 DEF Accepts
    <3> QED BY <2>1, <3>1
  <2>3. CASE named[c] \cap as = {}
    <3>1. (named[c] \cap as # {}) = FALSE /\ ~Accepts(named[c], as)
      BY <2>3 DEF Accepts
    <3> QED BY <2>1, <3>1
  <2> QED BY <2>2, <2>3
<1>2. pc[Srv(c)] = "pass" /\ UNCHANGED cmd /\ Met(c) /\ cmd[Cli(c)] \in Commands
  BY Before DEF Pass
<1> HIDE DEF To, Says
<1>3. passed'[c] <=> ok
  BY <1>1 DEF SyncInv, Maps
<1>4. /\ LoginKept(c) /\ count'[Cli(c)] = count[Cli(c)]
      /\ count'[Srv(c)] = IF ok THEN count[Srv(c)] ELSE left
      /\ count[Srv(c)] \in Int
  BY <1>1, <1>2, Ends DEF SyncInv, Maps, LoginKept
<1>5. /\ Moves(c) /\ pc'[Cli(c)] = pc[Cli(c)]
      /\ in[Srv(c)] = << >> => in'[Srv(c)] = << >> /\ pc[Cli(c)] = "gone"
      /\ in[Srv(c)] # << >> => in'[Srv(c)] = Tail(in[Srv(c)])
      /\ pc[Cli(c)] # "gone" => /\ pc'[Srv(c)] = To(ok)
                                /\ in'[Cli(c)] = Append(in[Cli(c)], Reply(Says(ok)))
      /\ pc[Cli(c)] = "gone" => /\ pc'[Srv(c)] \in {To(ok), "gone"}
                                /\ in'[Cli(c)] = in[Cli(c)]
  BY <1>1, <1>2, EndAnswers, Before
<1>6. in'[Srv(c)] = << >>
  BY <1>2, <1>5, Shorter
<1>7. Met(c)'
  <2>1. CASE pc[Cli(c)] = "gone"
    BY <2>1, <1>5, <1>6, SecretsAre, NoneYet DEF Met, Pair, ChildLeft, Serving, To
  <2>2. CASE pc[Cli(c)] # "gone"
    <3>1. in[Cli(c)] = << >> /\ pc[Cli(c)] = "verdict" /\ count[Cli(c)] = count[Srv(c)]
      BY <2>2, <1>2, <1>5 DEF Met, Pair, Together, LoggingIn, LoggedIn, Transferring
    <3>2. in'[Cli(c)] = <<Reply(Says(ok))>>
      BY <2>2, <3>1, <1>5, FirstIn
    <3>3. CASE ok
      <4>1. pc'[Srv(c)] = "cmd" /\ in'[Cli(c)] = <<Reply("230")>>
        BY <3>2, <3>3, <2>2, <1>5 DEF To, Says
      <4> QED BY <4>1, <3>1, <3>3, <2>2, <1>3, <1>5, <1>6, NoneYet DEF Met, Pair, Together, LoggedIn
    <3>4. CASE ~ok
      <4>1. /\ pc'[Srv(c)] = IF left >= 0 THEN "name" ELSE "cmd"
            /\ in'[Cli(c)] = <<Reply("430")>> /\ count'[Srv(c)] = left
        BY <3>2, <3>4, <2>2, <1>4, <1>5 DEF To, Says, TriesLeft
      <4> QED BY <4>1, <3>1, <2>2, <1>4, <1>5, <1>6, NoneYet DEF Met, Pair, Together
    <3> QED BY <3>3, <3>4
  <2> QED BY <2>1, <2>2
<1> QED BY <1>2, <1>4, <1>5, <1>7, OthersStay

LEMMA CommandMeets ==
    ASSUME SyncInv, NEW c \in Client, Command(c)
    PROVE  SyncInv'
<1>1. PICK m \in Recv(Srv(c)) :
         CASE m = Error ->
                Hear(Srv(c), m, "cmd") /\ UNCHANGED cmd
           [] m = QUIT ->
                Answer(Srv(c), m, "221", "cmd") /\ UNCHANGED cmd
           [] m.kind \in {"LIST", "RETR"} ->
                /\ Answer(Srv(c), m, "200", "ack")
                /\ cmd' = [cmd EXCEPT ![Srv(c)] = m]
           [] OTHER ->
                Answer(Srv(c), m, "502", "cmd") /\ UNCHANGED cmd
  BY DEF Command
<1>2. pc[Srv(c)] = "cmd" /\ UNCHANGED <<count, passed>> /\ Met(c) /\ cmd[Cli(c)] \in Commands
  BY Before DEF Command, login
<1>3. \A k \in Commands : k # Error /\ (k = QUIT \/ k.kind \in {"LIST", "RETR"})
  BY NotError DEF Commands, LIST, RETR
<1>4. /\ QUIT # Error /\ QUIT.kind \notin {"LIST", "RETR"}
      /\ Error.kind \notin {"LIST", "RETR"}
  BY DEF QUIT, Error
<1>5. CASE m = Error
  <2>1. Hear(Srv(c), m, "cmd") /\ UNCHANGED cmd
    BY <1>1, <1>4, <1>5
  <2>2. /\ Moves(c) /\ pc'[Srv(c)] = "cmd" /\ pc'[Cli(c)] = pc[Cli(c)] /\ pc[Cli(c)] = "gone"
        /\ in'[Srv(c)] = << >>
    BY <2>1, <1>2, <1>5, EndHears, Before
  <2>3. Met(c)'
    BY <2>2, NoneYet DEF Met, Pair, ChildLeft, Serving
  <2> QED BY <2>1, <2>2, <2>3, <1>2, Stays
<1>6. ASSUME NEW k, NEW l, Answer(Srv(c), m, k, l), UNCHANGED cmd \/ cmd' = [cmd EXCEPT ![Srv(c)] = m],
             m # Error, <<k, l>> \in {<<"221", "cmd">>, <<"200", "ack">>, <<"502", "cmd">>},
             m = QUIT => k = "221", m.kind \in {"LIST", "RETR"} => k = "200" /\ cmd'[Srv(c)] = m,
             k = "200" => m.kind \in {"LIST", "RETR"}, k = "221" => m = QUIT
      PROVE  SyncInv'
  <2>1. LoginKept(c) /\ cmd'[Cli(c)] = cmd[Cli(c)]
    BY <1>2, <1>6, Ends DEF SyncInv, Maps, LoginKept
  <2>2. /\ Moves(c) /\ pc'[Cli(c)] = pc[Cli(c)]
        /\ in[Srv(c)] = << >> => in'[Srv(c)] = << >> /\ pc[Cli(c)] = "gone" /\ m = Eof
        /\ in[Srv(c)] # << >> => in'[Srv(c)] = Tail(in[Srv(c)]) /\ m = Head(in[Srv(c)])
        /\ pc[Cli(c)] # "gone" => pc'[Srv(c)] = l /\ in'[Cli(c)] = Append(in[Cli(c)], Reply(k))
        /\ pc[Cli(c)] = "gone" => pc'[Srv(c)] \in {l, "gone"} /\ in'[Cli(c)] = in[Cli(c)]
    BY <1>2, <1>6, EndAnswers, Before
  <2>3. in'[Srv(c)] = << >>
    BY <1>2, <2>2, Shorter
  <2>4. Met(c)'
    <3>1. CASE pc[Cli(c)] = "gone"
      <4>1. k = "200" => passed[c]
        <5>1. in[Srv(c)] = << >> => m.kind = "eof"
          BY <2>2 DEF Eof
        <5> QED BY <5>1, <3>1, <1>2, <1>6 DEF Met, Pair, ChildLeft
      <4>2. l = "cmd" \/ (l = "ack" /\ passed[c])
        BY <4>1, <1>6
      <4>3. pc'[Srv(c)] \in {"cmd", "ack", "gone"} /\ (pc'[Srv(c)] = "ack" => passed[c])
        BY <4>2, <3>1, <2>2
      <4> QED BY <4>3, <3>1, <1>2, <2>2, <2>3, NoneYet DEF Met, Pair, ChildLeft, Serving
    <3>2. CASE pc[Cli(c)] # "gone"
      <4>1. in[Cli(c)] = << >> /\ pc[Cli(c)] = "reply" /\ passed[c] /\ in[Srv(c)] = <<cmd[Cli(c)]>>
        BY <3>2, <1>2, <2>2 DEF Met, Pair, Together, LoggingIn, LoggedIn, Transferring
      <4>2. m = cmd[Cli(c)] /\ in'[Cli(c)] = <<Reply(k)>>
        BY <3>2, <4>1, <2>2, FirstIn, One
      <4>3. CASE m = QUIT
        <5>1. k = "221" /\ l = "cmd" /\ cmd[Cli(c)] = QUIT
          BY <4>2, <4>3, <1>6
        <5> QED BY <4>1, <4>2, <5>1, <3>2, <1>2, <2>1, <2>2, <2>3, NoneYet DEF Met, Pair, Together, LoggedIn
      <4>4. CASE m # QUIT
        <5>1. m.kind \in {"LIST", "RETR"} /\ k = "200" /\ l = "ack" /\ cmd'[Srv(c)] = m
          BY <4>2, <4>4, <1>2, <1>3, <1>6
        <5> QED BY <4>1, <4>2, <4>4, <5>1, <3>2, <1>2, <2>1, <2>2, <2>3, NoneYet
              DEF Met, Pair, Together, LoggedIn, Transferring
      <4> QED BY <4>3, <4>4
    <3> QED BY <3>1, <3>2
  <2> QED BY <1>2, <2>1, <2>2, <2>4, OthersStay
<1>7. CASE m = QUIT
  <2>1. Answer(Srv(c), m, "221", "cmd") /\ UNCHANGED cmd
    BY <1>1, <1>4, <1>7
  <2> QED BY <2>1, <1>4, <1>7, <1>6
<1>8. CASE m # Error /\ m # QUIT /\ m.kind \in {"LIST", "RETR"}
  <2>1. Answer(Srv(c), m, "200", "ack") /\ cmd' = [cmd EXCEPT ![Srv(c)] = m]
    BY <1>1, <1>8
  <2>2. cmd'[Srv(c)] = m
    BY <2>1, Ends DEF SyncInv, Maps
  <2> QED BY <2>1, <2>2, <1>8, <1>6
<1>9. CASE m # Error /\ m # QUIT /\ m.kind \notin {"LIST", "RETR"}
  <2>1. Answer(Srv(c), m, "502", "cmd") /\ UNCHANGED cmd
    BY <1>1, <1>9
  <2> QED BY <2>1, <1>9, <1>6
<1> QED BY <1>5, <1>7, <1>8, <1>9

LEMMA GetAckMeets ==
    ASSUME SyncInv, NEW c \in Client, GetAck(c)
    PROVE  SyncInv'
<1> DEFINE To(m) == IF m = Error THEN "gone" ELSE "connect"
<1>1. PICK m \in Recv(Srv(c)) : Hear(Srv(c), m, To(m))
  BY DEF GetAck
<1>2. pc[Srv(c)] = "ack" /\ UNCHANGED <<count, cmd, passed>> /\ Met(c) /\ cmd[Cli(c)] \in Commands
  BY Before DEF GetAck, login
<1> HIDE DEF To
<1>3. /\ Moves(c) /\ pc'[Srv(c)] = To(m) /\ pc'[Cli(c)] = pc[Cli(c)] /\ in'[Cli(c)] = in[Cli(c)]
      /\ in[Srv(c)] = << >> => in'[Srv(c)] = << >> /\ pc[Cli(c)] = "gone"
      /\ in[Srv(c)] # << >> => in'[Srv(c)] = Tail(in[Srv(c)]) /\ m # Error
  BY <1>1, <1>2, EndHears, Before
<1>4. in'[Srv(c)] = << >>
  BY <1>2, <1>3, Shorter
<1>5. Met(c)'
  <2>1. CASE pc[Cli(c)] = "gone"
    BY <2>1, <1>2, <1>3, <1>4, NoneYet DEF Met, Pair, ChildLeft, Serving, To
  <2>2. CASE pc[Cli(c)] # "gone"
    <3>1. in[Srv(c)] # << >> /\ pc'[Srv(c)] = "connect"
      BY <2>2, <1>3 DEF To
    <3>2. /\ in[Cli(c)] = << >> /\ pc[Cli(c)] \in Connecting /\ passed[c]
          /\ cmd[Cli(c)] # QUIT /\ cmd[Srv(c)] = cmd[Cli(c)]
      BY <2>2, <3>1, <1>2 DEF Met, Pair, Together, LoggingIn, LoggedIn, Transferring
    <3> QED BY <2>2, <3>1, <3>2, <1>2, <1>3, <1>4, NoneYet DEF Met, Pair, Together, LoggedIn, Transferring
  <2> QED BY <2>1, <2>2
<1> QED BY <1>2, <1>3, <1>5, Stays

\* the child goes on without hearing or saying anything, or ends
LEMMA ChildGoesMeets ==
    ASSUME SyncInv, NEW c \in Client, UNCHANGED <<control, count, cmd, passed>>,
           NEW l, Goto(Srv(c), l), pc[Srv(c)] \in {"connect", "list", "send"},
           \/ pc[Srv(c)] = "connect" /\ l = IF cmd[Srv(c)] = LIST THEN "list" ELSE "retr"
           \/ pc[Srv(c)] = "list" /\ l = "ls"
           \/ l = "gone"
    PROVE  SyncInv'
<1>1. UNCHANGED <<count, cmd, passed>> /\ Met(c) /\ cmd[Cli(c)] \in Commands
  BY Before
<1>2. Moves(c) /\ pc'[Cli(c)] = pc[Cli(c)] /\ in' = in /\ pc'[Srv(c)] = l
  BY EndGoes, Before
<1>3. Met(c)'
  <2>1. CASE pc[Cli(c)] = "gone"
    BY <2>1, <1>1, <1>2 DEF Met, Pair, ChildLeft, Serving
  <2>2. CASE pc[Cli(c)] # "gone" /\ l = "gone"
    BY <2>2, <1>1, <1>2 DEF Met, Pair, Together, LoggingIn, LoggedIn, Transferring,
      ClientLeft, Connecting, Receiving
  <2>3. CASE pc[Cli(c)] # "gone" /\ l # "gone"
    BY <2>3, <1>1, <1>2 DEF Met, Pair, Together, LoggingIn, LoggedIn, Transferring
  <2> QED BY <2>1, <2>2, <2>3
<1> QED BY <1>1, <1>2, <1>3, Stays

\* What the child says and where it goes fit the client's command: so they stay together.
LEMMA ChildSays ==
    ASSUME SyncInv, NEW c \in Client, UNCHANGED <<count, cmd, passed>>,
           pc[Srv(c)] \in {"ls", "retr", "send"}, NEW r, NEW l \in {"send", "cmd"},
           Say(Srv(c), Reply(r), l),
           ASSUME pc[Cli(c)] # "gone", passed[c], pc[Cli(c)] \in Connecting \cup Receiving,
                  cmd[Srv(c)] = cmd[Cli(c)]
           PROVE  Transferring(pc[Cli(c)], l, Append(in[Cli(c)], Reply(r)), << >>, cmd[Cli(c)])
    PROVE  SyncInv'
<1>1. UNCHANGED <<count, cmd, passed>> /\ Met(c) /\ Send(Srv(c), in, rst, Reply(r), l, l)
  BY Before DEF Say
<1>2. /\ Moves(c) /\ pc'[Cli(c)] = pc[Cli(c)] /\ in'[Srv(c)] = in[Srv(c)]
      /\ pc[Cli(c)] # "gone" => pc'[Srv(c)] = l /\ in'[Cli(c)] = Append(in[Cli(c)], Reply(r))
      /\ pc[Cli(c)] = "gone" => pc'[Srv(c)] \in {l, "gone"} /\ in'[Cli(c)] = in[Cli(c)]
  BY <1>1, EndSays, Before
<1>3. Met(c)'
  <2>1. CASE pc[Cli(c)] = "gone"
    BY <2>1, <1>1, <1>2 DEF Met, Pair, ChildLeft, Serving
  <2>2. CASE pc[Cli(c)] # "gone"
    <3>1. /\ passed[c] /\ pc[Cli(c)] \in Connecting \cup Receiving /\ in[Srv(c)] = << >>
          /\ cmd[Cli(c)] # QUIT /\ cmd[Srv(c)] = cmd[Cli(c)]
      BY <2>2, <1>1 DEF Met, Pair, Together, LoggingIn, LoggedIn, Transferring
    <3>2. Transferring(pc[Cli(c)], l, Append(in[Cli(c)], Reply(r)), << >>, cmd[Cli(c)])
      BY <2>2, <3>1
    <3> QED BY <2>2, <3>1, <3>2, <1>1, <1>2, NoneYet DEF Met, Pair, Together, LoggedIn
  <2> QED BY <2>1, <2>2
<1> QED BY <1>1, <1>2, <1>3, Stays

LEMMA LsDoneMeets ==
    ASSUME SyncInv, NEW c \in Client, LsDone(c)
    PROVE  SyncInv'
<1>1. pc[Srv(c)] = "ls" /\ UNCHANGED <<count, cmd, passed>> /\ Say(Srv(c), Reply("1"), "send") /\ Met(c)
  BY Before DEF LsDone, login
<1>2. ASSUME pc[Cli(c)] # "gone", pc[Cli(c)] \in Connecting \cup Receiving
      PROVE  Transferring(pc[Cli(c)], "send", Append(in[Cli(c)], Reply("1")), << >>, cmd[Cli(c)])
  <2>1. in[Cli(c)] = << >> /\ pc[Cli(c)] \in Connecting /\ cmd[Cli(c)] = LIST
    BY <1>1, <1>2 DEF Met, Pair, Together, LoggingIn, LoggedIn, Transferring
  <2>2. Append(in[Cli(c)], Reply("1")) = <<First(cmd[Cli(c)])>>
    BY <2>1, One DEF First
  <2> QED BY <2>1, <2>2 DEF Transferring
<1> QED BY <1>1, <1>2, ChildSays

LEMMA RetrMeets ==
    ASSUME SyncInv, NEW c \in Client, Retr(c)
    PROVE  SyncInv'
<1>1. pc[Srv(c)] = "retr" /\ UNCHANGED <<count, cmd, passed>> /\ Met(c)
  BY Before DEF Retr, login
<1>2. ASSUME pc[Cli(c)] # "gone", pc[Cli(c)] \in Connecting \cup Receiving
      PROVE  in[Cli(c)] = << >> /\ pc[Cli(c)] \in Connecting /\ cmd[Cli(c)] # LIST
  BY <1>1, <1>2 DEF Met, Pair, Together, LoggingIn, LoggedIn, Transferring
<1>3. CASE cmd[Srv(c)].arg \in File
  <2>1. Say(Srv(c), Reply("150"), "send")
    BY <1>3 DEF Retr
  <2>2. ASSUME pc[Cli(c)] # "gone", pc[Cli(c)] \in Connecting \cup Receiving
        PROVE  Transferring(pc[Cli(c)], "send", Append(in[Cli(c)], Reply("150")), << >>, cmd[Cli(c)])
    <3>1. Append(in[Cli(c)], Reply("150")) = <<First(cmd[Cli(c)])>>
      BY <1>2, <2>2, One DEF First
    <3> QED BY <3>1, <1>2, <2>2 DEF Transferring
  <2> QED BY <1>1, <2>1, <2>2, ChildSays
<1>4. CASE cmd[Srv(c)].arg \notin File
  <2>1. Say(Srv(c), Reply("550"), "cmd")
    BY <1>4 DEF Retr
  <2>2. ASSUME pc[Cli(c)] # "gone", pc[Cli(c)] \in Connecting \cup Receiving, cmd[Srv(c)] = cmd[Cli(c)]
        PROVE  Transferring(pc[Cli(c)], "cmd", Append(in[Cli(c)], Reply("550")), << >>, cmd[Cli(c)])
    <3>1. Append(in[Cli(c)], Reply("550")) = <<Reply("550")>>
      BY <1>2, <2>2, One
    <3> QED BY <3>1, <1>2, <2>2, <1>4 DEF Transferring
  <2> QED BY <1>1, <2>1, <2>2, ChildSays
<1> QED BY <1>3, <1>4

LEMMA SendDoneMeets ==
    ASSUME SyncInv, NEW c \in Client, SendDone(c)
    PROVE  SyncInv'
<1>1. pc[Srv(c)] = "send" /\ UNCHANGED <<count, cmd, passed>> /\ Say(Srv(c), Reply("226"), "cmd") /\ Met(c)
  BY Before DEF SendDone, login
<1>2. ASSUME pc[Cli(c)] # "gone", pc[Cli(c)] \in Connecting \cup Receiving
      PROVE  Transferring(pc[Cli(c)], "cmd", Append(in[Cli(c)], Reply("226")), << >>, cmd[Cli(c)])
  <2>1. \/ in[Cli(c)] = <<First(cmd[Cli(c)])>> /\ pc[Cli(c)] \in Connecting
        \/ in[Cli(c)] = << >> /\ pc[Cli(c)] \in Receiving
    BY <1>1, <1>2 DEF Met, Pair, Together, LoggingIn, LoggedIn, Transferring
  <2>2. CASE in[Cli(c)] = <<First(cmd[Cli(c)])>> /\ pc[Cli(c)] \in Connecting
    <3>1. Append(in[Cli(c)], Reply("226")) = <<First(cmd[Cli(c)]), Reply("226")>>
      BY <2>2, Two
    <3> QED BY <2>2, <3>1 DEF Transferring
  <2>3. CASE in[Cli(c)] = << >> /\ pc[Cli(c)] \in Receiving
    <3>1. Append(in[Cli(c)], Reply("226")) = <<Reply("226")>>
      BY <2>3, One
    <3> QED BY <2>3, <3>1 DEF Transferring
  <2> QED BY <2>1, <2>2, <2>3
<1> QED BY <1>1, <1>2, ChildSays

\* a step that no control connection sees
LEMMA SameMeets ==
    ASSUME SyncInv, UNCHANGED <<pc, control, count, cmd, passed>>
    PROVE  SyncInv'
BY DEF SyncInv, Maps, ControlMaps, ResetKnown, Gone, Met, Commands, control

\* A block is sent, or kills the child: the control connection is as it was.
LEMMA SendBlockMeets ==
    ASSUME SyncInv, NEW c \in Client, SendBlock(c)
    PROVE  SyncInv'
<1>1. pc[Srv(c)] = "send" /\ UNCHANGED <<control, count, cmd, passed>>
  BY DEF SendBlock, login
<1>2. pc' = pc \/ Goto(Srv(c), "gone")
  BY DEF SendBlock, Goto
<1> QED BY <1>1, <1>2, SameMeets, ChildGoesMeets

\* A reset comes only from an end that is gone.
LEMMA ResetArrivesMeets ==
    ASSUME SyncInv, NEW e \in End, ResetArrives(e)
    PROVE  SyncInv'
<1>1. /\ UNCHANGED <<pc, in, count, cmd, passed>> /\ rst' = [rst EXCEPT ![e] = "here"]
      /\ Gone(Peer(e))
  BY DEF ResetArrives, login
<1>2. Maps'
  BY <1>1 DEF SyncInv, Maps, ControlMaps
<1>3. \A x \in End : ResetKnown(x)'
  BY <1>1 DEF SyncInv, Maps, ControlMaps, ResetKnown, Gone
<1>4. \A c \in Client : Met(c)' /\ cmd'[Cli(c)] \in Commands'
  BY <1>1 DEF SyncInv, Met, Commands
<1> QED BY <1>2, <1>3, <1>4 DEF SyncInv

\* Every step keeps the invariant: the user's, ...
LEMMA UserMeets ==
    ASSUME SyncInv, NEW c \in Client, User(c)
    PROVE  SyncInv'
<1>1. CASE Connect(c)
  BY <1>1, ConnectMeets
<1>2. CASE Interrupt(c)
  BY <1>2, ClientGoesMeets DEF Interrupt, login
<1>3. CASE \E w \in Word : GiveWord(c, w, "name", "wait") \/ GiveWord(c, w, "pass", "verdict")
  BY <1>3, GiveWordMeets
<1>4. CASE \E k \in Commands : Type(c, k)
  BY <1>4, TypeMeets
<1> QED BY <1>1, <1>2, <1>3, <1>4 DEF User

\* ... the client's, ...
LEMMA WorksMeets ==
    ASSUME SyncInv, NEW c \in Client, Works(c)
    PROVE  SyncInv'
<1>1. CASE Welcome(c) \/ AskPass(c) \/ Verdict(c) \/ GetReply(c) \/ Open(c)
  BY <1>1, WelcomeMeets, AskPassMeets, VerdictMeets, GetReplyMeets, OpenMeets
<1>2. CASE Accept(c) \/ AcceptFails(c) \/ ReceiveEof(c)
  <2>1. PICK l : Goto(Cli(c), l) /\ (l = "gone" \/ <<pc[Cli(c)], l>> \in {<<"accept", "begin">>, <<"data", "done">>})
    BY <1>2 DEF Accept, AcceptFails, ReceiveEof
  <2>2. UNCHANGED <<control, count, cmd, passed>> /\ pc[Cli(c)] # "gone"
    BY <1>2 DEF Accept, AcceptFails, ReceiveEof, login
  <2> QED BY <2>1, <2>2, ClientGoesMeets
<1>3. CASE Begin(c) \/ Done(c)
  BY <1>3, BeginMeets, DoneMeets
<1>4. CASE Receive(c)
  BY <1>4, SameMeets DEF Receive, login
<1> QED BY <1>1, <1>2, <1>3, <1>4 DEF Works

\* ... the child's, ...
LEMMA ServesMeets ==
    ASSUME SyncInv, NEW c \in Client, Serves(c)
    PROVE  SyncInv'
<1>1. CASE Start(c) \/ Name(c) \/ Pass(c) \/ LoginFails(c) \/ Command(c) \/ GetAck(c)
  BY <1>1, StartMeets, NameMeets, PassMeets, LoginFailsMeets, CommandMeets, GetAckMeets
<1>2. CASE ConnectBack(c) \/ Refused(c) \/ List(c) \/ ListFails(c)
  <2>1. /\ UNCHANGED <<control, count, cmd, passed>>
        /\ pc[Srv(c)] \in {"connect", "list", "send"}
    BY <1>2 DEF ConnectBack, Refused, List, ListFails, login
  <2>2. PICK l : /\ Goto(Srv(c), l)
                 /\ \/ pc[Srv(c)] = "connect" /\ l = IF cmd[Srv(c)] = LIST THEN "list" ELSE "retr"
                    \/ pc[Srv(c)] = "list" /\ l = "ls"
                    \/ l = "gone"
    BY <1>2 DEF ConnectBack, Refused, List, ListFails
  <2> QED BY <2>1, <2>2, ChildGoesMeets
<1>3. CASE LsDone(c) \/ Retr(c) \/ SendBlock(c) \/ SendDone(c)
  BY <1>3, LsDoneMeets, RetrMeets, SendBlockMeets, SendDoneMeets
<1>4. CASE Ls(c)
  BY <1>4, SameMeets DEF Ls, login
<1> QED BY <1>1, <1>2, <1>3, <1>4 DEF Serves

\* ... and any.
LEMMA NextMeets == SyncInv /\ [Next]_vars => SyncInv'
<1> SUFFICES ASSUME SyncInv, [Next]_vars PROVE SyncInv'
  OBVIOUS
<1>1. CASE \E c \in Client : User(c)
  BY <1>1, UserMeets
<1>2. CASE Processes
  BY <1>2, WorksMeets, ServesMeets DEF Processes
<1>3. CASE Network
  BY <1>3, ResetArrivesMeets DEF Network
<1>4. CASE UNCHANGED vars
  BY <1>4, SameMeets DEF vars, login
<1> QED BY <1>1, <1>2, <1>3, <1>4 DEF Next

\* It holds before the first client connects.
LEMMA InitMeets == Init => SyncInv
<1> SUFFICES ASSUME Init PROVE SyncInv
  OBVIOUS
<1>1. Maps
  BY BoundsAssumption DEF Init, Maps, ControlMaps
<1>2. \A e \in End : ResetKnown(e)
  BY DEF Init, ResetKnown
<1>3. ASSUME NEW c \in Client PROVE Met(c) /\ cmd[Cli(c)] \in Commands
  <2>1. Cli(c) \in End /\ Srv(c) \in End
    BY Ends
  <2>2. /\ pc[Cli(c)] = "new" /\ pc[Srv(c)] = "new" /\ in[Cli(c)] = << >> /\ in[Srv(c)] = << >>
        /\ cmd[Cli(c)] = QUIT /\ count[Cli(c)] = count[Srv(c)]
    BY <2>1 DEF Init
  <2> QED BY <2>2, NoneYet DEF Met, Pair, Together, LoggingIn, Commands
<1> QED BY <1>1, <1>2, <1>3 DEF SyncInv

\* The kinds of what is sent.
LEMMA KindsAre ==
    /\ \A w : Secret(w).kind = "secret"
    /\ Ack.kind = "ack"
    /\ \A k \in Commands : k.kind \in {"LIST", "RETR", "QUIT"}
    /\ \A k : First(k).kind = IF k = LIST THEN "1" ELSE "150"
BY Replies DEF Secret, Ack, Commands, LIST, RETR, QUIT, First

\* The invariant implies that there is one message at most, that it is the one expected,
\* and that only a client that logged in is served.
LEMMA SyncInvSuffices == SyncInv => Synchronised
<1> SUFFICES ASSUME SyncInv PROVE Synchronised
  OBVIOUS
<1>1. OneMessage
  BY DEF SyncInv, Met, Pair, OneMessage
<1>2. ServedLoggedIn
  <2> SUFFICES ASSUME NEW c \in Client, pc[Srv(c)] \in Serving PROVE passed[c]
    BY DEF ServedLoggedIn, Serving
  <2>1. Met(c)
    BY Before
  <2> QED BY <2>1 DEF Met, Pair, Together, LoggingIn, ChildLeft, ClientLeft, Serving
<1>3. InStep
  <2>1. ASSUME NEW c \in Client, in[Cli(c)] # << >>, Kinds(Cli(c)) # {}
        PROVE  Head(in[Cli(c)]).kind \in Kinds(Cli(c))
    <3>1. Met(c)
      BY Before
    <3>2. Cli(c)[2] = "client"
      BY DEF Cli
    <3>3. pc[Cli(c)] \in {"welcome", "wait", "verdict", "reply", "begin", "done"} \cup {"ack", "cmd"}
      BY <2>1, <3>2 DEF Kinds
    <3> QED BY <3>1, <3>2, <3>3, <2>1, One, Two, Replies, KindsAre DEF Kinds, Met, Pair, Together,
          LoggingIn, LoggedIn, Transferring, ClientLeft, Connecting, Receiving
  <2>2. ASSUME NEW c \in Client, in[Srv(c)] # << >>, Kinds(Srv(c)) # {}
        PROVE  Head(in[Srv(c)]).kind \in Kinds(Srv(c))
    <3>1. Met(c) /\ cmd[Cli(c)] \in Commands
      BY Before
    <3>2. Srv(c)[2] = "child"
      BY DEF Srv
    <3>3. \A q \in Secrets : q # << >> => Head(q).kind = "secret"
      BY SecretsAre, KindsAre, One
    <3> QED BY <3>1, <3>2, <3>3, <2>2, One, Two, Replies, KindsAre DEF Kinds, Met, Pair, Together,
          LoggingIn, LoggedIn, Transferring, ChildLeft, Connecting, Receiving
  <2> QED BY <2>1, <2>2, EveryEnd DEF InStep
<1> QED BY <1>1, <1>2, <1>3 DEF Synchronised

\* Client and child never lose each other: what a process finds on the control connection is
\* the one answer to what it did, and only a client that logged in is served.
THEOREM AlwaysSynchronised == Spec => []Synchronised
<1>1. Init => SyncInv
  BY InitMeets
<1> QED BY <1>1, NextMeets, SyncInvSuffices, PTL DEF Spec

-----------------------------------------------------------------------------
(***************************************************************************)
(* What a client of the FTP service has received over its own data         *)
(* connection, at the end of a command, is complete, for any number of     *)
(* clients, hosts, files, blocks and commands.                             *)
(*                                                                         *)
(* The invariant follows a command's connection (Conn) from its child to   *)
(* its client: where it waits or is held (Linked), and, if the client that *)
(* it leads to is the child's own, that the blocks received and those on   *)
(* the way are together the first blocks of the file (Sent).  It stands on *)
(* SyncInv: that both ends are at the same command.                        *)
(***************************************************************************)

(***************************************************************************)
(* The invariant.                                                          *)
(***************************************************************************)
Link == Client \X (1 .. MaxCmd)

\* the client may have, or get, a data connection
Holding == {"accept", "begin", "data", "done"}

\* types, where the argument needs them
IsData(r) == r = [to |-> r.to, buf |-> r.buf, closed |-> r.closed, reset |-> r.reset]

Typed ==
    /\ typed \in [Client -> 0 .. MaxCmd]
    /\ listens = [c \in Client |-> listens[c]] /\ sock = [c \in Client |-> sock[c]]
    /\ queue \in [Client -> Seq(Link)]
    /\ data = [x \in Link |-> data[x]] /\ \A x \in Link : IsData(data[x])
    /\ got = [c \in Client |-> got[c]]
    /\ pos \in [Client -> Nat] /\ alone \in [Client -> BOOLEAN]

\* the connection of c's next, or present, command was not used yet
Fresh(c) == Conn(c) \in Link /\ data[Conn(c)] = NoData

NewLinks(c) ==
    /\ \A n \in 1 .. MaxCmd : n > typed[c] => data[<<c, n>>] = NoData
    /\ pc[Srv(c)] \in {"ack", "connect"} => Fresh(c)
    /\ pc[Srv(c)] = "cmd" /\ in[Srv(c)] # << >> => Fresh(c)

\* x leads to client e
LinkTo(x, e) == x \in Link /\ data[x].to = e /\ ~data[x].reset

\* what a client listens to or has accepted leads to it; none waits twice
Linked(e) ==
    /\ \A i \in 1 .. Len(queue[e]) : LinkTo(queue[e][i], e)
    /\ \A i, j \in 1 .. Len(queue[e]) : queue[e][i] = queue[e][j] => i = j
    /\ pc[Cli(e)] # "accept" => queue[e] = << >> /\ ~listens[e]
    /\ IF pc[Cli(e)] \in {"begin", "data", "done"} THEN LinkTo(sock[e], e) ELSE sock[e] = None

Links(e) == ~Gone(Cli(e)) => Linked(e)

\* blocks g + 1 to p of f
Slice(f, g, p) == [i \in 1 .. p - g |-> <<f, g + i>>]

\* the first p blocks of f, some received (g), the others in the connection (b)
Carried(g, b, f, p) == \E n \in 0 .. p : g = Slice(f, 0, n) /\ b = Slice(f, n, p)

FileSent(S, g, b, p, f) ==
    /\ S \in {"retr", "send", "cmd"}
    /\ S = "retr" => b = << >>
    /\ S = "send" => p <= Length[f] /\ Carried(g, b, f, p)
    /\ S = "cmd" => Carried(g, b, f, Length[f])

ListSent(S, g, b, p, al) ==
    /\ S \in {"list", "ls", "send", "cmd", "gone"}
    /\ S \in {"list", "ls"} => b = << >>
    /\ al /\ S = "send" => p <= ListLen /\ Carried(g, b, Listing, p)
    /\ al /\ S = "cmd" => Carried(g, b, Listing, ListLen)

\* the client has, or can accept, its own child's connection x with content r
Sent(C, S, k, x, q, s, g, r, p, al) ==
    /\ IF C = "accept" THEN \E i \in 1 .. Len(q) : q[i] = x ELSE C \in Holding /\ s = x
    /\ r.closed => S \in {"cmd", "gone"}
    /\ C = "done" => r.buf = << >> /\ S \in {"cmd", "gone"}
    /\ \A f \in File : k = RETR(f) => FileSent(S, g, r.buf, p, f)
    /\ k = LIST => ListSent(S, g, r.buf, p, al)

Own(c) == LinkTo(Conn(c), c)

OwnSent(c) ==
    ~Gone(Cli(c)) /\ Own(c) =>
        Sent(pc[Cli(c)], pc[Srv(c)], cmd[Cli(c)], Conn(c), queue[c], sock[c], got[c],
             data[Conn(c)], pos[c], alone[c])

GotNothing(c) == pc[Cli(c)] \in {"reply", "open", "accept", "begin"} => got[c] = << >>

OtherLs(c) == \E x \in Client \ {c} : pc[Srv(x)] = "ls"

\* a listing with which no other has interfered
TmpRight(c) ==
    /\ pc[Srv(c)] \in {"list", "retr"} => pos[c] = 0
    /\ pc[Srv(c)] = "retr" => cmd[Srv(c)] # LIST
    /\ pc[Srv(c)] = "ls" /\ alone[c] => pos[c] <= ListLen /\ tmp = 1 .. pos[c] /\ ~OtherLs(c)
    /\ pc[Srv(c)] = "send" /\ cmd[Srv(c)] = LIST /\ alone[c] => tmp = 1 .. ListLen /\ ~OtherLs(c)

Whole(c) == NewLinks(c) /\ Links(c) /\ OwnSent(c) /\ GotNothing(c) /\ TmpRight(c)

\* the inductive invariant, with SyncInv
TransferInv == Typed /\ \A c \in Client : Whole(c)

-----------------------------------------------------------------------------
(***************************************************************************)
(* Slices, connections.                                                    *)
(***************************************************************************)
LEMMA SliceIs ==
    \A f : \A g, p \in Nat : g <= p =>
        /\ Slice(f, g, p) \in Seq({<<f, i>> : i \in Nat}) /\ Len(Slice(f, g, p)) = p - g
        /\ \A i \in 1 .. p - g : Slice(f, g, p)[i] = <<f, g + i>>
BY DEF Slice

\* A slice grows at its end by what is sent and shrinks at its head by what is
\* received.
SliceMoves(f, g, p) ==
    /\ Append(Slice(f, g, p), <<f, p + 1>>) = Slice(f, g, p + 1)
    /\ Slice(f, g, p) = << >> <=> g = p
    /\ g < p => /\ Head(Slice(f, g, p)) = <<f, g + 1>>
                /\ Tail(Slice(f, g, p)) = Slice(f, g + 1, p)

LEMMA SliceFacts == \A f : \A g, p \in Nat : g <= p => SliceMoves(f, g, p)
<1> TAKE f
<1> SUFFICES ASSUME NEW g \in Nat, NEW p \in Nat, g <= p PROVE SliceMoves(f, g, p)
  OBVIOUS
<1> DEFINE B == {<<f, i>> : i \in Nat}
           s == Slice(f, g, p)
           longer == Slice(f, g, p + 1)
           later == Slice(f, g + 1, p)
<1>1. s \in Seq(B) /\ Len(s) = p - g /\ \A i \in 1 .. p - g : s[i] = <<f, g + i>>
  BY SliceIs
<1>2. longer \in Seq(B) /\ Len(longer) = p - g + 1 /\ \A i \in 1 .. p - g + 1 : longer[i] = <<f, g + i>>
  <2> DEFINE q == p + 1
  <2>1. q \in Nat /\ g <= q /\ q - g = p - g + 1
    OBVIOUS
  <2> HIDE DEF q
  <2>2. /\ Slice(f, g, q) \in Seq(B) /\ Len(Slice(f, g, q)) = q - g
        /\ \A i \in 1 .. q - g : Slice(f, g, q)[i] = <<f, g + i>>
    BY <2>1, SliceIs
  <2> QED BY <2>1, <2>2 DEF q
<1>3. ASSUME g < p
      PROVE  later \in Seq(B) /\ Len(later) = p - g - 1 /\ \A i \in 1 .. p - g - 1 : later[i] = <<f, g + 1 + i>>
  <2> DEFINE q == g + 1
  <2>1. q \in Nat /\ q <= p /\ p - q = p - g - 1
    BY <1>3
  <2> HIDE DEF q
  <2>2. /\ Slice(f, q, p) \in Seq(B) /\ Len(Slice(f, q, p)) = p - q
        /\ \A i \in 1 .. p - q : Slice(f, q, p)[i] = <<f, q + i>>
    BY <2>1, SliceIs
  <2> QED BY <2>1, <2>2 DEF q
<1>4. <<f, p + 1>> \in B
  OBVIOUS
<1> HIDE DEF B, s, longer, later
<1>5. Append(s, <<f, p + 1>>) = longer
  <2> DEFINE t == Append(s, <<f, p + 1>>)
  <2>1. t \in Seq(B) /\ Len(t) = p - g + 1
    BY <1>1, <1>4, AppendProperties
  <2>2. ASSUME NEW i \in 1 .. p - g + 1 PROVE t[i] = longer[i]
    <3>1. i <= p - g => t[i] = s[i]
      BY <1>1, <1>4, AppendProperties
    <3>2. i = p - g + 1 => t[i] = <<f, p + 1>>
      BY <1>1, <1>4, AppendProperties
    <3>3. longer[i] = <<f, g + i>>
      BY <1>2
    <3>4. CASE i <= p - g
      <4>1. i \in 1 .. p - g
        BY <3>4
      <4> QED BY <4>1, <3>1, <3>3, <1>1
    <3>5. CASE i = p - g + 1
      <4>1. g + i = p + 1
        BY <3>5
      <4> QED BY <4>1, <3>2, <3>3, <3>5
    <3>6. i <= p - g \/ i = p - g + 1
      OBVIOUS
    <3> QED BY <3>4, <3>5, <3>6
  <2> HIDE DEF t
  <2> QED BY <2>1, <2>2, <1>2, SeqEqual DEF t
<1>6. s = << >> <=> g = p
  BY <1>1
<1>7. ASSUME g < p PROVE Head(s) = <<f, g + 1>>
  BY <1>1, <1>7
<1>8. ASSUME g < p PROVE Tail(s) = later
  <2> DEFINE t == Tail(s)
  <2>1. t \in Seq(B) /\ Len(t) = p - g - 1 /\ \A i \in 1 .. p - g - 1 : t[i] = s[i + 1]
    BY <1>1, <1>8, HeadTailProperties
  <2>2. ASSUME NEW i \in 1 .. p - g - 1 PROVE t[i] = later[i]
    <3>1. s[i + 1] = <<f, g + (i + 1)>>
      BY <1>1
    <3> QED BY <3>1, <2>1, <1>3, <1>8
  <2> HIDE DEF t
  <2> QED BY <2>1, <2>2, <1>3, <1>8, SeqEqual DEF t
<1> QED BY <1>5, <1>6, <1>7, <1>8 DEF SliceMoves, s, longer, later

\* So do the blocks that are carried; when none is on its way, the client has them
\* all.
LEMMA CarriedFacts ==
    ASSUME NEW f, NEW g, NEW b, NEW p \in Nat
    PROVE  /\ g = << >> /\ b = << >> => Carried(g, b, f, 0)
           /\ Carried(g, b, f, p) => Carried(g, Append(b, <<f, p + 1>>), f, p + 1)
           /\ Carried(g, b, f, p) /\ b # << >> => Carried(Append(g, Head(b)), Tail(b), f, p)
           /\ Carried(g, b, f, p) /\ b = << >> => g = Blocks(f, p)
<1>1. ASSUME g = << >>, b = << >> PROVE Carried(g, b, f, 0)
  <2>1. SliceMoves(f, 0, 0)
    BY SliceFacts
  <2> QED BY <2>1, <1>1 DEF Carried, SliceMoves
<1>2. ASSUME Carried(g, b, f, p)
      PROVE  \E n \in Nat : n <= p /\ g = Slice(f, 0, n) /\ b = Slice(f, n, p)
  BY <1>2 DEF Carried
<1>3. ASSUME NEW n \in Nat, n <= p, g = Slice(f, 0, n), b = Slice(f, n, p)
      PROVE  /\ Carried(g, Append(b, <<f, p + 1>>), f, p + 1)
             /\ b # << >> => Carried(Append(g, Head(b)), Tail(b), f, p)
             /\ b = << >> => g = Blocks(f, p)
  <2>1. /\ Append(Slice(f, n, p), <<f, p + 1>>) = Slice(f, n, p + 1)
        /\ Slice(f, n, p) = << >> <=> n = p
        /\ n < p => /\ Head(Slice(f, n, p)) = <<f, n + 1>>
                    /\ Tail(Slice(f, n, p)) = Slice(f, n + 1, p)
    <3>1. SliceMoves(f, n, p)
      BY <1>3, SliceFacts
    <3> QED BY <3>1 DEF SliceMoves
  <2>2. Append(Slice(f, 0, n), <<f, n + 1>>) = Slice(f, 0, n + 1)
    <3>1. 0 \in Nat /\ 0 <= n
      BY <1>3
    <3>2. SliceMoves(f, 0, n)
      BY <3>1, <1>3, SliceFacts
    <3> QED BY <3>2 DEF SliceMoves
  <2>3. Carried(g, Append(b, <<f, p + 1>>), f, p + 1)
    BY <2>1, <1>3 DEF Carried
  <2>4. ASSUME b # << >> PROVE Carried(Append(g, Head(b)), Tail(b), f, p)
    <3>1. n < p
      BY <2>1, <2>4, <1>3
    <3>2. n + 1 \in 0 .. p
      BY <3>1
    <3>3. Append(g, Head(b)) = Slice(f, 0, n + 1) /\ Tail(b) = Slice(f, n + 1, p)
      BY <2>1, <2>2, <3>1, <1>3
    <3> QED BY <3>2, <3>3 DEF Carried
  <2>5. ASSUME b = << >> PROVE g = Blocks(f, p)
    <3>1. g = Slice(f, 0, p)
      BY <2>1, <2>5, <1>3
    <3> QED BY <3>1 DEF Slice, Blocks
  <2> QED BY <2>3, <2>4, <2>5
<1> QED BY <1>1, <1>2, <1>3

\* A connection that was not used leads nowhere.
LEMMA NowhereYet ==
    ASSUME NEW x \in Link, data[x] = NoData, NEW e \in Client
    PROVE  ~LinkTo(x, e)
BY BoundsAssumption DEF LinkTo, NoData

\* The command's connection is a link.
LEMMA ConnFacts ==
    ASSUME Typed, NEW c \in Client
    PROVE  /\ typed[c] > 0 => Conn(c) \in Link
           /\ \A d \in Client \ {c} : \A n : <<d, n>> # Conn(c)
           /\ \A n : n # typed[c] => <<c, n>> # Conn(c)
BY DEF Typed, Conn, Link

\* What is changed in a connection.
Broken(r) == [r EXCEPT !.reset = TRUE]
Closed(r) == [r EXCEPT !.closed = TRUE]
Filled(r, b) == [r EXCEPT !.buf = b]

\* Each change leaves the other fields as they are.
LEMMA DataFacts ==
    \A r : IsData(r) =>
        /\ IsData(Broken(r)) /\ Broken(r).reset /\ Broken(r).to = r.to
        /\ Broken(r).buf = r.buf /\ Broken(r).closed = r.closed
        /\ IsData(Closed(r)) /\ Closed(r).closed /\ Closed(r).to = r.to
        /\ Closed(r).buf = r.buf /\ Closed(r).reset = r.reset
        /\ \A b : /\ IsData(Filled(r, b)) /\ Filled(r, b).buf = b /\ Filled(r, b).to = r.to
                 /\ Filled(r, b).closed = r.closed /\ Filled(r, b).reset = r.reset
<1> TAKE r
<1> HAVE IsData(r)
<1> DEFINE t == r.to
           u == r.buf
           cl == r.closed
           re == r.reset
<1>0. r = [to |-> t, buf |-> u, closed |-> cl, reset |-> re]
  BY DEF IsData
<1> HIDE DEF t, u, cl, re
<1>1. ASSUME NEW v
      PROVE  /\ [r EXCEPT !.reset = v] = [to |-> t, buf |-> u, closed |-> cl, reset |-> v]
             /\ [r EXCEPT !.closed = v] = [to |-> t, buf |-> u, closed |-> v, reset |-> re]
             /\ [r EXCEPT !.buf = v] = [to |-> t, buf |-> v, closed |-> cl, reset |-> re]
  BY <1>0
<1>2. /\ Broken(r) = [to |-> t, buf |-> u, closed |-> cl, reset |-> TRUE]
      /\ Closed(r) = [to |-> t, buf |-> u, closed |-> TRUE, reset |-> re]
  <2> DEFINE v == TRUE
  <2> HIDE DEF v
  <2>1. /\ [r EXCEPT !.reset = v] = [to |-> t, buf |-> u, closed |-> cl, reset |-> v]
        /\ [r EXCEPT !.closed = v] = [to |-> t, buf |-> u, closed |-> v, reset |-> re]
    BY <1>0
  <2> QED BY <2>1 DEF v, Broken, Closed
<1>3. \A b : Filled(r, b) = [to |-> t, buf |-> b, closed |-> cl, reset |-> re]
  BY <1>1 DEF Filled
<1>4. \A a, b, d, e : LET n == [to |-> a, buf |-> b, closed |-> d, reset |-> e]
                     IN  IsData(n) /\ n.to = a /\ n.buf = b /\ n.closed = d /\ n.reset = e
  BY DEF IsData
<1>5. r.to = t /\ r.buf = u /\ r.closed = cl /\ r.reset = re
  BY DEF t, u, cl, re
<1>6. /\ IsData(Broken(r)) /\ Broken(r).to = t /\ Broken(r).buf = u /\ Broken(r).closed = cl
      /\ IsData(Closed(r)) /\ Closed(r).to = t /\ Closed(r).buf = u /\ Closed(r).reset = re
  BY <1>2, <1>4
<1>7. Broken(r).reset = TRUE /\ Closed(r).closed = TRUE
  BY <1>2
<1>8. \A b : /\ IsData(Filled(r, b)) /\ Filled(r, b).buf = b /\ Filled(r, b).to = t
            /\ Filled(r, b).closed = cl /\ Filled(r, b).reset = re
  BY <1>3, <1>4
<1> QED BY <1>5, <1>6, <1>7, <1>8

\* What was sent stays sent when another listing begins.
LEMMA SentAlone ==
    ASSUME NEW C, NEW S, NEW k, NEW x, NEW q, NEW s, NEW g, NEW r, NEW p,
           NEW al \in BOOLEAN, NEW be \in BOOLEAN, be => al, Sent(C, S, k, x, q, s, g, r, p, al)
    PROVE  Sent(C, S, k, x, q, s, g, r, p, be)
BY DEF Sent, ListSent

-----------------------------------------------------------------------------
(***************************************************************************)
(* What a step of c's client or child leaves to the others.                *)
(***************************************************************************)

\* a connection that it may change: one that leads to c, or the child's own
Mine(c, x) ==
    \/ LinkTo(x, c) /\ data'[x].to \in {c, None}
    \/ x = Conn(c) /\ data'[x].to = data[x].to /\ data'[x].reset = data[x].reset
    \/ x = Conn(c) /\ data[x] = NoData

Elsewhere(c) ==
    /\ Moves(c)
    /\ \A d \in Client \ {c} :
          /\ cmd'[Cli(d)] = cmd[Cli(d)] /\ cmd'[Srv(d)] = cmd[Srv(d)] /\ typed'[d] = typed[d]
          /\ listens'[d] = listens[d] /\ sock'[d] = sock[d] /\ got'[d] = got[d] /\ pos'[d] = pos[d]
          /\ alone'[d] => alone[d]
    /\ \A x \in Link : data'[x] = data[x] \/ Mine(c, x)

\* A step of c uses no connection of another child's commands, ...
LEMMA OthersNew ==
    ASSUME TransferInv, NEW c \in Client, Elsewhere(c), NEW d \in Client, d # c
    PROVE  NewLinks(d)'
<1>1. NewLinks(d) /\ typed[d] \in 0 .. MaxCmd
  BY DEF TransferInv, Whole, Typed
<1>2. /\ pc'[Srv(d)] = pc[Srv(d)] /\ in'[Srv(d)] = in[Srv(d)] /\ typed'[d] = typed[d]
  BY DEF Elsewhere, Moves
<1>3. ASSUME NEW n, <<d, n>> \in Link, data[<<d, n>>] = NoData PROVE data'[<<d, n>>] = NoData
  <2>1. ~LinkTo(<<d, n>>, c)
    BY <1>3, NowhereYet
  <2>2. <<d, n>> # Conn(c)
    BY DEF Conn
  <2>3. ~Mine(c, <<d, n>>)
    BY <2>1, <2>2 DEF Mine
  <2> QED BY <2>3, <1>3 DEF Elsewhere
<1>4. Conn(d)' = Conn(d)
  BY <1>2 DEF Conn
<1>5. Fresh(d) => Fresh(d)'
  BY <1>3, <1>4 DEF Fresh, Conn
<1>6. \A n \in 1 .. MaxCmd : <<d, n>> \in Link
  BY DEF Link
<1>7. \A n \in 1 .. MaxCmd : n > typed'[d] => data'[<<d, n>>] = NoData
  BY <1>1, <1>2, <1>3, <1>6 DEF NewLinks
<1> QED BY <1>1, <1>2, <1>5, <1>7 DEF NewLinks

\* ... resets none that leads to another client, ...
LEMMA OthersLinkTo ==
    ASSUME TransferInv, NEW c \in Client, Elsewhere(c), NEW d \in Client, d # c, NEW x, LinkTo(x, d)
    PROVE  LinkTo(x, d)'
<1>1. x \in Link /\ data[x].to = d /\ ~data[x].reset
  BY DEF LinkTo
<1>2. data[x] # NoData
  BY <1>1, BoundsAssumption DEF NoData
<1>3. ~LinkTo(x, c)
  BY <1>1 DEF LinkTo
<1>4. data'[x].to = data[x].to /\ data'[x].reset = data[x].reset
  BY <1>1, <1>2, <1>3 DEF Elsewhere, Mine
<1> QED BY <1>1, <1>4 DEF LinkTo

\* ... nor takes one from it, ...
LEMMA OthersLinked ==
    ASSUME TransferInv, NEW c \in Client, Elsewhere(c), NEW d \in Client, d # c, queue'[d] = queue[d]
    PROVE  Links(d)'
<1>1. Links(d)
  BY DEF TransferInv, Whole
<1>2. pc'[Cli(d)] = pc[Cli(d)] /\ sock'[d] = sock[d] /\ listens'[d] = listens[d]
  BY DEF Elsewhere, Moves
<1>3. \A x : LinkTo(x, d) => LinkTo(x, d)'
  BY OthersLinkTo
<1> QED BY <1>1, <1>2, <1>3 DEF Links, Linked, Gone

\* more may wait at d than before
LEMMA OthersSent ==
    ASSUME TransferInv, NEW c \in Client, Elsewhere(c), NEW d \in Client, d # c, alone'[d] \in BOOLEAN,
           \A i \in 1 .. Len(queue[d]) : i \in 1 .. Len(queue'[d]) /\ queue'[d][i] = queue[d][i]
    PROVE  OwnSent(d)'
<1> SUFFICES ASSUME ~Gone(Cli(d))', Own(d)'
    PROVE Sent(pc[Cli(d)], pc[Srv(d)], cmd[Cli(d)], Conn(d), queue[d], sock[d], got[d],
               data[Conn(d)], pos[d], alone[d])'
  BY DEF OwnSent
<1>1. /\ pc'[Cli(d)] = pc[Cli(d)] /\ pc'[Srv(d)] = pc[Srv(d)] /\ cmd'[Cli(d)] = cmd[Cli(d)]
      /\ sock'[d] = sock[d] /\ got'[d] = got[d] /\ pos'[d] = pos[d] /\ (alone'[d] => alone[d])
      /\ typed'[d] = typed[d]
  BY DEF Elsewhere, Moves
<1>2. Conn(d)' = Conn(d) /\ Conn(d) # Conn(c)
  BY <1>1 DEF Conn
<1>3. Conn(d) \in Link /\ data'[Conn(d)].to = d
  BY <1>2 DEF Own, LinkTo
<1>4. ~Mine(c, Conn(d))
  BY <1>2, <1>3, BoundsAssumption DEF Mine
<1>5. data'[Conn(d)] = data[Conn(d)]
  BY <1>3, <1>4 DEF Elsewhere
<1>6. Own(d) /\ ~Gone(Cli(d))
  BY <1>1, <1>2, <1>5 DEF Own, LinkTo, Gone
<1>7. Sent(pc[Cli(d)], pc[Srv(d)], cmd[Cli(d)], Conn(d), queue[d], sock[d], got[d],
           data[Conn(d)], pos[d], alone[d])
  BY <1>6 DEF TransferInv, Whole, OwnSent
<1>8. Sent(pc[Cli(d)], pc[Srv(d)], cmd[Cli(d)], Conn(d), queue'[d], sock[d], got[d],
           data[Conn(d)], pos[d], alone[d])
  BY <1>7 DEF Sent
<1>9. alone[d] \in BOOLEAN
  BY DEF TransferInv, Typed
<1>10. Sent(pc[Cli(d)], pc[Srv(d)], cmd[Cli(d)], Conn(d), queue'[d], sock[d], got[d],
           data[Conn(d)], pos[d], alone'[d])
  BY <1>1, <1>8, <1>9, SentAlone
<1> QED BY <1>1, <1>2, <1>5, <1>10

\* ... nor spoils a listing, unless it begins or writes one.
LEMMA OthersTmp ==
    ASSUME TransferInv, NEW c \in Client, Elsewhere(c), NEW d \in Client, d # c, tmp' = tmp,
           pc'[Srv(c)] = "ls" => pc[Srv(c)] = "ls"
    PROVE  TmpRight(d)'
<1>1. TmpRight(d)
  BY DEF TransferInv, Whole
<1>2. /\ pc'[Srv(d)] = pc[Srv(d)] /\ cmd'[Srv(d)] = cmd[Srv(d)] /\ pos'[d] = pos[d]
      /\ alone'[d] => alone[d]
  BY DEF Elsewhere, Moves
<1>3. OtherLs(d)' => OtherLs(d)
  BY DEF OtherLs, Elsewhere, Moves
<1> QED BY <1>1, <1>2, <1>3 DEF TmpRight

\* for a step that disturbs no queue of another client and no listing
LEMMA OthersKept ==
    ASSUME TransferInv, NEW c \in Client, Elsewhere(c), Typed', Whole(c)',
           \A d \in Client \ {c} :
              /\ \A i \in 1 .. Len(queue[d]) : i \in 1 .. Len(queue'[d]) /\ queue'[d][i] = queue[d][i]
              /\ Links(d)' /\ TmpRight(d)'
    PROVE  TransferInv'
<1>1. ASSUME NEW d \in Client, d # c PROVE Whole(d)'
  <2>1. alone'[d] \in BOOLEAN
    BY DEF Typed
  <2>2. GotNothing(d)'
    <3>1. pc'[Cli(d)] = pc[Cli(d)] /\ got'[d] = got[d]
      BY <1>1 DEF Elsewhere, Moves
    <3> QED BY <3>1 DEF GotNothing, TransferInv, Whole
  <2>3. /\ \A i \in 1 .. Len(queue[d]) : i \in 1 .. Len(queue'[d]) /\ queue'[d][i] = queue[d][i]
        /\ Links(d)' /\ TmpRight(d)'
    BY <1>1
  <2>4. NewLinks(d)'
    BY <1>1, OthersNew
  <2>5. OwnSent(d)'
    BY <1>1, <2>1, <2>3, OthersSent
  <2> QED BY <2>2, <2>3, <2>4, <2>5 DEF Whole
<1> QED BY <1>1 DEF TransferInv

\* for a step that leaves the queues of the others and tmp.txt alone
LEMMA OthersWhole ==
    ASSUME TransferInv, NEW c \in Client, Elsewhere(c), Typed', tmp' = tmp,
           pc'[Srv(c)] = "ls" => pc[Srv(c)] = "ls",
           \A d \in Client \ {c} : queue'[d] = queue[d], Whole(c)'
    PROVE  TransferInv'
<1>1. ASSUME NEW d \in Client, d # c PROVE Links(d)' /\ TmpRight(d)'
  <2>1. queue'[d] = queue[d]
    BY <1>1
  <2> QED BY <1>1, <2>1, OthersLinked, OthersTmp
<1> QED BY <1>1, OthersKept

-----------------------------------------------------------------------------
(***************************************************************************)
(* The steps that concern no data connection.                              *)
(***************************************************************************)
LEMMA NotOwn ==
    ASSUME TransferInv, NEW c \in Client,
           (pc[Cli(c)] \notin Holding /\ ~Gone(Cli(c))) \/ Fresh(c)
    PROVE  ~Own(c)
<1>1. CASE Fresh(c)
  BY <1>1, NowhereYet DEF Fresh, Own
<1>2. CASE pc[Cli(c)] \notin Holding /\ ~Gone(Cli(c))
  BY <1>2 DEF TransferInv, Whole, OwnSent, Sent, Holding
<1> QED BY <1>1, <1>2

\* A step that touches no data connection, at whose beginning the child's own leads
\* nowhere, or after which the client is gone.
LEMMA Quietly ==
    ASSUME TransferInv, NEW c \in Client, Moves(c),
           \A d \in Client \ {c} : cmd'[Cli(d)] = cmd[Cli(d)] /\ cmd'[Srv(d)] = cmd[Srv(d)],
           UNCHANGED <<typed, transfer, listing>>,
           \/ pc'[Cli(c)] = "gone"
           \/ pc'[Cli(c)] = pc[Cli(c)] /\ ~Own(c)
           \/ /\ pc[Cli(c)] \notin Holding /\ pc'[Cli(c)] \notin Holding /\ ~Own(c)
              /\ pc[Cli(c)] # "gone"
              /\ pc'[Cli(c)] \in {"reply", "open"} => pc[Cli(c)] \in {"reply", "open"},
           pc'[Srv(c)] \in {"ack", "connect"} => Fresh(c),
           pc'[Srv(c)] = "cmd" /\ in'[Srv(c)] # << >> => Fresh(c),
           \/ pc'[Srv(c)] = pc[Srv(c)] /\ cmd'[Srv(c)] = cmd[Srv(c)]
           \/ pc'[Srv(c)] \notin {"list", "ls", "retr", "send"}
    PROVE  TransferInv'
<1> USE DEF transfer, listing
<1>1. Typed /\ Whole(c)
  BY DEF TransferInv
<1>2. Typed' /\ Elsewhere(c)
  BY <1>1 DEF Typed, Elsewhere
<1>3. NewLinks(c)'
  BY <1>1 DEF Whole, NewLinks, Fresh, Conn
<1>4. Links(c)'
  BY <1>1 DEF Whole, Links, Linked, LinkTo, Gone, Holding
<1>5. OwnSent(c)'
  BY DEF OwnSent, Own, Conn, LinkTo, Gone
<1>6. GotNothing(c)'
  BY <1>1 DEF Whole, GotNothing, Holding
<1>7. TmpRight(c)'
  <2>1. OtherLs(c)' => OtherLs(c)
    BY DEF OtherLs, Moves
  <2> QED BY <1>1, <2>1 DEF Whole, TmpRight
<1>8. Whole(c)'
  BY <1>3, <1>4, <1>5, <1>6, <1>7 DEF Whole
<1>9. pc'[Srv(c)] = "ls" => pc[Srv(c)] = "ls"
  OBVIOUS
<1> QED BY <1>2, <1>8, <1>9, OthersWhole

\* the client hears, says or does something on the control connection, or ends
LEMMA ClientQuietly ==
    ASSUME SyncInv, TransferInv, NEW c \in Client, Moves(c), pc'[Srv(c)] = pc[Srv(c)],
           UNCHANGED <<cmd, typed, transfer, listing>>,
           in'[Srv(c)] = in[Srv(c)] \/ pc[Srv(c)] # "cmd",
           pc[Cli(c)] # "gone",
           \/ pc'[Cli(c)] = "gone"
           \/ /\ pc[Cli(c)] \notin Holding /\ pc'[Cli(c)] \notin Holding
              /\ pc'[Cli(c)] \in {"reply", "open"} => pc[Cli(c)] \in {"reply", "open"}
    PROVE  TransferInv'
<1>1. pc[Cli(c)] \notin Holding => ~Own(c)
  BY NotOwn DEF Gone
<1>2. NewLinks(c)
  BY DEF TransferInv, Whole
<1> QED BY <1>1, <1>2, Quietly DEF NewLinks

\* The client hears an answer, at the login or to a command.
LEMMA ClientHearsQuietly ==
    ASSUME SyncInv, TransferInv, NEW c \in Client, NEW m \in Recv(Cli(c)), NEW l, Hear(Cli(c), m, l),
           UNCHANGED <<cmd, typed, transfer, listing>>,
           <<pc[Cli(c)], l>> \in {<<"welcome", "name">>, <<"wait", "pass">>, <<"verdict", "prompt">>,
             <<"verdict", "name">>, <<"verdict", "gone">>, <<"reply", "gone">>, <<"reply", "prompt">>,
             <<"reply", "open">>}
    PROVE  TransferInv'
<1>1. pc[Cli(c)] # "gone"
  OBVIOUS
<1>2. Moves(c) /\ pc'[Cli(c)] = l /\ pc'[Srv(c)] = pc[Srv(c)] /\ in'[Srv(c)] = in[Srv(c)]
  BY <1>1, EndHears, Before
<1>3. /\ pc[Cli(c)] \notin Holding
      /\ l = "gone" \/ (l \notin Holding /\ (l \in {"reply", "open"} => pc[Cli(c)] \in {"reply", "open"}))
  BY DEF Holding
<1> QED BY <1>1, <1>2, <1>3, ClientQuietly

\* These are the steps in which it does.
LEMMA HearingIsQuiet ==
    ASSUME SyncInv, TransferInv, NEW c \in Client,
           Welcome(c) \/ AskPass(c) \/ Verdict(c) \/ GetReply(c)
    PROVE  TransferInv'
<1>1. UNCHANGED <<cmd, typed, transfer, listing>>
  BY DEF Welcome, AskPass, Verdict, GetReply
<1>2. CASE Welcome(c)
  BY <1>1, <1>2, ClientHearsQuietly DEF Welcome
<1>3. CASE AskPass(c)
  BY <1>1, <1>3, ClientHearsQuietly DEF AskPass
<1>4. CASE Verdict(c)
  <2>1. PICK m \in Recv(Cli(c)), l \in {"prompt", "name", "gone"} : Hear(Cli(c), m, l)
    BY <1>4 DEF Verdict
  <2> QED BY <2>1, <1>1, <1>4, ClientHearsQuietly DEF Verdict
<1>5. CASE GetReply(c)
  <2>1. PICK m \in Recv(Cli(c)), l \in {"gone", "prompt", "open"} : Hear(Cli(c), m, l)
    BY <1>5 DEF GetReply
  <2> QED BY <2>1, <1>1, <1>5, ClientHearsQuietly DEF GetReply
<1> QED BY <1>2, <1>3, <1>4, <1>5

\* The client ends.
LEMMA EndingIsQuiet ==
    ASSUME SyncInv, TransferInv, NEW c \in Client, AcceptFails(c) \/ Interrupt(c)
    PROVE  TransferInv'
<1>1. /\ Goto(Cli(c), "gone") /\ pc[Cli(c)] # "gone" /\ UNCHANGED control
      /\ UNCHANGED <<cmd, typed, transfer, listing>>
  BY DEF AcceptFails, Interrupt
<1>2. Moves(c) /\ pc'[Cli(c)] = "gone" /\ pc'[Srv(c)] = pc[Srv(c)] /\ in' = in
  BY <1>1, EndGoes, Before
<1> QED BY <1>1, <1>2, ClientQuietly

\* The client gives a name or a password.
LEMMA GiveWordIsQuiet ==
    ASSUME SyncInv, TransferInv, NEW c \in Client, NEW w \in Word,
           GiveWord(c, w, "name", "wait") \/ GiveWord(c, w, "pass", "verdict")
    PROVE  TransferInv'
<1>1. UNCHANGED <<cmd, typed, transfer, listing>>
  BY DEF GiveWord
<1>2. PICK from, to : /\ GiveWord(c, w, from, to) /\ pc[Cli(c)] = from
                      /\ <<from, to>> \in {<<"name", "wait">>, <<"pass", "verdict">>}
  BY DEF GiveWord
<1>3. /\ Moves(c) /\ pc'[Srv(c)] = pc[Srv(c)]
      /\ pc'[Cli(c)] \in {to, "gone"} /\ (pc[Srv(c)] = "gone" => in'[Srv(c)] = in[Srv(c)])
  <2>1. CASE w = "mute"
    BY <2>1, <1>2, EndGoes, Before DEF GiveWord
  <2>2. CASE w # "mute"
    BY <2>2, <1>2, EndSays, Before DEF GiveWord, Say
  <2> QED BY <2>1, <2>2
<1>4. pc[Srv(c)] # "cmd"
  BY <1>2, Before DEF Met, Pair, Together, LoggingIn, LoggedIn, Transferring, Connecting, Receiving
<1>5. from \notin Holding /\ to \notin Holding \cup {"reply", "open"} /\ from # "gone"
  BY <1>2 DEF Holding
<1> QED BY <1>1, <1>2, <1>3, <1>4, <1>5, ClientQuietly

\* The client connects.
LEMMA ConnectIsQuiet ==
    ASSUME SyncInv, TransferInv, NEW c \in Client, Connect(c)
    PROVE  TransferInv'
<1>1. PICK l \in {"start", "gone"} : pc' = [pc EXCEPT ![Cli(c)] = "welcome", ![Srv(c)] = l]
  BY DEF Connect
<1>2. /\ pc[Cli(c)] = "new" /\ UNCHANGED <<control, cmd, typed, transfer, listing>>
      /\ UNCHANGED <<count, cmd, passed>>
  BY DEF Connect, login
<1>3. Cli(c) \in End /\ Srv(c) \in End /\ Cli(c) # Srv(c) /\ ControlMaps
  BY Ends DEF SyncInv, Maps
<1>4. pc'[Cli(c)] = "welcome" /\ pc'[Srv(c)] = l
  BY <1>1, <1>3 DEF ControlMaps
<1>5. Moves(c)
  <2>1. SyncInv'
    BY ConnectMeets
  <2>2. ControlMaps' /\ \A e \in End : ResetKnown(e)'
    BY <2>1 DEF SyncInv, Maps
  <2>3. \A d \in Client \ {c} : pc'[Cli(d)] = pc[Cli(d)] /\ pc'[Srv(d)] = pc[Srv(d)]
    BY <1>1, <1>3, Ends DEF ControlMaps
  <2> QED BY <2>2, <2>3, <1>2 DEF Moves, control
<1>6. ~Own(c)
  BY <1>2, NotOwn DEF Gone, Holding
<1>7. /\ "welcome" \notin Holding \cup {"reply", "open"} /\ "new" \notin Holding
  BY DEF Holding
<1> QED BY <1>2, <1>4, <1>5, <1>6, <1>7, Quietly

\* The child hears or says something while its own connection leads nowhere, or
\* after its client.
LEMMA ChildQuietly ==
    ASSUME SyncInv, TransferInv, NEW c \in Client, Moves(c), pc'[Cli(c)] = pc[Cli(c)],
           UNCHANGED <<typed, transfer, listing>>,
           \A d \in Client \ {c} : cmd'[Cli(d)] = cmd[Cli(d)] /\ cmd'[Srv(d)] = cmd[Srv(d)],
           pc[Cli(c)] = "gone" \/ pc[Cli(c)] \notin Holding \/ Fresh(c),
           \/ pc'[Srv(c)] \in {"name", "pass", "gone"}
           \/ pc'[Srv(c)] = "cmd" /\ in'[Srv(c)] = << >>
           \/ pc'[Srv(c)] \in {"cmd", "ack", "connect"} /\ Fresh(c)
    PROVE  TransferInv'
<1>1. pc'[Cli(c)] = "gone" \/ ~Own(c)
  BY NotOwn DEF Gone
<1> QED BY <1>1, Quietly

\* The child's login is before any connection, ...
LEMMA LoginIsQuiet ==
    ASSUME SyncInv, TransferInv, NEW c \in Client,
           Start(c) \/ Name(c) \/ Pass(c) \/ LoginFails(c)
    PROVE  TransferInv'
<1>1. UNCHANGED <<cmd, typed, transfer, listing>> /\ pc[Srv(c)] \in {"start", "name", "pass"}
  BY DEF Start, Name, Pass, LoginFails
<1>2. pc[Cli(c)] = "gone" \/ pc[Cli(c)] \notin Holding
  BY <1>1, Before DEF Met, Pair, Together, LoggingIn, LoggedIn, Transferring, Connecting, Receiving, Holding
<1>3. CASE Start(c)
  <2>1. Send(Srv(c), in, rst, Reply("220"), "name", "name")
    BY <1>3 DEF Start, Say
  <2>2. Moves(c) /\ pc'[Cli(c)] = pc[Cli(c)] /\ pc'[Srv(c)] \in {"name", "gone"}
    BY <2>1, <1>1, EndSays, Before
  <2> QED BY <2>2, <1>1, <1>2, ChildQuietly
<1>4. ASSUME NEW m \in Recv(Srv(c)), NEW k, NEW l \in {"name", "pass", "cmd"}, Answer(Srv(c), m, k, l)
      PROVE  TransferInv'
  <2>1. /\ Moves(c) /\ pc'[Cli(c)] = pc[Cli(c)] /\ pc'[Srv(c)] \in {l, "gone"}
        /\ in[Srv(c)] = << >> => in'[Srv(c)] = << >>
        /\ in[Srv(c)] # << >> => in'[Srv(c)] = Tail(in[Srv(c)])
    BY <1>1, <1>4, EndAnswers, Before
  <2>2. in'[Srv(c)] = << >>
    BY <2>1, <1>1, Shorter
  <2> QED BY <2>1, <2>2, <1>1, <1>2, ChildQuietly
<1>4a. CASE Name(c)
  <2>1. PICK m \in Recv(Srv(c)) : Answer(Srv(c), m, "331", "pass")
    BY <1>4a DEF Name
  <2> QED BY <2>1, <1>4
<1>4b. CASE Pass(c)
  <2>1. PICK m \in Recv(Srv(c)), as \in UNION {Meant(x, PassFront) : x \in Recv(Srv(c))} :
          IF Accepts(named[c], as) THEN Answer(Srv(c), m, "230", "cmd")
          ELSE Answer(Srv(c), m, "430", IF TriesLeft(count[Srv(c)] - 1) THEN "name" ELSE "cmd")
    BY <1>4b DEF Pass
  <2>2. CASE Accepts(named[c], as)
    BY <2>1, <2>2, <1>4
  <2>3. CASE ~Accepts(named[c], as)
    BY <2>1, <2>3, <1>4
  <2> QED BY <2>2, <2>3
<1>5. CASE LoginFails(c)
  <2>1. Moves(c) /\ pc'[Cli(c)] = pc[Cli(c)] /\ pc'[Srv(c)] = "gone"
    BY <1>1, <1>5, EndHears, Before DEF LoginFails
  <2> QED BY <2>1, <1>1, <1>2, ChildQuietly
<1> QED BY <1>3, <1>4a, <1>4b, <1>5

\* ... a command comes before its connection, ...
LEMMA CommandIsQuiet ==
    ASSUME SyncInv, TransferInv, NEW c \in Client, Command(c)
    PROVE  TransferInv'
<1>1. /\ pc[Srv(c)] = "cmd" /\ UNCHANGED <<typed, transfer, listing>>
      /\ in[Srv(c)] # << >> => Fresh(c)
  BY DEF Command, TransferInv, Whole, NewLinks
<1>2. PICK m \in Recv(Srv(c)) :
        \/ Hear(Srv(c), m, "cmd") /\ UNCHANGED cmd
        \/ \E k : Answer(Srv(c), m, k, "cmd") /\ UNCHANGED cmd
        \/ /\ Answer(Srv(c), m, "200", "ack") /\ m.kind \in {"LIST", "RETR"}
           /\ cmd' = [cmd EXCEPT ![Srv(c)] = m]
  <2>1. PICK m \in Recv(Srv(c)) :
         CASE m = Error ->
                Hear(Srv(c), m, "cmd") /\ UNCHANGED cmd
           [] m = QUIT ->
                Answer(Srv(c), m, "221", "cmd") /\ UNCHANGED cmd
           [] m.kind \in {"LIST", "RETR"} ->
                /\ Answer(Srv(c), m, "200", "ack")
                /\ cmd' = [cmd EXCEPT ![Srv(c)] = m]
           [] OTHER ->
                Answer(Srv(c), m, "502", "cmd") /\ UNCHANGED cmd
    BY DEF Command
  <2>2. CASE m = Error \/ m = QUIT
    BY <2>1, <2>2 DEF Error, QUIT
  <2>3. CASE m # Error /\ m # QUIT
    BY <2>1, <2>3
  <2> QED BY <2>2, <2>3
<1>3. \A d \in Client \ {c} : cmd'[Cli(d)] = cmd[Cli(d)] /\ cmd'[Srv(d)] = cmd[Srv(d)]
  BY <1>2, Ends DEF SyncInv, Maps
<1>4. /\ Moves(c) /\ pc'[Cli(c)] = pc[Cli(c)] /\ pc'[Srv(c)] \in {"cmd", "ack", "gone"}
      /\ in[Srv(c)] = << >> => in'[Srv(c)] = << >> /\ pc[Cli(c)] = "gone" /\ m \in {Eof, Error}
      /\ in[Srv(c)] # << >> => in'[Srv(c)] = Tail(in[Srv(c)])
      /\ pc'[Srv(c)] = "ack" => m.kind \in {"LIST", "RETR"}
  <2>1. CASE Hear(Srv(c), m, "cmd")
    BY <2>1, <1>1, EndHears, Before
  <2>2. CASE \E k : Answer(Srv(c), m, k, "cmd")
    BY <2>2, <1>1, EndAnswers, Before
  <2>3. CASE Answer(Srv(c), m, "200", "ack") /\ m.kind \in {"LIST", "RETR"}
    BY <2>3, <1>1, EndAnswers, Before
  <2> QED BY <2>1, <2>2, <2>3, <1>2
<1>5. in'[Srv(c)] = << >>
  BY <1>1, <1>4, Shorter
<1>6. pc[Cli(c)] = "gone" \/ Fresh(c)
  BY <1>1, <1>4
<1>7. pc'[Srv(c)] = "ack" => Fresh(c)
  BY <1>1, <1>4 DEF Eof, Error
<1> QED BY <1>1, <1>3, <1>4, <1>5, <1>6, <1>7, ChildQuietly

\* ... and so does the acknowledgement.
LEMMA GetAckIsQuiet ==
    ASSUME SyncInv, TransferInv, NEW c \in Client, GetAck(c) \/ Refused(c)
    PROVE  TransferInv'
<1>1. /\ pc[Srv(c)] \in {"ack", "connect"} /\ UNCHANGED <<cmd, typed, transfer, listing>> /\ Fresh(c)
  BY DEF GetAck, Refused, TransferInv, Whole, NewLinks
<1>2. CASE GetAck(c)
  <2>1. PICK m \in Recv(Srv(c)), l \in {"gone", "connect"} : Hear(Srv(c), m, l)
    BY <1>2 DEF GetAck
  <2>2. Moves(c) /\ pc'[Cli(c)] = pc[Cli(c)] /\ pc'[Srv(c)] = l
    BY <2>1, <1>1, EndHears, Before
  <2> QED BY <2>2, <1>1, ChildQuietly
<1>3. CASE Refused(c)
  <2>1. Moves(c) /\ pc'[Cli(c)] = pc[Cli(c)] /\ pc'[Srv(c)] = "gone"
    BY <1>1, <1>3, EndGoes, Before DEF Refused
  <2> QED BY <2>1, <1>1, ChildQuietly
<1> QED BY <1>2, <1>3

-----------------------------------------------------------------------------
(***************************************************************************)
(* The steps of the client that concern data connections.                  *)
(***************************************************************************)
LEMMA TypeKeeps ==
    ASSUME SyncInv, TransferInv, NEW c \in Client, NEW k \in Commands, Type(c, k)
    PROVE  TransferInv'
<1>1. /\ pc[Cli(c)] = "prompt" /\ UNCHANGED <<listens, queue, data, sock, listing>>
      /\ typed[c] < MaxCmd /\ typed' = [typed EXCEPT ![c] = @ + 1]
      /\ got' = [got EXCEPT ![c] = << >>]
      /\ cmd' = [cmd EXCEPT ![Cli(c)] = k] /\ Send(Cli(c), in, rst, k, "reply", "gone")
  BY DEF Type, Insist
<1>2. /\ Moves(c) /\ pc'[Cli(c)] \in {"reply", "gone"} /\ pc'[Srv(c)] = pc[Srv(c)]
      /\ pc[Srv(c)] = "gone" => in'[Srv(c)] = in[Srv(c)]
  BY <1>1, EndSays, Before
<1>3. Typed /\ Whole(c) /\ typed[c] \in 0 .. MaxCmd /\ MaxCmd \in Nat
  BY BoundsAssumption DEF TransferInv, Typed
<1>4. /\ \A d \in Client \ {c} : cmd'[Cli(d)] = cmd[Cli(d)] /\ cmd'[Srv(d)] = cmd[Srv(d)]
      /\ cmd'[Srv(c)] = cmd[Srv(c)]
  BY <1>1, Ends DEF SyncInv, Maps
<1>5. Typed'
  <2>1. typed[c] + 1 \in 0 .. MaxCmd
    BY <1>1, <1>3
  <2>2. typed' \in [Client -> 0 .. MaxCmd]
    BY <2>1, <1>1, <1>3 DEF Typed
  <2> QED BY <2>2, <1>1, <1>3 DEF Typed, listing
<1>6. typed'[c] = typed[c] + 1 /\ got'[c] = << >>
  BY <1>1, <1>3 DEF Typed
<1>7. Elsewhere(c)
  BY <1>1, <1>2, <1>3, <1>4 DEF Elsewhere, Typed, listing
<1>8. typed[c] + 1 \in 1 .. MaxCmd /\ typed[c] + 1 > typed[c]
  BY <1>1, <1>3
<1>9. Fresh(c)'
  <2>1. data[<<c, typed[c] + 1>>] = NoData
    BY <1>3, <1>8 DEF Whole, NewLinks
  <2>2. <<c, typed[c] + 1>> \in Link
    BY <1>8 DEF Link
  <2> QED BY <2>1, <2>2, <1>1, <1>6 DEF Fresh, Conn
<1>10. NewLinks(c)'
  <2>1. \A n \in 1 .. MaxCmd : n > typed'[c] => data'[<<c, n>>] = NoData
    <3>1. \A n \in 1 .. MaxCmd : n > typed'[c] => n > typed[c]
      BY <1>3, <1>6
    <3> QED BY <3>1, <1>1, <1>3 DEF Whole, NewLinks
  <2> QED BY <2>1, <1>9 DEF NewLinks
<1>11. Links(c)'
  BY <1>1, <1>2, <1>3 DEF Whole, Links, Linked, LinkTo, Gone
<1>12. OwnSent(c)'
  <2>1. ~Own(c)'
    BY <1>9, BoundsAssumption DEF Fresh, Own, LinkTo, NoData
  <2> QED BY <2>1 DEF OwnSent
<1>13. GotNothing(c)'
  BY <1>6 DEF GotNothing
<1>14. TmpRight(c)'
  <2>1. OtherLs(c)' => OtherLs(c)
    BY <1>2 DEF OtherLs, Moves
  <2> QED BY <2>1, <1>1, <1>2, <1>3, <1>4 DEF Whole, TmpRight, listing
<1>15. Whole(c)'
  BY <1>10, <1>11, <1>12, <1>13, <1>14 DEF Whole
<1>16. tmp' = tmp /\ queue' = queue
  BY <1>1 DEF listing
<1> QED BY <1>2, <1>5, <1>7, <1>15, <1>16, OthersWhole

\* The client listens, or fails to, and says that it does.
LEMMA OpenKeeps ==
    ASSUME SyncInv, TransferInv, NEW c \in Client, Open(c)
    PROVE  TransferInv'
<1>1. /\ pc[Cli(c)] = "open" /\ UNCHANGED <<cmd, typed, queue, data, sock, got, listing>>
      /\ listens' = [listens EXCEPT ![c] = (Listeners(Host[c]) = {})]
      /\ Send(Cli(c), in, rst, Ack, "accept", "gone")
  BY DEF Open, Insist
<1>2. /\ Moves(c) /\ pc'[Cli(c)] \in {"accept", "gone"} /\ pc'[Srv(c)] = pc[Srv(c)]
      /\ pc[Srv(c)] = "gone" => in'[Srv(c)] = in[Srv(c)]
  BY <1>1, EndSays, Before
<1>3. Typed /\ Whole(c)
  BY DEF TransferInv
<1>4. Typed' /\ Elsewhere(c)
  BY <1>1, <1>2, <1>3 DEF Typed, Elsewhere, listing
<1>5. pc[Srv(c)] # "cmd"
  BY <1>1, Before DEF Met, Pair, Together, LoggingIn, LoggedIn, Transferring, Connecting, Receiving
<1>6. NewLinks(c)'
  BY <1>1, <1>2, <1>3, <1>5 DEF Whole, NewLinks, Fresh, Conn
<1>7. Links(c)'
  BY <1>1, <1>2, <1>3 DEF Whole, Links, Linked, LinkTo, Gone
<1>8. OwnSent(c)'
  <2>1. ~Own(c)
    BY <1>1, NotOwn DEF Holding, Gone
  <2> QED BY <2>1, <1>1 DEF OwnSent, Own, LinkTo, Conn
<1>9. GotNothing(c)'
  BY <1>1, <1>3 DEF Whole, GotNothing
<1>10. TmpRight(c)'
  <2>1. OtherLs(c)' => OtherLs(c)
    BY <1>2 DEF OtherLs, Moves
  <2> QED BY <2>1, <1>1, <1>2, <1>3 DEF Whole, TmpRight, listing
<1>11. Whole(c)' /\ tmp' = tmp
  BY <1>1, <1>6, <1>7, <1>8, <1>9, <1>10 DEF Whole, listing
<1> QED BY <1>1, <1>2, <1>4, <1>11, OthersWhole

\* The client accepts the first connection that waits and resets the others: none of
\* these is the one accepted, as none waits twice.
LEMMA AcceptKeeps ==
    ASSUME SyncInv, TransferInv, NEW c \in Client, Accept(c)
    PROVE  TransferInv'
<1> DEFINE q == queue[c]
           x0 == Head(q)
<1>1. /\ pc[Cli(c)] = "accept" /\ q # << >> /\ Goto(Cli(c), "begin")
      /\ UNCHANGED <<control, cmd, typed, got, listing>>
      /\ sock' = [sock EXCEPT ![c] = x0] /\ listens' = [listens EXCEPT ![c] = FALSE]
      /\ queue' = [queue EXCEPT ![c] = << >>]
      /\ data' = [x \in DOMAIN data |-> IF Contains(Tail(q), x)
                                       THEN [data[x] EXCEPT !.reset = TRUE] ELSE data[x]]
  BY DEF Accept
<1>2. Moves(c) /\ pc'[Cli(c)] = "begin" /\ pc'[Srv(c)] = pc[Srv(c)] /\ in' = in
  BY <1>1, EndGoes, Before
<1>3. Typed /\ Whole(c) /\ q \in Seq(Link)
  BY DEF TransferInv, Typed
<1>4. /\ x0 = q[1] /\ Len(q) \in Nat /\ 1 \in 1 .. Len(q)
      /\ Len(Tail(q)) = Len(q) - 1 /\ \A i \in 1 .. Len(Tail(q)) : Tail(q)[i] = q[i + 1]
  BY <1>1, <1>3, HeadTailProperties, LenProperties
<1>5. \A i \in 1 .. Len(Tail(q)) : i + 1 \in 1 .. Len(q) /\ i + 1 # 1
  BY <1>4
<1>6. \A x : Contains(Tail(q), x) <=> \E i \in 1 .. Len(q) : q[i] = x /\ x # x0
  <2>1. Linked(c)
    BY <1>1, <1>3 DEF Whole, Links, Gone
  <2>2. ASSUME NEW x, Contains(Tail(q), x) PROVE \E i \in 1 .. Len(q) : q[i] = x /\ x # x0
    <3>1. PICK i \in 1 .. Len(Tail(q)) : Tail(q)[i] = x
      BY <2>2 DEF Contains
    <3>2. q[i + 1] = x /\ i + 1 \in 1 .. Len(q) /\ i + 1 # 1
      BY <3>1, <1>4, <1>5
    <3> QED BY <3>2, <2>1, <1>4 DEF Linked
  <2>3. ASSUME NEW x, NEW i \in 1 .. Len(q), q[i] = x, x # x0 PROVE Contains(Tail(q), x)
    <3>1. i - 1 \in 1 .. Len(Tail(q)) /\ (i - 1) + 1 = i
      BY <2>3, <1>4
    <3>2. Tail(q)[i - 1] = x
      BY <3>1, <2>3, <1>4
    <3> QED BY <3>1, <3>2 DEF Contains
  <2> QED BY <2>2, <2>3
<1>7. \A i \in 1 .. Len(q) : LinkTo(q[i], c)
  BY <1>1, <1>3 DEF Whole, Links, Linked, Gone
<1>8. \A x \in Link : /\ data'[x].to = data[x].to /\ data'[x].buf = data[x].buf
                      /\ data'[x].closed = data[x].closed
                      /\ Contains(Tail(q), x) => data'[x].reset
                      /\ ~Contains(Tail(q), x) => data'[x] = data[x]
                      /\ IsData(data'[x])
  <2> TAKE x \in Link
  <2>1. IsData(data[x]) /\ x \in DOMAIN data
    BY <1>3 DEF Typed
  <2>2. data'[x] = IF Contains(Tail(q), x) THEN [data[x] EXCEPT !.reset = TRUE] ELSE data[x]
    BY <2>1, <1>1
  <2> HIDE DEF q
  <2>3. data'[x] = IF Contains(Tail(q), x) THEN Broken(data[x]) ELSE data[x]
    BY <2>2 DEF Broken
  <2> QED BY <2>1, <2>3, DataFacts
<1> HIDE DEF q, x0
<1>9. Typed'
  <2>1. queue' \in [Client -> Seq(Link)]
    BY <1>1, <1>3 DEF Typed
  <2>2. data' = [x \in Link |-> data'[x]] /\ \A x \in Link : IsData(data'[x])
    BY <1>1, <1>3, <1>8 DEF Typed
  <2> QED BY <2>1, <2>2, <1>1, <1>3 DEF Typed, listing
<1>10. \A x \in Link : data'[x] = data[x] \/ (LinkTo(x, c) /\ data'[x].to = c)
  BY <1>6, <1>7, <1>8 DEF LinkTo
<1>11. Elsewhere(c)
  BY <1>1, <1>2, <1>3, <1>10 DEF Elsewhere, Typed, Mine, listing
<1>12. NewLinks(c)'
  <2>1. \A x \in Link : data[x] = NoData => data'[x] = NoData
    BY <1>10, NowhereYet
  <2>2. \A n \in 1 .. MaxCmd : <<c, n>> \in Link
    BY DEF Link
  <2> QED BY <2>1, <2>2, <1>1, <1>2, <1>3 DEF Whole, NewLinks, Fresh, Conn
<1>13. queue'[c] = << >> /\ sock'[c] = x0 /\ ~listens'[c]
  BY <1>1, <1>3 DEF Typed
<1>14. Links(c)'
  <2>1. LinkTo(x0, c)
    BY <1>4, <1>7
  <2>2. data'[x0] = data[x0]
    BY <2>1, <1>6, <1>8 DEF LinkTo
  <2> QED BY <2>1, <2>2, <1>2, <1>13 DEF Links, Linked, LinkTo
<1>15. OwnSent(c)'
  <2> SUFFICES ASSUME Own(c)' PROVE Sent(pc[Cli(c)], pc[Srv(c)], cmd[Cli(c)], Conn(c), queue[c], sock[c], got[c],
               data[Conn(c)], pos[c], alone[c])'
    BY DEF OwnSent
  <2>1. Conn(c)' = Conn(c) /\ Conn(c) \in Link /\ data'[Conn(c)].to = c /\ ~data'[Conn(c)].reset
    BY <1>1 DEF Own, LinkTo, Conn
  <2>2. data'[Conn(c)] = data[Conn(c)] /\ ~Contains(Tail(q), Conn(c))
    BY <2>1, <1>8
  <2>3. Own(c)
    BY <2>1, <2>2 DEF Own, LinkTo
  <2>4. Sent("accept", pc[Srv(c)], cmd[Cli(c)], Conn(c), q, sock[c], got[c], data[Conn(c)], pos[c], alone[c])
    BY <2>3, <1>1, <1>3 DEF Whole, OwnSent, Gone, q
  <2>5. x0 = Conn(c)
    BY <2>2, <2>4, <1>6 DEF Sent
  <2>6. Sent("begin", pc[Srv(c)], cmd[Cli(c)], Conn(c), << >>, x0, got[c], data[Conn(c)], pos[c], alone[c])
    BY <2>4, <2>5 DEF Sent, Holding
  <2> QED BY <2>1, <2>2, <2>6, <1>1, <1>2, <1>13 DEF listing
<1>16. GotNothing(c)'
  BY <1>1, <1>3 DEF Whole, GotNothing
<1>17. TmpRight(c)'
  <2>1. OtherLs(c)' => OtherLs(c)
    BY <1>2 DEF OtherLs, Moves
  <2> QED BY <2>1, <1>1, <1>2, <1>3 DEF Whole, TmpRight, listing
<1>18. Whole(c)' /\ tmp' = tmp /\ \A d \in Client \ {c} : queue'[d] = queue[d]
  BY <1>1, <1>3, <1>12, <1>14, <1>15, <1>16, <1>17 DEF Whole, listing, Typed
<1> QED BY <1>2, <1>9, <1>11, <1>18, OthersWhole

\* the client closes the connection that it has
LEMMA ClosingKeeps ==
    ASSUME SyncInv, TransferInv, NEW c \in Client, CloseData(c), Moves(c),
           pc[Cli(c)] \in {"begin", "done"}, pc'[Cli(c)] = "prompt",
           pc'[Srv(c)] = pc[Srv(c)], in'[Srv(c)] = in[Srv(c)],
           UNCHANGED <<cmd, typed, listens, queue, got, listing>>
    PROVE  TransferInv'
<1> DEFINE s == sock[c]
<1>1. Typed /\ Whole(c)
  BY DEF TransferInv
<1>2. LinkTo(s, c) /\ queue[c] = << >> /\ ~listens[c]
  BY <1>1 DEF Whole, Links, Linked, Gone
<1>3. data' = [data EXCEPT ![s] = Broken(NoData)] /\ sock' = [sock EXCEPT ![c] = None]
  BY DEF CloseData, Broken
<1>4. IsData(NoData) /\ NoData.to = None
  BY DEF IsData, NoData
<1>5. IsData(Broken(NoData)) /\ Broken(NoData).to = None
  BY <1>4, DataFacts
<1>6. data' = [x \in Link |-> data'[x]] /\ data'[s] = Broken(NoData) /\ \A x \in Link \ {s} : data'[x] = data[x]
  BY <1>1, <1>2, <1>3 DEF Typed, LinkTo
<1>7. sock' = [d \in Client |-> sock'[d]] /\ sock'[c] = None /\ \A d \in Client \ {c} : sock'[d] = sock[d]
  BY <1>1, <1>3 DEF Typed
<1> HIDE DEF s
<1>8. Typed'
  <2>1. \A x \in Link : IsData(data'[x])
    BY <1>1, <1>5, <1>6 DEF Typed
  <2> QED BY <2>1, <1>1, <1>6, <1>7 DEF Typed, listing
<1>9. Elsewhere(c)
  <2>1. \A x \in Link : data'[x] = data[x] \/ Mine(c, x)
    BY <1>2, <1>5, <1>6 DEF Mine
  <2> QED BY <2>1, <1>7 DEF Elsewhere, listing
<1>10. \A x \in Link : data[x] = NoData => data'[x] = NoData
  BY <1>2, <1>6, NowhereYet
<1>11. NewLinks(c)'
  <2>1. \A n \in 1 .. MaxCmd : <<c, n>> \in Link
    BY DEF Link
  <2> QED BY <2>1, <1>1, <1>10 DEF Whole, NewLinks, Fresh, Conn
<1>12. Links(c)'
  BY <1>2, <1>7 DEF Links, Linked
<1>13. OwnSent(c)'
  <2> SUFFICES ASSUME Own(c)' PROVE FALSE
    BY DEF OwnSent
  <2>1. Conn(c)' = Conn(c) /\ Conn(c) \in Link /\ data'[Conn(c)].to = c /\ ~data'[Conn(c)].reset
    BY DEF Own, LinkTo, Conn
  <2>2. Conn(c) # s
    BY <2>1, <1>5, <1>6, BoundsAssumption
  <2>3. Own(c)
    BY <2>1, <2>2, <1>6 DEF Own, LinkTo
  <2>4. sock[c] = Conn(c)
    BY <2>3, <1>1 DEF Whole, OwnSent, Sent, Gone
  <2> QED BY <2>2, <2>4 DEF s
<1>14. GotNothing(c)'
  BY DEF GotNothing
<1>15. TmpRight(c)'
  <2>1. OtherLs(c)' => OtherLs(c)
    BY DEF OtherLs, Moves
  <2> QED BY <2>1, <1>1 DEF Whole, TmpRight, listing
<1>16. Whole(c)' /\ tmp' = tmp /\ \A d \in Client \ {c} : queue'[d] = queue[d]
  BY <1>11, <1>12, <1>13, <1>14, <1>15 DEF Whole, listing
<1> QED BY <1>8, <1>9, <1>16, OthersWhole

\* the client goes on with the connection that it has
LEMMA GoingOnKeeps ==
    ASSUME SyncInv, TransferInv, NEW c \in Client, Moves(c),
           pc[Cli(c)] \in {"begin", "data"}, pc'[Cli(c)] \in {"data", "done"},
           pc'[Srv(c)] = pc[Srv(c)], in'[Srv(c)] = in[Srv(c)],
           UNCHANGED <<cmd, typed, transfer, listing>>,
           Own(c) /\ pc'[Cli(c)] = "done" => data[Conn(c)].buf = << >> /\ pc[Srv(c)] \in {"cmd", "gone"}
    PROVE  TransferInv'
<1> USE DEF transfer, listing
<1>1. Typed /\ Whole(c)
  BY DEF TransferInv
<1>2. Typed' /\ Elsewhere(c)
  BY <1>1 DEF Typed, Elsewhere
<1>3. NewLinks(c)'
  BY <1>1 DEF Whole, NewLinks, Fresh, Conn
<1>4. Links(c)'
  BY <1>1 DEF Whole, Links, Linked, LinkTo, Gone
<1>5. OwnSent(c)'
  <2> SUFFICES ASSUME Own(c)' PROVE Sent(pc[Cli(c)], pc[Srv(c)], cmd[Cli(c)], Conn(c), queue[c], sock[c], got[c],
               data[Conn(c)], pos[c], alone[c])'
    BY DEF OwnSent
  <2>1. Conn(c)' = Conn(c) /\ Own(c)
    BY DEF Own, LinkTo, Conn
  <2>2. Sent(pc[Cli(c)], pc[Srv(c)], cmd[Cli(c)], Conn(c), queue[c], sock[c], got[c],
             data[Conn(c)], pos[c], alone[c])
    BY <2>1, <1>1 DEF Whole, OwnSent, Gone
  <2>3. Sent(pc'[Cli(c)], pc[Srv(c)], cmd[Cli(c)], Conn(c), queue[c], sock[c], got[c],
             data[Conn(c)], pos[c], alone[c])
    BY <2>1, <2>2 DEF Sent, Holding
  <2> QED BY <2>1, <2>3
<1>6. GotNothing(c)'
  BY DEF GotNothing
<1>7. TmpRight(c)'
  <2>1. OtherLs(c)' => OtherLs(c)
    BY DEF OtherLs, Moves
  <2> QED BY <2>1, <1>1 DEF Whole, TmpRight
<1>8. Whole(c)'
  BY <1>3, <1>4, <1>5, <1>6, <1>7 DEF Whole
<1> QED BY <1>2, <1>8, OthersWhole

\* The command's first reply either ends it or begins the transfer.
LEMMA BeginKeeps ==
    ASSUME SyncInv, TransferInv, NEW c \in Client, Begin(c)
    PROVE  TransferInv'
<1>1. PICK m \in Recv(Cli(c)) :
        LET over == Over(cmd[Cli(c)], m) IN
        /\ Hear(Cli(c), m, IF over THEN "prompt" ELSE "data")
        /\ IF over THEN CloseData(c) ELSE UNCHANGED <<sock, data>>
  BY DEF Begin
<1>2. pc[Cli(c)] = "begin" /\ UNCHANGED <<cmd, typed, listens, queue, got, listing>>
  BY DEF Begin
<1>3. CASE Over(cmd[Cli(c)], m)
  <2>1. Hear(Cli(c), m, "prompt") /\ CloseData(c)
    BY <1>1, <1>3
  <2>2. Moves(c) /\ pc'[Cli(c)] = "prompt" /\ pc'[Srv(c)] = pc[Srv(c)] /\ in'[Srv(c)] = in[Srv(c)]
    BY <2>1, <1>2, EndHears, Before
  <2> QED BY <2>1, <2>2, <1>2, ClosingKeeps
<1>4. CASE ~Over(cmd[Cli(c)], m)
  <2>1. Hear(Cli(c), m, "data") /\ UNCHANGED <<sock, data>>
    BY <1>1, <1>4
  <2>2. Moves(c) /\ pc'[Cli(c)] = "data" /\ pc'[Srv(c)] = pc[Srv(c)] /\ in'[Srv(c)] = in[Srv(c)]
    BY <2>1, <1>2, EndHears, Before
  <2> QED BY <2>1, <2>2, <1>2, GoingOnKeeps DEF transfer
<1> QED BY <1>3, <1>4

\* The last reply ends the command.
LEMMA DoneKeeps ==
    ASSUME SyncInv, TransferInv, NEW c \in Client, Done(c)
    PROVE  TransferInv'
<1>1. PICK m \in Recv(Cli(c)) : Hear(Cli(c), m, "prompt")
  BY DEF Done
<1>2. pc[Cli(c)] = "done" /\ CloseData(c) /\ UNCHANGED <<cmd, typed, listens, queue, got, listing>>
  BY DEF Done
<1>3. Moves(c) /\ pc'[Cli(c)] = "prompt" /\ pc'[Srv(c)] = pc[Srv(c)] /\ in'[Srv(c)] = in[Srv(c)]
  BY <1>1, <1>2, EndHears, Before
<1> QED BY <1>2, <1>3, ClosingKeeps

\* The client reads the end of the file: if the connection is its own child's, that
\* has sent all.
LEMMA ReceiveEofKeeps ==
    ASSUME SyncInv, TransferInv, NEW c \in Client, ReceiveEof(c)
    PROVE  TransferInv'
<1>1. /\ pc[Cli(c)] = "data" /\ data[sock[c]].buf = << >> /\ Goto(Cli(c), "done")
      /\ data[sock[c]].closed \/ Gone(Srv(sock[c][1]))
      /\ UNCHANGED <<control, cmd, typed, transfer, listing>>
  BY DEF ReceiveEof
<1>2. Moves(c) /\ pc'[Cli(c)] = "done" /\ pc'[Srv(c)] = pc[Srv(c)] /\ in' = in
  BY <1>1, EndGoes, Before
<1>3. ASSUME Own(c) PROVE data[Conn(c)].buf = << >> /\ pc[Srv(c)] \in {"cmd", "gone"}
  <2>1. sock[c] = Conn(c) /\ (data[Conn(c)].closed => pc[Srv(c)] \in {"cmd", "gone"})
    BY <1>1, <1>3 DEF TransferInv, Whole, OwnSent, Sent, Gone
  <2>2. Conn(c)[1] = c
    BY DEF Conn
  <2> QED BY <2>1, <2>2, <1>1 DEF Gone
<1> QED BY <1>1, <1>2, <1>3, GoingOnKeeps

\* a step that changes neither places nor the control connections
LEMMA StillMoves ==
    ASSUME SyncInv, NEW c \in Client, UNCHANGED <<pc, control>>
    PROVE  Moves(c)
BY DEF SyncInv, Maps, ControlMaps, ResetKnown, Gone, Moves, control

\* A block goes from the connection to the client.
LEMMA ReceiveKeeps ==
    ASSUME SyncInv, TransferInv, NEW c \in Client, Receive(c)
    PROVE  TransferInv'
<1> DEFINE s == sock[c]
           b == data[s].buf
<1>1. /\ pc[Cli(c)] = "data" /\ b # << >>
      /\ got' = [got EXCEPT ![c] = Append(@, Head(b))]
      /\ UNCHANGED <<pc, control, cmd, typed, listens, queue, sock, listing>>
  BY DEF Receive
<1>2. data' = [data EXCEPT ![s] = Filled(data[s], Tail(b))]
  BY DEF Receive, Filled
<1>3. Typed /\ Whole(c) /\ Moves(c)
  BY <1>1, StillMoves DEF TransferInv
<1>4. LinkTo(s, c)
  BY <1>1, <1>3 DEF Whole, Links, Linked, Gone
<1>5. /\ data' = [x \in Link |-> data'[x]] /\ \A x \in Link \ {s} : data'[x] = data[x]
      /\ data'[s] = Filled(data[s], Tail(b))
  BY <1>2, <1>3, <1>4 DEF Typed, LinkTo
<1>6. /\ IsData(data'[s]) /\ data'[s].to = data[s].to /\ data'[s].reset = data[s].reset
      /\ data'[s].closed = data[s].closed /\ data'[s].buf = Tail(b)
  <2>1. IsData(data[s])
    BY <1>3, <1>4 DEF Typed, LinkTo
  <2> DEFINE r == data[s]
             t == Tail(b)
  <2> HIDE DEF r, s, b, t
  <2>2. /\ IsData(Filled(r, t)) /\ Filled(r, t).buf = t /\ Filled(r, t).to = r.to
        /\ Filled(r, t).closed = r.closed /\ Filled(r, t).reset = r.reset
    BY <2>1, DataFacts DEF r
  <2> QED BY <2>2, <1>5 DEF r, t
<1>7. /\ got' = [d \in Client |-> got'[d]] /\ got'[c] = Append(got[c], Head(b))
      /\ \A d \in Client \ {c} : got'[d] = got[d]
  BY <1>1, <1>3 DEF Typed
<1>8. Typed'
  <2>1. \A x \in Link : IsData(data'[x])
    BY <1>3, <1>5, <1>6 DEF Typed
  <2> QED BY <2>1, <1>1, <1>3, <1>5, <1>7 DEF Typed, listing
<1> HIDE DEF s, b
<1>9. Elsewhere(c)
  <2>1. \A x \in Link : data'[x] = data[x] \/ Mine(c, x)
    BY <1>4, <1>5, <1>6 DEF Mine, LinkTo
  <2> QED BY <2>1, <1>1, <1>3, <1>7 DEF Elsewhere, listing
<1>10. \A x \in Link : data[x] = NoData => data'[x] = NoData
  BY <1>4, <1>5, NowhereYet
<1>11. NewLinks(c)'
  <2>1. \A n \in 1 .. MaxCmd : <<c, n>> \in Link
    BY DEF Link
  <2> QED BY <2>1, <1>1, <1>3, <1>10 DEF Whole, NewLinks, Fresh, Conn, control
<1>12. \A x \in Link : data'[x].to = data[x].to /\ data'[x].reset = data[x].reset
  BY <1>5, <1>6
<1>13. Links(c)'
  BY <1>1, <1>3, <1>12 DEF Whole, Links, Linked, LinkTo, Gone
<1>14. OwnSent(c)'
  <2> SUFFICES ASSUME Own(c)' PROVE Sent(pc[Cli(c)], pc[Srv(c)], cmd[Cli(c)], Conn(c), queue[c], sock[c], got[c],
               data[Conn(c)], pos[c], alone[c])'
    BY DEF OwnSent
  <2>1. Conn(c)' = Conn(c) /\ Own(c)
    BY <1>1, <1>12 DEF Own, LinkTo, Conn
  <2>2. Sent("data", pc[Srv(c)], cmd[Cli(c)], Conn(c), queue[c], sock[c], got[c],
             data[Conn(c)], pos[c], alone[c])
    BY <2>1, <1>1, <1>3 DEF Whole, OwnSent, Gone
  <2>3. s = Conn(c)
    BY <2>2 DEF Sent, s
  <2>4. ASSUME NEW f, NEW p \in Nat, Carried(got[c], b, f, p)
        PROVE  Carried(got'[c], Tail(b), f, p)
    BY <2>4, <1>1, <1>7, CarriedFacts
  <2>5. pos[c] \in Nat /\ ListLen \in Nat /\ (\A f \in File : Length[f] \in Nat)
    BY <1>3, BoundsAssumption DEF Typed
  <2>6. ASSUME NEW f \in File, FileSent(pc[Srv(c)], got[c], b, pos[c], f)
        PROVE  FileSent(pc[Srv(c)], got'[c], Tail(b), pos[c], f)
    BY <2>4, <2>5, <2>6, <1>1 DEF FileSent
  <2>7. ASSUME ListSent(pc[Srv(c)], got[c], b, pos[c], alone[c])
        PROVE  ListSent(pc[Srv(c)], got'[c], Tail(b), pos[c], alone[c])
    BY <2>4, <2>5, <2>7, <1>1 DEF ListSent
  <2>8. Sent("data", pc[Srv(c)], cmd[Cli(c)], Conn(c), queue[c], sock[c], got'[c],
             data'[Conn(c)], pos[c], alone[c])
    BY <2>2, <2>3, <2>6, <2>7, <1>6 DEF Sent, b
  <2> QED BY <2>1, <2>8, <1>1 DEF listing
<1>15. GotNothing(c)'
  BY <1>1 DEF GotNothing
<1>16. TmpRight(c)'
  <2>1. OtherLs(c)' => OtherLs(c)
    BY <1>1 DEF OtherLs
  <2> QED BY <2>1, <1>1, <1>3 DEF Whole, TmpRight, listing
<1>17. Whole(c)' /\ tmp' = tmp /\ queue' = queue /\ pc' = pc
  BY <1>1, <1>11, <1>13, <1>14, <1>15, <1>16 DEF Whole, listing
<1> QED BY <1>8, <1>9, <1>17, OthersWhole

-----------------------------------------------------------------------------
(***************************************************************************)
(* The steps of the child that concern data connections.                   *)
(***************************************************************************)

\* A child that serves and its client have the same command; the child reads nothing.
LEMMA SameCommand ==
    ASSUME SyncInv, NEW c \in Client, pc[Srv(c)] \in {"connect", "list", "ls", "retr", "send"}
    PROVE  /\ in[Srv(c)] = << >>
           /\ pc[Cli(c)] # "gone" => /\ cmd[Srv(c)] = cmd[Cli(c)]
                                     /\ pc[Cli(c)] \in Connecting \cup Receiving
                                     /\ pc[Srv(c)] # "send" => pc[Cli(c)] \in Connecting
                                     /\ pc[Srv(c)] \in {"list", "ls"} => cmd[Cli(c)] = LIST
                                     /\ pc[Srv(c)] = "retr" => cmd[Cli(c)] # LIST
<1>1. Met(c)
  BY Before
<1>2. CASE pc[Cli(c)] = "gone"
  BY <1>1, <1>2 DEF Met, Pair, ChildLeft
<1>3. CASE pc[Cli(c)] # "gone"
  BY <1>1, <1>3 DEF Met, Pair, Together, LoggingIn, LoggedIn, Transferring, Connecting, Receiving
<1> QED BY <1>2, <1>3

\* LIST is not RETR.
LEMMA KindsDiffer == \A f : RETR(f) # LIST /\ RETR(f).arg = f /\ LIST.arg = Listing
BY DEF RETR, LIST

\* what a step of a serving child leaves as it was, of its own
LEMMA ServingNew ==
    ASSUME TransferInv, NEW c \in Client, pc'[Srv(c)] \notin {"ack", "connect"}, typed' = typed,
           pc'[Srv(c)] = "cmd" => in'[Srv(c)] = << >>,
           \A x \in Link : x # Conn(c) => data'[x] = data[x]
    PROVE  NewLinks(c)'
<1>1. Typed /\ NewLinks(c) /\ typed[c] \in 0 .. MaxCmd
  BY DEF TransferInv, Whole, Typed
<1>2. \A n \in 1 .. MaxCmd : n > typed[c] => <<c, n>> \in Link /\ <<c, n>> # Conn(c)
  BY <1>1 DEF Conn, Link
<1> QED BY <1>1, <1>2 DEF NewLinks

\* A listing that fails at its beginning: the child ends, with nothing sent.
LEMMA ListFailsKeeps ==
    ASSUME SyncInv, TransferInv, NEW c \in Client, ListFails(c)
    PROVE  TransferInv'
<1>1. /\ pc[Srv(c)] = "list" /\ Goto(Srv(c), "gone")
      /\ UNCHANGED <<control, cmd, typed, listens, queue, data, sock, got, pos, tmp, alone>>
  BY DEF ListFails, transfer, listing
<1>2. Moves(c) /\ pc'[Cli(c)] = pc[Cli(c)] /\ in' = in /\ pc'[Srv(c)] = "gone"
  BY <1>1, EndGoes, Before
<1>3. Typed /\ Whole(c)
  BY DEF TransferInv
<1>4. Typed' /\ Elsewhere(c)
  BY <1>1, <1>2, <1>3 DEF Typed, Elsewhere
<1>5. NewLinks(c)'
  BY <1>1, <1>2, ServingNew
<1>6. Links(c)'
  BY <1>1, <1>2, <1>3 DEF Whole, Links, Linked, LinkTo, Gone
<1>7. OwnSent(c)'
  <2> SUFFICES ASSUME Own(c)', pc[Cli(c)] # "gone"
               PROVE  Sent(pc[Cli(c)], pc[Srv(c)], cmd[Cli(c)], Conn(c), queue[c], sock[c], got[c],
                           data[Conn(c)], pos[c], alone[c])'
    BY <1>2 DEF OwnSent, Gone
  <2>1. Conn(c)' = Conn(c) /\ Own(c)
    BY <1>1 DEF Own, LinkTo, Conn
  <2>2. Sent(pc[Cli(c)], "list", cmd[Cli(c)], Conn(c), queue[c], sock[c], got[c],
             data[Conn(c)], pos[c], alone[c])
    BY <2>1, <1>1, <1>3 DEF Whole, OwnSent, Gone
  <2>3. Sent(pc[Cli(c)], "gone", cmd[Cli(c)], Conn(c), queue[c], sock[c], got[c],
             data[Conn(c)], pos[c], alone[c])
    BY <2>2 DEF Sent, FileSent, ListSent
  <2> QED BY <2>1, <2>3, <1>1, <1>2
<1>8. GotNothing(c)'
  BY <1>1, <1>2, <1>3 DEF Whole, GotNothing
<1>9. TmpRight(c)'
  BY <1>2 DEF TmpRight
<1>10. Whole(c)'
  BY <1>5, <1>6, <1>7, <1>8, <1>9 DEF Whole
<1> QED BY <1>1, <1>2, <1>4, <1>10, OthersWhole

\* A listing begins: another that has begun is no longer alone.
LEMMA ListKeeps ==
    ASSUME SyncInv, TransferInv, NEW c \in Client, List(c)
    PROVE  TransferInv'
<1>1. /\ pc[Srv(c)] = "list" /\ Goto(Srv(c), "ls") /\ tmp' = {}
      /\ alone' = [d \in Client |->
                     IF d = c THEN \A x \in Client : pc[Srv(x)] # "ls"
                     ELSE alone[d] /\ pc[Srv(d)] \notin {"ls", "send"}]
      /\ UNCHANGED <<control, cmd, typed, listens, queue, data, sock, got, pos>>
  BY DEF List, transfer
<1>2. Moves(c) /\ pc'[Cli(c)] = pc[Cli(c)] /\ in' = in /\ pc'[Srv(c)] = "ls"
  BY <1>1, EndGoes, Before
<1>3. Typed /\ Whole(c)
  BY DEF TransferInv
<1>4. /\ alone' \in [Client -> BOOLEAN]
      /\ alone'[c] => \A x \in Client : pc[Srv(x)] # "ls"
      /\ \A d \in Client \ {c} : alone'[d] => alone[d] /\ pc[Srv(d)] \notin {"ls", "send"}
  BY <1>1, <1>3 DEF Typed
<1>5. Typed' /\ Elsewhere(c)
  BY <1>1, <1>2, <1>3, <1>4 DEF Typed, Elsewhere
<1>6. NewLinks(c)'
  BY <1>1, <1>2, ServingNew
<1>7. Links(c)'
  BY <1>1, <1>2, <1>3 DEF Whole, Links, Linked, LinkTo, Gone
<1>8. OwnSent(c)'
  <2> SUFFICES ASSUME Own(c)', pc[Cli(c)] # "gone"
               PROVE  Sent(pc[Cli(c)], pc[Srv(c)], cmd[Cli(c)], Conn(c), queue[c], sock[c], got[c],
                           data[Conn(c)], pos[c], alone[c])'
    BY <1>2 DEF OwnSent, Gone
  <2>1. Conn(c)' = Conn(c) /\ Own(c)
    BY <1>1 DEF Own, LinkTo, Conn
  <2>2. Sent(pc[Cli(c)], "list", cmd[Cli(c)], Conn(c), queue[c], sock[c], got[c],
             data[Conn(c)], pos[c], alone[c])
    BY <2>1, <1>1, <1>3 DEF Whole, OwnSent, Gone
  <2>3. Sent(pc[Cli(c)], "ls", cmd[Cli(c)], Conn(c), queue[c], sock[c], got[c],
             data[Conn(c)], pos[c], alone'[c])
    BY <2>2 DEF Sent, FileSent, ListSent
  <2> QED BY <2>1, <2>3, <1>1, <1>2
<1>9. GotNothing(c)'
  BY <1>1, <1>2, <1>3 DEF Whole, GotNothing
<1>10. TmpRight(c)'
  <2>1. pos'[c] = 0 /\ 0 <= ListLen /\ tmp' = 1 .. 0
    BY <1>1, <1>3, BoundsAssumption DEF Whole, TmpRight
  <2>2. alone'[c] => ~OtherLs(c)'
    BY <1>2, <1>4 DEF OtherLs, Moves
  <2> QED BY <2>1, <2>2, <1>2 DEF TmpRight
<1>11. Whole(c)'
  BY <1>6, <1>7, <1>8, <1>9, <1>10 DEF Whole
<1>12. ASSUME NEW d \in Client, d # c PROVE Links(d)' /\ TmpRight(d)'
  <2>1. Links(d)'
    BY <1>1, <1>5, <1>12, OthersLinked
  <2>2. TmpRight(d)
    BY DEF TransferInv, Whole
  <2>3. alone'[d] => pc'[Srv(d)] \notin {"ls", "send"}
    BY <1>2, <1>4, <1>12 DEF Moves
  <2>4. TmpRight(d)'
    BY <1>5, <1>12, <2>2, <2>3 DEF TmpRight, Elsewhere, Moves
  <2> QED BY <2>1, <2>4
<1> QED BY <1>1, <1>5, <1>11, <1>12, OthersKept

\* ls writes a block; no other ls runs with it that thinks itself alone.
LEMMA LsKeeps ==
    ASSUME SyncInv, TransferInv, NEW c \in Client, Ls(c)
    PROVE  TransferInv'
<1>1. /\ pc[Srv(c)] = "ls" /\ pos[c] < ListLen
      /\ pos' = [pos EXCEPT ![c] = @ + 1] /\ tmp' = tmp \cup {pos[c] + 1}
      /\ UNCHANGED <<pc, control, cmd, typed, listens, queue, data, sock, got, alone>>
  BY DEF Ls, transfer
<1>2. Typed /\ Whole(c) /\ Moves(c) /\ ListLen \in Nat
  BY <1>1, StillMoves, BoundsAssumption DEF TransferInv
<1>3. /\ pos[c] \in Nat /\ pos' \in [Client -> Nat] /\ pos'[c] = pos[c] + 1
      /\ \A d \in Client \ {c} : pos'[d] = pos[d]
  BY <1>1, <1>2 DEF Typed
<1>4. Typed' /\ Elsewhere(c)
  BY <1>1, <1>2, <1>3 DEF Typed, Elsewhere
<1>5. NewLinks(c)'
  BY <1>1, ServingNew
<1>6. Links(c)'
  BY <1>1, <1>2 DEF Whole, Links, Linked, LinkTo, Gone
<1>7. OwnSent(c)'
  <2> SUFFICES ASSUME Own(c)', pc[Cli(c)] # "gone"
               PROVE  Sent(pc[Cli(c)], pc[Srv(c)], cmd[Cli(c)], Conn(c), queue[c], sock[c], got[c],
                           data[Conn(c)], pos[c], alone[c])'
    BY <1>1 DEF OwnSent, Gone
  <2>1. Conn(c)' = Conn(c) /\ Own(c)
    BY <1>1 DEF Own, LinkTo, Conn
  <2>2. Sent(pc[Cli(c)], "ls", cmd[Cli(c)], Conn(c), queue[c], sock[c], got[c],
             data[Conn(c)], pos[c], alone[c])
    BY <2>1, <1>1, <1>2 DEF Whole, OwnSent, Gone
  <2>3. Sent(pc[Cli(c)], "ls", cmd[Cli(c)], Conn(c), queue[c], sock[c], got[c],
             data[Conn(c)], pos'[c], alone[c])
    BY <2>2 DEF Sent, FileSent, ListSent
  <2> QED BY <2>1, <2>3, <1>1
<1>8. GotNothing(c)'
  BY <1>1, <1>2 DEF Whole, GotNothing
<1>9. TmpRight(c)'
  <2>1. alone[c] => tmp = 1 .. pos[c] /\ ~OtherLs(c)
    BY <1>1, <1>2 DEF Whole, TmpRight
  <2>2. tmp = 1 .. pos[c] => tmp' = 1 .. pos'[c]
    BY <1>1, <1>3
  <2>3. pos'[c] <= ListLen
    BY <1>1, <1>2, <1>3
  <2> QED BY <2>1, <2>2, <2>3, <1>1 DEF TmpRight, OtherLs
<1>10. Whole(c)'
  BY <1>5, <1>6, <1>7, <1>8, <1>9 DEF Whole
<1>11. ASSUME NEW d \in Client, d # c PROVE Links(d)' /\ TmpRight(d)'
  <2>1. Links(d)'
    BY <1>1, <1>4, <1>11, OthersLinked
  <2>2. TmpRight(d) /\ OtherLs(d)
    BY <1>1, <1>11 DEF TransferInv, Whole, OtherLs
  <2>3. TmpRight(d)'
    BY <1>1, <1>3, <1>11, <2>2 DEF TmpRight
  <2> QED BY <2>1, <2>3
<1> QED BY <1>1, <1>4, <1>10, <1>11, OthersKept

\* The child hangs up: what is on its way still arrives.
LEMMA HungUp ==
    ASSUME Typed, NEW c \in Client, data' = HangUp(c)
    PROVE  /\ data' = [x \in Link |-> data'[x]]
           /\ \A x \in Link : /\ IsData(data'[x]) /\ (x # Conn(c) => data'[x] = data[x])
                              /\ data'[x].to = data[x].to /\ data'[x].buf = data[x].buf
                              /\ data'[x].reset = data[x].reset
<1> DEFINE y == Conn(c)
<1>1. data' = [data EXCEPT ![y] = Closed(data[y])]
  BY DEF HangUp, Closed
<1> HIDE DEF y
<1>2. data = [x \in Link |-> data[x]] /\ \A x \in Link : IsData(data[x])
  BY DEF Typed
<1>3. /\ data' = [x \in Link |-> data'[x]]
      /\ \A x \in Link : (x # y => data'[x] = data[x]) /\ (x = y => data'[x] = Closed(data[x]))
  BY <1>1, <1>2
<1>4. ASSUME NEW x \in Link
      PROVE  /\ IsData(data'[x]) /\ data'[x].to = data[x].to /\ data'[x].buf = data[x].buf
             /\ data'[x].reset = data[x].reset
  <2> DEFINE r == data[x]
             n == data'[x]
  <2>1. IsData(r) /\ (n = r \/ n = Closed(r))
    BY <1>2, <1>3
  <2> HIDE DEF r, n
  <2>2. IsData(n) /\ n.to = r.to /\ n.buf = r.buf /\ n.reset = r.reset
    BY <2>1, DataFacts
  <2> QED BY <2>2 DEF r, n
<1> QED BY <1>3, <1>4 DEF y

\* the child says how far it is, and hangs up or does not
LEMMA SayingKeeps ==
    ASSUME SyncInv, TransferInv, NEW c \in Client, NEW k, NEW l \in {"send", "cmd"},
           Say(Srv(c), Reply(k), l), pc[Srv(c)] \in {"ls", "retr", "send"},
           data' = data \/ (data' = HangUp(c) /\ l = "cmd"),
           pos' \in [Client -> Nat], \A d \in Client \ {c} : pos'[d] = pos[d],
           UNCHANGED <<cmd, typed, listens, queue, sock, got, tmp, alone>>,
           ASSUME Own(c), pc[Cli(c)] # "gone"
           PROVE  /\ \A f \in File : cmd[Cli(c)] = RETR(f) =>
                                        FileSent(l, got[c], data[Conn(c)].buf, pos'[c], f)
                  /\ cmd[Cli(c)] = LIST => ListSent(l, got[c], data[Conn(c)].buf, pos'[c], alone[c]),
           l = "send" /\ cmd[Srv(c)] = LIST /\ alone[c] => tmp = 1 .. ListLen /\ ~OtherLs(c)
    PROVE  TransferInv'
<1>1. Typed /\ Whole(c) /\ Send(Srv(c), in, rst, Reply(k), l, l)
  BY DEF TransferInv, Say
<1>2. /\ Moves(c) /\ pc'[Cli(c)] = pc[Cli(c)] /\ in'[Srv(c)] = in[Srv(c)]
      /\ pc[Cli(c)] # "gone" => pc'[Srv(c)] = l
      /\ pc'[Srv(c)] \in {l, "gone"}
  BY <1>1, EndSays, Before
<1>3. /\ data' = [x \in Link |-> data'[x]]
      /\ \A x \in Link : /\ IsData(data'[x]) /\ (x # Conn(c) => data'[x] = data[x])
                         /\ data'[x].to = data[x].to /\ data'[x].buf = data[x].buf
                         /\ data'[x].reset = data[x].reset
  <2>1. CASE data' = data
    BY <2>1, <1>1 DEF Typed
  <2>2. CASE data' = HangUp(c)
    BY <2>2, <1>1, HungUp
  <2> QED BY <2>1, <2>2
<1>4. Typed'
  BY <1>1, <1>3 DEF Typed
<1>5. Elsewhere(c)
  BY <1>2, <1>3 DEF Elsewhere, Mine
<1>6. NewLinks(c)'
  BY <1>2, <1>3, SameCommand, ServingNew
<1>7. Links(c)'
  BY <1>1, <1>2, <1>3 DEF Whole, Links, Linked, LinkTo, Gone
<1>8. OwnSent(c)'
  <2> SUFFICES ASSUME Own(c)', pc[Cli(c)] # "gone"
               PROVE  Sent(pc[Cli(c)], pc[Srv(c)], cmd[Cli(c)], Conn(c), queue[c], sock[c], got[c],
                           data[Conn(c)], pos[c], alone[c])'
    BY <1>2 DEF OwnSent, Gone
  <2>1. Conn(c)' = Conn(c) /\ Own(c)
    BY <1>3 DEF Own, LinkTo, Conn
  <2>2. Conn(c) \in Link /\ data'[Conn(c)].buf = data[Conn(c)].buf
    BY <2>1, <1>3 DEF Own, LinkTo
  <2>3. Sent(pc[Cli(c)], pc[Srv(c)], cmd[Cli(c)], Conn(c), queue[c], sock[c], got[c],
             data[Conn(c)], pos[c], alone[c])
    BY <2>1, <1>1 DEF Whole, OwnSent, Gone
  <2>4. data'[Conn(c)].closed => l = "cmd"
    BY <2>3 DEF Sent
  <2>5. /\ \A f \in File : cmd[Cli(c)] = RETR(f) => FileSent(l, got[c], data[Conn(c)].buf, pos'[c], f)
        /\ cmd[Cli(c)] = LIST => ListSent(l, got[c], data[Conn(c)].buf, pos'[c], alone[c])
    BY <2>1
  <2>6. Sent(pc[Cli(c)], l, cmd[Cli(c)], Conn(c), queue[c], sock[c], got[c],
             data'[Conn(c)], pos'[c], alone[c])
    BY <2>2, <2>3, <2>4, <2>5 DEF Sent
  <2> QED BY <2>1, <2>6, <1>2
<1>9. GotNothing(c)'
  BY <1>1, <1>2 DEF Whole, GotNothing
<1>10. TmpRight(c)'
  <2>1. OtherLs(c)' => OtherLs(c)
    BY <1>2 DEF OtherLs, Moves
  <2> QED BY <2>1, <1>2 DEF TmpRight
<1>11. Whole(c)' /\ ~(pc'[Srv(c)] = "ls")
  BY <1>2, <1>6, <1>7, <1>8, <1>9, <1>10 DEF Whole
<1> QED BY <1>4, <1>5, <1>11, OthersWhole

\* ls has ended: nothing was sent yet
LEMMA LsDoneKeeps ==
    ASSUME SyncInv, TransferInv, NEW c \in Client, LsDone(c)
    PROVE  TransferInv'
<1>1. /\ pc[Srv(c)] = "ls" /\ pos[c] >= ListLen /\ pos' = [pos EXCEPT ![c] = 0]
      /\ Say(Srv(c), Reply("1"), "send")
      /\ UNCHANGED <<cmd, typed, listens, queue, sock, got, tmp, alone>> /\ data' = data
  BY DEF LsDone, transfer
<1>2. Typed /\ Whole(c) /\ ListLen \in Nat
  BY BoundsAssumption DEF TransferInv
<1>3. pos[c] \in Nat /\ pos' \in [Client -> Nat] /\ pos'[c] = 0 /\ \A d \in Client \ {c} : pos'[d] = pos[d]
  BY <1>1, <1>2 DEF Typed
<1>4. ASSUME Own(c), pc[Cli(c)] # "gone"
      PROVE  /\ \A f \in File : cmd[Cli(c)] = RETR(f) =>
                                   FileSent("send", got[c], data[Conn(c)].buf, pos'[c], f)
             /\ cmd[Cli(c)] = LIST => ListSent("send", got[c], data[Conn(c)].buf, pos'[c], alone[c])
  <2>1. cmd[Cli(c)] = LIST /\ pc[Cli(c)] \in Connecting
    BY <1>1, <1>4, SameCommand
  <2>2. got[c] = << >>
    BY <2>1, <1>2 DEF Whole, GotNothing, Connecting
  <2>3. data[Conn(c)].buf = << >>
    BY <2>1, <1>1, <1>2, <1>4 DEF Whole, OwnSent, Gone, Sent, ListSent
  <2>4. Carried(got[c], data[Conn(c)].buf, Listing, 0)
    BY <2>2, <2>3, CarriedFacts
  <2> QED BY <2>1, <2>4, <1>2, <1>3, KindsDiffer DEF ListSent
<1>5. alone[c] => tmp = 1 .. ListLen /\ ~OtherLs(c)
  <2>1. alone[c] => pos[c] <= ListLen /\ tmp = 1 .. pos[c] /\ ~OtherLs(c)
    BY <1>1, <1>2 DEF Whole, TmpRight
  <2>2. pos[c] <= ListLen => pos[c] = ListLen
    BY <1>1, <1>2, <1>3
  <2> QED BY <2>1, <2>2
<1> QED BY <1>1, <1>3, <1>4, <1>5, SayingKeeps

\* A file is opened, or the command ends; nothing was sent yet.
LEMMA RetrKeeps ==
    ASSUME SyncInv, TransferInv, NEW c \in Client, Retr(c)
    PROVE  TransferInv'
<1>1. /\ pc[Srv(c)] = "retr" /\ UNCHANGED <<cmd, typed, listens, queue, sock, got, tmp, alone>> /\ pos' = pos
      /\ IF cmd[Srv(c)].arg \in File THEN Say(Srv(c), Reply("150"), "send") /\ UNCHANGED data
         ELSE Say(Srv(c), Reply("550"), "cmd") /\ data' = HangUp(c)
  BY DEF Retr, listing
<1>2. Typed /\ Whole(c)
  BY DEF TransferInv
<1>3. pos' \in [Client -> Nat] /\ pos'[c] = 0 /\ \A d \in Client \ {c} : pos'[d] = pos[d]
  BY <1>1, <1>2 DEF Typed, Whole, TmpRight
<1>4. cmd[Srv(c)] # LIST
  BY <1>1, <1>2 DEF Whole, TmpRight
<1>5. pc[Cli(c)] # "gone" => cmd[Srv(c)] = cmd[Cli(c)] /\ pc[Cli(c)] \in Connecting /\ cmd[Cli(c)] # LIST
  BY <1>1, SameCommand
<1>6. CASE cmd[Srv(c)].arg \in File
  <2>1. ASSUME Own(c), pc[Cli(c)] # "gone"
        PROVE  /\ \A f \in File : cmd[Cli(c)] = RETR(f) =>
                                     FileSent("send", got[c], data[Conn(c)].buf, pos'[c], f)
               /\ cmd[Cli(c)] = LIST => ListSent("send", got[c], data[Conn(c)].buf, pos'[c], alone[c])
    <3>1. got[c] = << >>
      BY <2>1, <1>2, <1>5 DEF Whole, GotNothing, Connecting
    <3>2. ASSUME NEW f \in File, cmd[Cli(c)] = RETR(f)
          PROVE  FileSent("send", got[c], data[Conn(c)].buf, pos'[c], f)
      <4>1. data[Conn(c)].buf = << >>
        BY <1>1, <1>2, <2>1, <3>2 DEF Whole, OwnSent, Gone, Sent, FileSent
      <4>2. Carried(got[c], data[Conn(c)].buf, f, 0)
        BY <3>1, <4>1, CarriedFacts
      <4>3. 0 <= Length[f]
        BY BoundsAssumption
      <4> QED BY <4>2, <4>3, <1>3 DEF FileSent
    <3> QED BY <2>1, <3>2, <1>5
  <2> QED BY <2>1, <1>1, <1>3, <1>4, <1>6, SayingKeeps
<1>7. CASE cmd[Srv(c)].arg \notin File
  <2>1. ASSUME Own(c), pc[Cli(c)] # "gone"
        PROVE  /\ \A f \in File : cmd[Cli(c)] = RETR(f) =>
                                     FileSent("cmd", got[c], data[Conn(c)].buf, pos'[c], f)
               /\ cmd[Cli(c)] = LIST => ListSent("cmd", got[c], data[Conn(c)].buf, pos'[c], alone[c])
    BY <2>1, <1>5, <1>7, KindsDiffer
  <2> QED BY <2>1, <1>1, <1>3, <1>7, SayingKeeps
<1> QED BY <1>6, <1>7

\* of a listing that nobody disturbed, tmp.txt has all blocks
LEMMA SizeIs ==
    ASSUME TransferInv, NEW c \in Client, pc[Srv(c)] = "send"
    PROVE  /\ \A f \in File : Size(f) = Length[f] /\ \A k : Block(f, k) = <<f, k>>
           /\ cmd[Srv(c)] = LIST /\ alone[c] =>
                 Size(Listing) = ListLen /\ \A k \in 1 .. ListLen : Block(Listing, k) = <<Listing, k>>
<1>1. ASSUME NEW f \in File PROVE Size(f) = Length[f] /\ \A k : Block(f, k) = <<f, k>>
  BY BoundsAssumption DEF Size, Block
<1>2. ASSUME cmd[Srv(c)] = LIST, alone[c]
      PROVE  Size(Listing) = ListLen /\ \A k \in 1 .. ListLen : Block(Listing, k) = <<Listing, k>>
  <2>1. tmp = 1 .. ListLen /\ ListLen \in Nat
    BY <1>2, BoundsAssumption DEF TransferInv, Whole, TmpRight
  <2>2. ListLen \in tmp \cup {0} /\ \A k \in tmp \cup {0} : k \in Int /\ k <= ListLen
    BY <2>1
  <2>3. Max(tmp \cup {0}) = ListLen
    BY <2>1, <2>2 DEF Max
  <2> QED BY <2>1, <2>3 DEF Size, Block
<1> QED BY <1>1, <1>2

\* The child has sent all that there is, and hangs up.
LEMMA SendDoneKeeps ==
    ASSUME SyncInv, TransferInv, NEW c \in Client, SendDone(c)
    PROVE  TransferInv'
<1>1. /\ pc[Srv(c)] = "send" /\ pos[c] >= Size(cmd[Srv(c)].arg)
      /\ Say(Srv(c), Reply("226"), "cmd") /\ data' = HangUp(c)
      /\ UNCHANGED <<cmd, typed, listens, queue, sock, got, tmp, alone>> /\ pos' = pos
  BY DEF SendDone, listing
<1>2. Typed /\ Whole(c)
  BY DEF TransferInv
<1>3. pos' \in [Client -> Nat] /\ pos[c] \in Nat /\ \A d \in Client \ {c} : pos'[d] = pos[d]
  BY <1>1, <1>2 DEF Typed
<1>4. ASSUME Own(c), pc[Cli(c)] # "gone"
      PROVE  /\ \A f \in File : cmd[Cli(c)] = RETR(f) =>
                                   FileSent("cmd", got[c], data[Conn(c)].buf, pos'[c], f)
             /\ cmd[Cli(c)] = LIST => ListSent("cmd", got[c], data[Conn(c)].buf, pos'[c], alone[c])
  <2>1. cmd[Srv(c)] = cmd[Cli(c)]
    BY <1>1, <1>4, SameCommand
  <2>2. Sent(pc[Cli(c)], "send", cmd[Cli(c)], Conn(c), queue[c], sock[c], got[c],
             data[Conn(c)], pos[c], alone[c])
    BY <1>1, <1>2, <1>4 DEF Whole, OwnSent, Gone
  <2>3. ASSUME NEW f \in File, cmd[Cli(c)] = RETR(f)
        PROVE  FileSent("cmd", got[c], data[Conn(c)].buf, pos'[c], f)
    <3>1. pos[c] >= Length[f] /\ Length[f] \in Nat
      BY <2>1, <2>3, <1>1, SizeIs, KindsDiffer, BoundsAssumption
    <3>2. pos[c] <= Length[f] /\ Carried(got[c], data[Conn(c)].buf, f, pos[c])
      BY <2>2, <2>3 DEF Sent, FileSent
    <3>3. pos[c] = Length[f]
      BY <3>1, <3>2, <1>3
    <3> QED BY <3>2, <3>3 DEF FileSent
  <2>4. ASSUME cmd[Cli(c)] = LIST
        PROVE  ListSent("cmd", got[c], data[Conn(c)].buf, pos'[c], alone[c])
    <3> SUFFICES ASSUME alone[c] PROVE Carried(got[c], data[Conn(c)].buf, Listing, ListLen)
      BY DEF ListSent
    <3>1. pos[c] >= ListLen /\ ListLen \in Nat
      BY <2>1, <2>4, <1>1, SizeIs, KindsDiffer, BoundsAssumption
    <3>2. pos[c] <= ListLen /\ Carried(got[c], data[Conn(c)].buf, Listing, pos[c])
      BY <2>2, <2>4 DEF Sent, ListSent
    <3>3. pos[c] = ListLen
      BY <3>1, <3>2, <1>3
    <3> QED BY <3>2, <3>3
  <2> QED BY <2>3, <2>4
<1> QED BY <1>1, <1>3, <1>4, SayingKeeps

\* A block is sent, in vain, or with a signal that ends the child.
LEMMA SendBlockKeeps ==
    ASSUME SyncInv, TransferInv, NEW c \in Client, SendBlock(c)
    PROVE  TransferInv'
<1> DEFINE f == cmd[Srv(c)].arg
           k == pos[c] + 1
           y == Conn(c)
           b == data[y].buf
<1>1. /\ pc[Srv(c)] = "send" /\ k <= Size(f) /\ pos' = [pos EXCEPT ![c] = k]
      /\ UNCHANGED <<control, cmd, typed, listens, queue, sock, got, tmp, alone>>
  BY DEF SendBlock, After
<1>2. \/ Lost(c) /\ data' = data /\ (pc' = pc \/ Goto(Srv(c), "gone"))
      \/ ~Lost(c) /\ pc' = pc /\ data' = [data EXCEPT ![y] = Filled(data[y], Append(b, Block(f, k)))]
  BY DEF SendBlock, Goto, Filled
<1>3. Typed /\ Whole(c)
  BY DEF TransferInv
<1>4. /\ pos[c] \in Nat /\ pos' \in [Client -> Nat] /\ pos'[c] = k
      /\ \A d \in Client \ {c} : pos'[d] = pos[d]
  BY <1>1, <1>3 DEF Typed
<1>5. Moves(c) /\ pc'[Cli(c)] = pc[Cli(c)] /\ pc'[Srv(c)] \in {"send", "gone"} /\ in' = in
  <2>1. CASE pc' = pc
    BY <2>1, <1>1, StillMoves DEF control
  <2>2. CASE Goto(Srv(c), "gone")
    BY <2>2, <1>1, EndGoes, Before
  <2> QED BY <2>1, <2>2, <1>2
<1> HIDE DEF f, y, b
<1>6. /\ data' = [x \in Link |-> data'[x]]
      /\ \A x \in Link : /\ IsData(data'[x]) /\ (x # y => data'[x] = data[x])
                         /\ data'[x].to = data[x].to /\ data'[x].reset = data[x].reset
                         /\ data'[x].closed = data[x].closed
      /\ Lost(c) => data' = data
      /\ y \in Link /\ ~Lost(c) => data'[y].buf = Append(b, Block(f, k))
  <2>1. CASE data' = data /\ Lost(c)
    BY <2>1, <1>3 DEF Typed
  <2>2. CASE ~Lost(c)
    <3> DEFINE t == Append(b, Block(f, k))
    <3>1. data' = [data EXCEPT ![y] = Filled(data[y], t)]
      BY <2>2, <1>2
    <3> HIDE DEF t
    <3>2. /\ data' = [x \in Link |-> data'[x]]
          /\ \A x \in Link : (x # y => data'[x] = data[x]) /\ (x = y => data'[x] = Filled(data[x], t))
      BY <3>1, <1>3 DEF Typed
    <3>3. ASSUME NEW x \in Link
          PROVE  /\ IsData(data'[x]) /\ data'[x].to = data[x].to /\ data'[x].reset = data[x].reset
                 /\ data'[x].closed = data[x].closed /\ (x = y => data'[x].buf = t)
      <4> DEFINE r == data[x]
                 n == data'[x]
      <4>1. IsData(r) /\ (n = r \/ n = Filled(r, t)) /\ (x = y => n = Filled(r, t))
        BY <3>2, <1>3 DEF Typed
      <4> HIDE DEF r, n
      <4>2. /\ IsData(n) /\ n.to = r.to /\ n.reset = r.reset /\ n.closed = r.closed
            /\ x = y => n.buf = t
        BY <4>1, DataFacts
      <4> QED BY <4>2 DEF r, n
    <3> QED BY <2>2, <3>2, <3>3 DEF t
  <2> QED BY <2>1, <2>2, <1>2
<1>7. Typed'
  BY <1>1, <1>3, <1>4, <1>6 DEF Typed
<1>8. Elsewhere(c)
  BY <1>1, <1>4, <1>5, <1>6 DEF Elsewhere, Mine, y
<1>9. NewLinks(c)'
  BY <1>1, <1>5, <1>6, ServingNew DEF y
<1>10. Links(c)'
  BY <1>1, <1>3, <1>5, <1>6 DEF Whole, Links, Linked, LinkTo, Gone
<1>11. OwnSent(c)'
  <2> SUFFICES ASSUME Own(c)', pc[Cli(c)] # "gone"
               PROVE  Sent(pc[Cli(c)], pc[Srv(c)], cmd[Cli(c)], Conn(c), queue[c], sock[c], got[c],
                           data[Conn(c)], pos[c], alone[c])'
    BY <1>5 DEF OwnSent, Gone
  <2>1. Conn(c)' = Conn(c) /\ Own(c) /\ y \in Link
    BY <1>1, <1>6 DEF Own, LinkTo, Conn, y
  <2>2. ~Lost(c)
    BY <2>1 DEF Lost, Own, LinkTo, Gone
  <2>3. pc' = pc /\ data'[y].buf = Append(b, Block(f, k)) /\ data'[y].closed = data[y].closed
    BY <2>1, <2>2, <1>2, <1>6
  <2>4. Sent(pc[Cli(c)], "send", cmd[Cli(c)], y, queue[c], sock[c], got[c], data[y], pos[c], alone[c])
    BY <2>1, <1>1, <1>3 DEF Whole, OwnSent, Gone, y
  <2>5. cmd[Srv(c)] = cmd[Cli(c)]
    BY <1>1, SameCommand
  <2>6. ASSUME NEW g \in File, cmd[Cli(c)] = RETR(g)
        PROVE  FileSent("send", got[c], Append(b, Block(f, k)), k, g)
    <3>1. f = g /\ Block(f, k) = <<g, k>> /\ k <= Length[g]
      BY <2>5, <2>6, <1>1, SizeIs, KindsDiffer DEF f
    <3>2. Carried(got[c], b, g, pos[c])
      BY <2>4, <2>6 DEF Sent, FileSent, b
    <3>3. Carried(got[c], Append(b, <<g, k>>), g, k)
      BY <3>2, <1>4, CarriedFacts
    <3> QED BY <3>1, <3>3 DEF FileSent
  <2>7. ASSUME cmd[Cli(c)] = LIST
        PROVE  ListSent("send", got[c], Append(b, Block(f, k)), k, alone[c])
    <3> SUFFICES ASSUME alone[c]
                 PROVE  k <= ListLen /\ Carried(got[c], Append(b, Block(f, k)), Listing, k)
      BY DEF ListSent
    <3>1. f = Listing /\ k <= ListLen /\ \A j \in 1 .. ListLen : Block(Listing, j) = <<Listing, j>>
      BY <2>5, <2>7, <1>1, SizeIs, KindsDiffer DEF f
    <3>2. k \in 1 .. ListLen
      BY <3>1, <1>4, BoundsAssumption
    <3>3. Carried(got[c], b, Listing, pos[c])
      BY <2>4, <2>7 DEF Sent, ListSent, b
    <3>4. Carried(got[c], Append(b, <<Listing, k>>), Listing, k)
      BY <3>3, <1>4, CarriedFacts
    <3> QED BY <3>1, <3>2, <3>4
  <2> HIDE DEF k
  <2>8. Sent(pc[Cli(c)], "send", cmd[Cli(c)], y, queue[c], sock[c], got[c], data'[y], k, alone[c])
    BY <2>3, <2>4, <2>6, <2>7 DEF Sent
  <2> QED BY <2>1, <2>3, <2>8, <1>1, <1>4 DEF y
<1>12. GotNothing(c)'
  BY <1>1, <1>3, <1>5 DEF Whole, GotNothing
<1>13. TmpRight(c)'
  <2>1. OtherLs(c)' => OtherLs(c)
    BY <1>5 DEF OtherLs, Moves
  <2> QED BY <2>1, <1>1, <1>3, <1>5 DEF Whole, TmpRight
<1>14. Whole(c)'
  BY <1>9, <1>10, <1>11, <1>12, <1>13 DEF Whole
<1> QED BY <1>1, <1>5, <1>7, <1>8, <1>14, OthersWhole

\* a further element of a sequence
LEMMA Longer ==
    ASSUME NEW S, NEW q \in Seq(S), NEW x \in S
    PROVE  /\ Append(q, x) \in Seq(S) /\ Len(q) \in Nat
           /\ \A i \in 1 .. Len(q) : i \in 1 .. Len(Append(q, x)) /\ Append(q, x)[i] = q[i]
           /\ \A i \in 1 .. Len(Append(q, x)) : i \in 1 .. Len(q) \/ i = Len(q) + 1
           /\ Len(q) + 1 \in 1 .. Len(Append(q, x)) /\ Append(q, x)[Len(q) + 1] = x
BY AppendProperties, LenProperties

\* The child connects to whoever listens on its client's host.
LEMMA ConnectBackKeeps ==
    ASSUME SyncInv, TransferInv, NEW c \in Client, ConnectBack(c)
    PROVE  TransferInv'
<1> DEFINE y == Conn(c)
           to == IF cmd[Srv(c)] = LIST THEN "list" ELSE "retr"
<1>1. PICK e \in Listeners(Host[c]) : /\ queue' = [queue EXCEPT ![e] = Append(@, y)]
                                      /\ data' = [data EXCEPT ![y] = [NoData EXCEPT !.to = e]]
  BY DEF ConnectBack
<1>2. /\ pc[Srv(c)] = "connect" /\ Goto(Srv(c), to) /\ pos' = [pos EXCEPT ![c] = 0]
      /\ UNCHANGED <<control, cmd, typed, listens, sock, got, tmp, alone>>
  BY DEF ConnectBack
<1>3. Typed /\ Whole(c) /\ e \in Client /\ listens[e] /\ ~Gone(Cli(e))
  BY DEF TransferInv, Listeners
<1>4. y \in Link /\ data[y] = NoData
  BY <1>2, <1>3 DEF Whole, NewLinks, Fresh
<1>5. Moves(c) /\ pc'[Cli(c)] = pc[Cli(c)] /\ pc'[Srv(c)] = to /\ in' = in
  BY <1>2, EndGoes, Before
<1> HIDE DEF y
<1>6. /\ data' = [x \in Link |-> data'[x]] /\ \A x \in Link \ {y} : data'[x] = data[x]
      /\ data'[y] = [to |-> e, buf |-> << >>, closed |-> FALSE, reset |-> FALSE]
  BY <1>1, <1>3, <1>4 DEF Typed, NoData
<1>7. /\ IsData(data'[y]) /\ data'[y].to = e /\ data'[y].buf = << >>
      /\ ~data'[y].closed /\ ~data'[y].reset
  BY <1>6 DEF IsData
<1>8. /\ queue'[e] = Append(queue[e], y) /\ queue' \in [Client -> Seq(Link)]
      /\ \A d \in Client \ {e} : queue'[d] = queue[d]
  <2>1. queue[e] \in Seq(Link) /\ Append(queue[e], y) \in Seq(Link)
    BY <1>3, <1>4, Longer DEF Typed
  <2> QED BY <2>1, <1>1, <1>3 DEF Typed
<1>9. /\ \A i \in 1 .. Len(queue[e]) : i \in 1 .. Len(queue'[e]) /\ queue'[e][i] = queue[e][i]
      /\ \A i \in 1 .. Len(queue'[e]) : i \in 1 .. Len(queue[e]) \/ i = Len(queue[e]) + 1
      /\ Len(queue[e]) + 1 \in 1 .. Len(queue'[e]) /\ queue'[e][Len(queue[e]) + 1] = y
  BY <1>3, <1>4, <1>8, Longer DEF Typed
<1>10. pos' \in [Client -> Nat] /\ pos'[c] = 0 /\ \A d \in Client \ {c} : pos'[d] = pos[d]
  BY <1>2, <1>3 DEF Typed
<1>11. Typed'
  <2>1. \A x \in Link : IsData(data'[x])
    BY <1>3, <1>6, <1>7 DEF Typed
  <2> QED BY <2>1, <1>2, <1>3, <1>6, <1>8, <1>10 DEF Typed
<1>12. Elsewhere(c)
  BY <1>2, <1>4, <1>5, <1>6, <1>10 DEF Elsewhere, Mine, y
<1>13. NewLinks(c)'
  BY <1>2, <1>5, <1>6, ServingNew DEF y
<1>14. \A d \in Client : \A x : LinkTo(x, d) => /\ x # y /\ x \in Link
                                               /\ data'[x].to = d /\ ~data'[x].reset
  BY <1>4, <1>6, NowhereYet DEF LinkTo
<1>15. pc[Cli(e)] = "accept" /\ sock[e] = None /\ Linked(e)
  <2>1. Linked(e)
    BY <1>3 DEF TransferInv, Whole, Links
  <2> QED BY <2>1, <1>3 DEF Linked
<1>16. Links(e)'
  <2>2. \A i \in 1 .. Len(queue'[e]) : LET x == queue'[e][i]
                                      IN  x \in Link /\ data'[x].to = e /\ ~data'[x].reset
    BY <1>3, <1>4, <1>7, <1>9, <1>14, <1>15 DEF Linked
  <2>3. \A i \in 1 .. Len(queue[e]) : queue[e][i] # y
    BY <1>3, <1>14, <1>15 DEF Linked
  <2>4. \A i, j \in 1 .. Len(queue'[e]) : queue'[e][i] = queue'[e][j] => i = j
    BY <2>3, <1>9, <1>15 DEF Linked
  <2>5. pc'[Cli(e)] = "accept" /\ sock'[e] = None
    BY <1>2, <1>3, <1>5, <1>15 DEF Moves
  <2> QED BY <2>2, <2>4, <2>5 DEF Links, Linked, LinkTo
<1>17. Links(c)'
  <2>1. CASE e = c
    BY <2>1, <1>16
  <2>2. CASE e # c
    <3>1. \A x : LinkTo(x, c) => LinkTo(x, c)'
      BY <1>14 DEF LinkTo
    <3> QED BY <3>1, <2>2, <1>2, <1>3, <1>5, <1>8 DEF Whole, Links, Linked, Gone
  <2> QED BY <2>1, <2>2
<1>18. OwnSent(c)'
  <2> SUFFICES ASSUME Own(c)', pc[Cli(c)] # "gone"
               PROVE  Sent(pc[Cli(c)], pc[Srv(c)], cmd[Cli(c)], Conn(c), queue[c], sock[c], got[c],
                           data[Conn(c)], pos[c], alone[c])'
    BY <1>5 DEF OwnSent, Gone
  <2>1. Conn(c)' = y
    BY <1>2 DEF Conn, y
  <2>2. e = c
    BY <2>1, <1>7 DEF Own, LinkTo
  <2>3. cmd[Srv(c)] = cmd[Cli(c)]
    BY <1>2, SameCommand
  <2>4. \E i \in 1 .. Len(queue'[c]) : queue'[c][i] = y
    BY <2>2, <1>9
  <2>5. cmd[Cli(c)] = LIST => to = "list"
    BY <2>3
  <2>6. ASSUME NEW f \in File, cmd[Cli(c)] = RETR(f) PROVE to = "retr"
    BY <2>3, <2>6, KindsDiffer
  <2> HIDE DEF to
  <2>7. Sent("accept", to, cmd[Cli(c)], y, queue'[c], sock'[c], got[c], data'[y], 0, alone[c])
    BY <2>4, <2>5, <2>6, <1>7 DEF Sent, FileSent, ListSent
  <2>8. pc'[Cli(c)] = "accept"
    BY <2>2, <1>5, <1>15
  <2> QED BY <2>1, <2>7, <2>8, <1>2, <1>5, <1>10
<1>19. GotNothing(c)'
  BY <1>2, <1>3, <1>5 DEF Whole, GotNothing
<1>20. TmpRight(c)'
  BY <1>2, <1>5, <1>10 DEF TmpRight
<1>21. Whole(c)'
  BY <1>13, <1>17, <1>18, <1>19, <1>20 DEF Whole
<1>22. ASSUME NEW d \in Client, d # c
       PROVE  /\ \A i \in 1 .. Len(queue[d]) : i \in 1 .. Len(queue'[d]) /\ queue'[d][i] = queue[d][i]
              /\ Links(d)' /\ TmpRight(d)'
  <2>1. TmpRight(d)'
    BY <1>2, <1>5, <1>12, <1>22, OthersTmp
  <2>2. CASE d = e
    BY <2>1, <2>2, <1>9, <1>16
  <2>3. CASE d # e
    <3>1. queue'[d] = queue[d]
      BY <2>3, <1>8
    <3>2. Links(d)'
      BY <3>1, <1>12, <1>22, OthersLinked
    <3> QED BY <2>1, <3>1, <3>2
  <2> QED BY <2>2, <2>3
<1> QED BY <1>11, <1>12, <1>21, <1>22, OthersKept

-----------------------------------------------------------------------------
(***************************************************************************)
(* Every step, and the theorem.                                            *)
(***************************************************************************)

\* Nothing changes but what the network knows of a reset.
LEMMA SameKeeps ==
    ASSUME TransferInv, UNCHANGED <<pc, in, cmd, typed, transfer, listing>>
    PROVE  TransferInv'
<1> USE DEF transfer, listing
<1>1. Typed'
  BY DEF TransferInv, Typed
<1>2. ASSUME NEW c \in Client PROVE Whole(c)'
  <2>1. Whole(c)
    BY DEF TransferInv
  <2>2. NewLinks(c)'
    BY <2>1 DEF Whole, NewLinks, Fresh, Conn
  <2>3. Links(c)'
    BY <2>1 DEF Whole, Links, Linked, LinkTo, Gone
  <2>4. OwnSent(c)'
    BY <2>1 DEF Whole, OwnSent, Own, LinkTo, Conn, Gone
  <2>5. GotNothing(c)'
    BY <2>1 DEF Whole, GotNothing
  <2>6. TmpRight(c)'
    BY <2>1 DEF Whole, TmpRight, OtherLs
  <2> QED BY <2>2, <2>3, <2>4, <2>5, <2>6 DEF Whole
<1> QED BY <1>1, <1>2 DEF TransferInv

\* Every step keeps the invariant: the user's, ...
LEMMA UserKeeps ==
    ASSUME SyncInv, TransferInv, NEW c \in Client, User(c)
    PROVE  TransferInv'
<1>1. CASE Connect(c)
  BY <1>1, ConnectIsQuiet
<1>2. CASE Interrupt(c)
  BY <1>2, EndingIsQuiet
<1>3. CASE \E w \in Word : GiveWord(c, w, "name", "wait") \/ GiveWord(c, w, "pass", "verdict")
  BY <1>3, GiveWordIsQuiet
<1>4. CASE \E k \in Commands : Type(c, k)
  BY <1>4, TypeKeeps
<1> QED BY <1>1, <1>2, <1>3, <1>4 DEF User

\* ... the client's ...
LEMMA WorksKeeps ==
    ASSUME SyncInv, TransferInv, NEW c \in Client, Works(c)
    PROVE  TransferInv'
BY HearingIsQuiet, OpenKeeps, AcceptKeeps, EndingIsQuiet, BeginKeeps, ReceiveKeeps, ReceiveEofKeeps, DoneKeeps
   DEF Works

\* ... and the child's.
LEMMA ServesKeeps ==
    ASSUME SyncInv, TransferInv, NEW c \in Client, Serves(c)
    PROVE  TransferInv'
BY LoginIsQuiet, CommandIsQuiet, GetAckIsQuiet, ConnectBackKeeps, ListKeeps, ListFailsKeeps, LsKeeps,
   LsDoneKeeps, RetrKeeps, SendBlockKeeps, SendDoneKeeps
   DEF Serves

\* So does every step.
LEMMA NextKeeps == SyncInv /\ TransferInv /\ [Next]_vars => TransferInv'
<1> SUFFICES ASSUME SyncInv, TransferInv, [Next]_vars PROVE TransferInv'
  OBVIOUS
<1>1. CASE \E c \in Client : User(c)
  BY <1>1, UserKeeps
<1>2. CASE Processes
  BY <1>2, WorksKeeps, ServesKeeps DEF Processes
<1>3. CASE Network
  BY <1>3, SameKeeps DEF Network, ResetArrives
<1>4. CASE UNCHANGED vars
  BY <1>4, SameKeeps DEF vars, control
<1> QED BY <1>1, <1>2, <1>3, <1>4 DEF Next

\* At first there are no connections.
LEMMA InitKeeps == Init => TransferInv
<1> SUFFICES ASSUME Init PROVE TransferInv
  OBVIOUS
<1>1. /\ pc = [e \in End |-> "new"] /\ in = [e \in End |-> << >>]
      /\ typed = [c \in Client |-> 0] /\ listens = [c \in Client |-> FALSE]
      /\ queue = [c \in Client |-> << >>] /\ data = [x \in Link |-> NoData]
      /\ sock = [c \in Client |-> None] /\ got = [c \in Client |-> << >>]
      /\ pos = [c \in Client |-> 0] /\ alone = [c \in Client |-> TRUE]
  BY DEF Init, Link
<1>2. Typed
  <2>1. IsData(NoData) /\ 0 \in 0 .. MaxCmd
    BY BoundsAssumption DEF IsData, NoData
  <2>2. queue \in [Client -> Seq(Link)]
    BY <1>1
  <2>3. data = [x \in Link |-> data[x]] /\ \A x \in Link : data[x] = NoData
    BY <1>1
  <2>4. \A x \in Link : IsData(data[x])
    BY <2>1, <2>3
  <2> QED BY <2>1, <2>2, <2>3, <2>4, <1>1 DEF Typed
<1>3. ASSUME NEW c \in Client PROVE Whole(c)
  <2>1. /\ pc[Cli(c)] = "new" /\ pc[Srv(c)] = "new" /\ ~listens[c] /\ queue[c] = << >>
        /\ sock[c] = None /\ \A x \in Link : data[x] = NoData
    BY <1>1, Ends
  <2>2. NewLinks(c)
    <3>1. \A n \in 1 .. MaxCmd : <<c, n>> \in Link
      BY DEF Link
    <3> QED BY <3>1, <2>1 DEF NewLinks
  <2>3. Links(c)
    BY <2>1 DEF Links, Linked
  <2>4. OwnSent(c)
    BY <2>1, NowhereYet DEF OwnSent, Own, LinkTo
  <2>5. GotNothing(c) /\ TmpRight(c)
    BY <2>1 DEF GotNothing, TmpRight
  <2> QED BY <2>2, <2>3, <2>4, <2>5 DEF Whole
<1> QED BY <1>2, <1>3 DEF TransferInv

\* At the end of a transfer over its own connection the client has received everything.
LEMMA TransferInvSuffices == TransferInv => GotWhole
<1> SUFFICES ASSUME TransferInv, NEW c \in Client
             PROVE  /\ \A f \in File : Finished(c, RETR(f)) => got[c] = Blocks(f, Length[f])
                    /\ Finished(c, LIST) /\ alone[c] /\ ~Gone(Srv(c)) => got[c] = Blocks(Listing, ListLen)
  BY DEF GotWhole
<1>1. ASSUME NEW k, Finished(c, k)
      PROVE  Sent("done", pc[Srv(c)], k, Conn(c), queue[c], sock[c], got[c], data[Conn(c)], pos[c], alone[c])
  <2>1. pc[Cli(c)] = "done" /\ cmd[Cli(c)] = k /\ sock[c] = Conn(c) /\ Whole(c)
    BY <1>1 DEF Finished, TransferInv
  <2>2. Own(c)
    BY <2>1 DEF Whole, Links, Linked, Gone, Own
  <2> QED BY <2>1, <2>2 DEF Whole, OwnSent, Gone
<1>2. ASSUME NEW f \in File, Finished(c, RETR(f)) PROVE got[c] = Blocks(f, Length[f])
  <2>1. Carried(got[c], << >>, f, Length[f]) /\ Length[f] \in Nat
    BY <1>1, <1>2, BoundsAssumption DEF Sent, FileSent
  <2> QED BY <2>1, CarriedFacts
<1>3. ASSUME Finished(c, LIST), alone[c], ~Gone(Srv(c)) PROVE got[c] = Blocks(Listing, ListLen)
  <2>1. Carried(got[c], << >>, Listing, ListLen) /\ ListLen \in Nat
    BY <1>1, <1>3, BoundsAssumption DEF Sent, ListSent, Gone
  <2> QED BY <2>1, CarriedFacts
<1> QED BY <1>2, <1>3

(***************************************************************************)
(* A file that a client received over its own data connection is whole, in *)
(* order and without a block of another; a listing is, if no other child   *)
(* wrote tmp.txt meanwhile and its own did not die (ftp_serve_send_file,   *)
(* ftp_serve_list, ftp_client_get).                                        *)
(***************************************************************************)
THEOREM AlwaysGotWhole == Spec => []GotWhole
<1>1. Init => SyncInv /\ TransferInv
  BY InitMeets, InitKeeps
<1>2. SyncInv /\ TransferInv /\ [Next]_vars => (SyncInv /\ TransferInv)'
  BY NextMeets, NextKeeps
<1>3. SyncInv /\ TransferInv => GotWhole
  BY TransferInvSuffices
<1> QED BY <1>1, <1>2, <1>3, PTL DEF Spec
=============================================================================
