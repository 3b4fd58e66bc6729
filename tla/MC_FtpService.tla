--------------------------- MODULE MC_FtpService ----------------------------
(***************************************************************************)
(* The FTP service with clients of one host: two that give a command each, *)
(* or a single one that tries to log in twice and gives three commands.    *)
(***************************************************************************)
EXTENDS FtpService

CONSTANTS c1, c2  \* the clients

VARIABLE program  \* how many of them there are

OneHost == [c \in Client |-> "host"]
Accounts == {"zhangsan", "lisi"}
Words == {"zhangsan", "lisi", "", "mute"}
Fronts == [w \in Words |-> IF w = "" THEN Accounts ELSE {w} \cap Accounts]
Files == [a |-> 1, b |-> 2, e |-> 0]

\* of two clients, each knows a password and gives one command
Visits(c) ==
    \/ Connect(c) \/ Interrupt(c)
    \/ GiveWord(c, "lisi", "name", "wait") \/ GiveWord(c, "lisi", "pass", "verdict")
    \/ typed[c] = 0 /\ \E k \in {LIST, QUIT, RETR("a")} : Type(c, k)

MCInit == Init /\ program \in {"two", "alone"}

MCNext ==
    /\ \/ program = "two" /\ \E c \in Client : Visits(c)
       \/ program = "alone" /\ User(c1)
       \/ Processes
       \/ Network
    /\ UNCHANGED program

\* the fairness of FtpService; of the other client nothing is then enabled
MCSpec == /\ MCInit /\ [][MCNext]_<<vars, program>>
          /\ program = "alone" => /\ WF_vars(Works(c1) \/ Serves(c1))
                                  /\ WF_vars(\E e \in {Cli(c1), Srv(c1)} : ResetArrives(e))

-----------------------------------------------------------------------------
\* A command ends, unless the child has died.
CommandEnds == program = "alone" => CommandEndsFor(c1)

\* A child ends after its client.
ChildEnds == program = "alone" => ChildEndsAfter(c1)
=============================================================================
