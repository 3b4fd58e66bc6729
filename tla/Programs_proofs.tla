--------------------------- MODULE Programs_proofs ---------------------------
(***************************************************************************)
(* Theorems about the smaller programs: what the run checks of the HTTP    *)
(* server's start, the snake, the FTP sample and library and the echo      *)
(* server on small instances, for any configuration file, any field and    *)
(* length of the snake, any files and commands, any clients and lines.     *)
(*                                                                         *)
(* Each program has an inductive invariant of its own; a behaviour is one  *)
(* of one program, whose steps are the only ones it takes.                 *)
(***************************************************************************)
EXTENDS MC_Programs, TLAPS, WellFoundedInduction, SequenceTheorems

\* The programs' variables, by the names that they have there.
\* the start of the HTTP server
pc == m1
file == m2
conf_buf == m3
current_pos == m4
cf == m5
listen_fd == m6
read == m7
\* the snake (pc as above)
dir == m2
coor == m3
food == m4
isEat == m5
\* the FTP sample
client == m1
child == m2
toChild == m3
cmd == m4
toClient == m5
user == m6
typed == m7
listens == m8
dataOpen == m9
dataEnd == m10
pos == m11
served == m12
data == m13
reply == m14
got == m15
ahead == m16
foreign == m17
\* the FTP library (pc, cmd, served, data and got as above)
fn == m2
calls == m3
asked == m5
answered == m6
result == m7
returned == m8
todo == m9
replies == m10
server == m11
put == m14
lost == m16
short == m17
\* the echo server
version == m1
at == m2
first == m3
lines == m4
in == m5
out == m6
answer == m7
ended == m8
buffer == m9
listen == m10
conn == m11
count == m12

USE DEF pc, file, conf_buf, current_pos, cf, listen_fd, read, dir, coor, food,
        isEat, client, child, toChild, cmd, toClient, user, typed, listens,
        dataOpen, dataEnd, pos, served, data, reply, got, ahead, foreign, fn, calls, asked,
        answered, result, returned, todo, replies, server, put, lost, short,
        version, at, first, lines, in, out, answer, ended, buffer, listen, conn, count

-----------------------------------------------------------------------------
(***************************************************************************)
(* The start of the HTTP server.  Of the lines that were read the last one *)
(* for root is the one whose value root points to; it lies below           *)
(* current_pos, where the lines after it go.                               *)
(***************************************************************************)
StartType ==
    /\ file \in Seq(ConfLine) /\ read \in Seq(ConfLine)
    /\ current_pos \in 0..BUF_LEN
    /\ DOMAIN conf_buf = 0..(BUF_LEN - 1) /\ conf_buf = [i \in DOMAIN conf_buf |-> conf_buf[i]]
    /\ DOMAIN cf = {"root", "port", "thread_num"} /\ cf = [k \in DOMAIN cf |-> cf[k]]

\* root points to the value of the line m, the last of its kind
Points(m) ==
    /\ m \in Start!Roots /\ \A k \in Start!Roots : k <= m
    /\ cf.root \in Nat /\ cf.root + read[m].size <= current_pos
    /\ \A i \in 0..(read[m].size - 1) : conf_buf[cf.root + i] = read[m].value

StartInv == StartType /\ (Start!Roots # {} => \E m \in Start!Roots : Points(m))

LEMMA StartInitially ==
    ASSUME Start!Init
    PROVE  StartInv
<1> USE DEF Start!Init
<1>1. StartType
  BY ProgramsAssumption DEF StartType
<1>2. Start!Roots = {}
  BY DEF Start!Roots
<1> QED
  BY <1>1, <1>2 DEF StartInv

\* One more line is read.
LEMMA LineRead ==
    ASSUME StartInv, file # << >>, NEW l, l = Head(file), ~(current_pos + l.size >= BUF_LEN),
           file' = Tail(file), conf_buf' = Start!Stored(l), read' = Append(read, l),
           current_pos' = Start!Moved(l),
           cf' = IF l.key = "root" THEN [cf EXCEPT !.root = current_pos]
                 ELSE IF l.key \in DOMAIN cf THEN [cf EXCEPT ![l.key] = l.value] ELSE cf
    PROVE  StartInv'
<1> USE ProgramsAssumption
<1>1. StartType
  BY DEF StartInv
<1>2. l \in ConfLine /\ l.size \in Nat
  BY <1>1 DEF StartType
<1>3. current_pos' = current_pos + l.size /\ current_pos \in Nat /\ current_pos' < BUF_LEN
  BY <1>1, <1>2 DEF Start!Moved, StartType
<1>4. DOMAIN conf_buf' = DOMAIN conf_buf /\ DOMAIN cf' = DOMAIN cf
  BY DEF Start!Stored
<1>5. StartType'
  <2>1. conf_buf' = [i \in DOMAIN conf_buf' |-> conf_buf'[i]]
    BY DEF Start!Stored
  <2>2. cf' = [k \in DOMAIN cf' |-> cf'[k]]
    <3>1. CASE l.key = "root" \/ l.key \in DOMAIN cf
      BY <3>1
    <3>2. CASE ~(l.key = "root" \/ l.key \in DOMAIN cf)
      BY <3>2, <1>1 DEF StartType
    <3> QED
      BY <3>1, <3>2
  <2>3. file' \in Seq(ConfLine) /\ read' \in Seq(ConfLine)
    BY <1>1, <1>2 DEF StartType
  <2>4. current_pos' \in 0..BUF_LEN
    BY <1>3, <1>2
  <2> QED
    BY <2>1, <2>2, <2>3, <2>4, <1>4, <1>1 DEF StartType
<1>6. PICK len \in Nat :
          /\ DOMAIN read = 1..len /\ DOMAIN read' = 1..(len + 1) /\ read'[len + 1] = l
          /\ \A k \in 1..len : read'[k] = read[k]
  <2> DEFINE len == Len(read)
  <2>1. /\ len \in Nat /\ DOMAIN read = 1..len /\ DOMAIN read' = 1..(len + 1) /\ read'[len + 1] = l
        /\ \A k \in 1..len : read'[k] = read[k]
    BY <1>1, <1>2 DEF StartType
  <2> QED
    BY <2>1
<1>7. Start!Roots' = Start!Roots \cup (IF l.key = "root" THEN {len + 1} ELSE {})
  BY <1>6 DEF Start!Roots
<1>8. \A k \in Start!Roots : k \in 1..len
  BY <1>6 DEF Start!Roots
<1>9. CASE l.key = "root"
  <2>1. cf'.root = current_pos
    BY <1>9, <1>1 DEF StartType
  <2>2. ASSUME NEW i \in 0..(l.size - 1) PROVE conf_buf'[current_pos + i] = l.value
    <3>1. PICK p \in Nat, z \in Nat : p = current_pos /\ z = l.size /\ p + z < BUF_LEN
      BY <1>2, <1>3
    <3>2. i \in 0..(z - 1) /\ p + i \in 0..(BUF_LEN - 1)
      BY <3>1
    <3>3. p + i \in DOMAIN conf_buf
      BY <1>1, <3>2 DEF StartType
    <3>4. conf_buf'[p + i] = l.value
      BY <3>1, <3>2, <3>3 DEF Start!Stored
    <3> QED
      BY <3>1, <3>4
  <2>3. len + 1 \in Start!Roots'
    BY <1>7, <1>9
  <2>4. \A k \in Start!Roots' : k <= len + 1
    BY <1>7, <1>8, <1>6
  <2>5. read'[len + 1].size = l.size /\ read'[len + 1].value = l.value
    BY <1>6
  <2>6. current_pos \in Nat /\ current_pos + l.size <= current_pos'
    BY <1>3, <1>2
  <2>7. Points(len + 1)'
    BY <2>1, <2>2, <2>3, <2>4, <2>5, <2>6 DEF Points
  <2> QED
    BY <2>7, <2>3, <1>5 DEF StartInv
<1>10. CASE l.key # "root"
  <2>1. cf'.root = cf.root
    BY <1>10, <1>1 DEF StartType
  <2>2. Start!Roots' = Start!Roots
    BY <1>10, <1>7
  <2>3. ASSUME NEW m \in Start!Roots, Points(m) PROVE Points(m)'
    <3>1. read'[m] = read[m] /\ read[m] \in ConfLine /\ read[m].size \in Nat
      BY <1>6, <1>8, <1>1 DEF StartType
    <3>2. cf.root \in Nat /\ cf.root + read[m].size <= current_pos
      BY <2>3 DEF Points
    <3>3. ASSUME NEW i \in 0..(read[m].size - 1) PROVE conf_buf'[cf.root + i] = read[m].value
      <4>1. cf.root + i \in DOMAIN conf_buf /\ cf.root + i < current_pos
        <5>1. /\ DOMAIN conf_buf = 0..(BUF_LEN - 1) /\ current_pos \in 0..BUF_LEN
              /\ BUF_LEN \in Nat
          BY <1>1, ProgramsAssumption DEF StartType
        <5>2. PICK r \in Nat, z \in Nat : r = cf.root /\ z = read[m].size
          BY <3>1, <3>2
        <5>3. r + z <= current_pos /\ i \in 0..(z - 1)
          BY <5>2, <3>2
        <5>4. PICK p \in Nat, b \in Nat : p = current_pos /\ b = BUF_LEN /\ p <= b
          BY <5>1
        <5>5. r + z <= p /\ i \in 0..(z - 1)
          BY <5>3, <5>4
        <5>6. r + i \in Nat /\ r + i < p /\ r + i <= b - 1
          BY <5>4, <5>5
        <5> QED
          BY <5>1, <5>2, <5>4, <5>6
      <4>2. conf_buf[cf.root + i] = read[m].value
        BY <2>3 DEF Points
      <4> QED
        BY <4>1, <4>2, <3>2, <1>2, <1>3 DEF Start!Stored
    <3>4. cf.root + read[m].size <= current_pos'
      <4>1. PICK r \in Nat, z \in Nat : r = cf.root /\ z = read[m].size
        BY <3>1, <3>2
      <4>2. r + z <= current_pos /\ current_pos <= current_pos'
        BY <4>1, <3>2, <1>2, <1>3
      <4> QED
        BY <4>1, <4>2, <1>2, <1>3
    <3> QED
      BY <2>1, <2>2, <2>3, <3>1, <3>3, <3>4 DEF Points
  <2> QED
    BY <2>2, <2>3, <1>5 DEF StartInv
<1> QED
  BY <1>9, <1>10

LEMMA StartStep ==
    ASSUME StartInv, [Start!Next]_(Start!vars)
    PROVE  StartInv'
<1>1. ASSUME UNCHANGED <<file, conf_buf, current_pos, cf, read>> PROVE StartInv'
  BY <1>1 DEF StartInv, StartType, Points, Start!Roots
<1>2. CASE Start!ReadConf
  <2> DEFINE l == Head(file)
  <2>1. CASE current_pos + l.size >= BUF_LEN
    <3>1. file' = file
      BY <2>1, <1>2 DEF Start!ReadConf
    <3> QED
      BY <2>1, <3>1, <1>2, <1>1 DEF Start!ReadConf
  <2>2. CASE ~(current_pos + l.size >= BUF_LEN)
    <3> HIDE DEF l
    <3>1. l = Head(file)
      BY DEF l
    <3> QED
      BY <2>2, <3>1, <1>2, LineRead DEF Start!ReadConf
  <2> QED
    BY <2>1, <2>2
<1>3. CASE Start!Options \/ Start!NoConf \/ Start!ConfDone \/ Start!Signal
  BY <1>3, <1>1 DEF Start!Options, Start!NoConf, Start!ConfDone, Start!Signal
<1>4. CASE Start!OpenListenFd \/ Start!MakeSocketNonblocking \/ Start!Over \/ UNCHANGED Start!vars
  BY <1>4, <1>1 DEF Start!OpenListenFd, Start!MakeSocketNonblocking, Start!Over, Start!vars
<1> QED
  BY <1>2, <1>3, <1>4 DEF Start!Next

LEMMA StartSuffices ==
    ASSUME StartInv
    PROVE  Start!RootKept
<1> SUFFICES ASSUME pc = "started", Start!Roots # {}
             PROVE  \A i \in 0..(read[Start!Max(Start!Roots)].size - 1) :
                        conf_buf[cf.root + i] = read[Start!Max(Start!Roots)].value
  BY DEF Start!RootKept
<1>1. PICK m \in Start!Roots : Points(m)
  BY DEF StartInv
<1>2. Start!Roots \subseteq Nat
  BY DEF StartInv, StartType, Start!Roots
<1>3. Start!Max(Start!Roots) = m
  <2>1. \A k \in Start!Roots : m >= k
    BY <1>1, <1>2 DEF Points
  <2>2. \A x \in Start!Roots : (\A y \in Start!Roots : x >= y) => x = m
    BY <1>2, <2>1
  <2> QED
    BY <2>1, <2>2 DEF Start!Max
<1> QED
  BY <1>1, <1>3 DEF Points

\* However many lines there are, and whatever their keys, values and sizes: once
\* the server has started, root points to the value of its last line, which no
\* later line has overwritten (util.c:95).
THEOREM RootAlwaysKept ==
    Spec => []RootKept
<1> DEFINE I == program = "start" => StartInv
<1>1. Init => I
  BY StartInitially DEF Init
<1>2. I /\ [Next]_vars => I'
  <2> SUFFICES ASSUME I, [Next]_vars, program' = "start" PROVE StartInv'
    OBVIOUS
  <2>1. program = "start" /\ [Start!Next]_(Start!vars)
    BY DEF Next, vars, Start!vars
  <2> QED
    BY <2>1, StartStep
<1>3. I => RootKept
  BY StartSuffices DEF RootKept
<1> QED
  BY <1>1, <1>2, <1>3, PTL DEF Spec

-----------------------------------------------------------------------------
(***************************************************************************)
(* The snake.  Between two turns the places that are set are one piece;    *)
(* the place that eating has added is the last, and the next move sets it. *)
(***************************************************************************)
Beside(a, b) == (a[1] - b[1]) * (a[1] - b[1]) + (a[2] - b[2]) * (a[2] - b[2]) = 1

SnakeType ==
    /\ coor \in Seq(Int \X Int) /\ Len(coor) >= 2
    /\ isEat \in {0, 1} /\ isEat = 0 => Len(coor) >= 3
    /\ dir \in Snake!Direction

SnakeOne ==
    /\ \A i, j \in Snake!Parts : i # j => coor[i] # coor[j]
    /\ \A i \in Snake!Parts \ {1} : Beside(coor[i], coor[i - 1])

SnakeInv == pc = "moving" => SnakeType /\ SnakeOne

LEMMA SnakeInitially ==
    ASSUME Snake!Init
    PROVE  SnakeInv
<1> USE DEF Snake!Init, Snake!Zero
<1>1. coor = <<<<1, 0>>, <<0, 0>>>> /\ isEat = 1 /\ dir = "RIGHT"
  OBVIOUS
<1>2. SnakeType
  BY <1>1 DEF SnakeType, Snake!Direction
<1>3. Snake!Parts = {1, 2}
  BY <1>1 DEF Snake!Parts
<1>4. coor[1] = <<1, 0>> /\ coor[2] = <<0, 0>>
  BY <1>1
<1>5. Beside(coor[2], coor[1])
  BY <1>4 DEF Beside
<1>6. coor[1] # coor[2]
  BY <1>4
<1> QED
  BY <1>2, <1>3, <1>5, <1>6 DEF SnakeInv, SnakeOne

\* The place ahead of the head is beside it.
LEMMA AheadIsBeside ==
    ASSUME SnakeType
    PROVE  Snake!Ahead \in Int \X Int /\ Beside(coor[1], Snake!Ahead)
<1>1. PICK x \in Int, y \in Int : coor[1] = <<x, y>> /\ Head(coor) = <<x, y>>
  <2>1. Head(coor) = coor[1] /\ coor[1] \in Int \X Int
    BY DEF SnakeType
  <2> QED
    BY <2>1
<1>2. Head(coor)[1] = x /\ Head(coor)[2] = y /\ coor[1][1] = x /\ coor[1][2] = y
  BY <1>1
<1>3. CASE dir = "UP"
  <2>1. Snake!Ahead = <<x, y - 1>>
    BY <1>3, <1>2 DEF Snake!Ahead
  <2> QED
    BY <2>1, <1>2 DEF Beside
<1>4. CASE dir = "DOWN"
  <2>1. Snake!Ahead = <<x, y + 1>>
    BY <1>4, <1>2 DEF Snake!Ahead
  <2> QED
    BY <2>1, <1>2 DEF Beside
<1>5. CASE dir = "LEFT"
  <2>1. Snake!Ahead = <<x - 1, y>>
    BY <1>5, <1>2 DEF Snake!Ahead
  <2> QED
    BY <2>1, <1>2 DEF Beside
<1>6. CASE dir = "RIGHT"
  <2>1. Snake!Ahead = <<x + 1, y>>
    BY <1>6, <1>2 DEF Snake!Ahead
  <2> QED
    BY <2>1, <1>2 DEF Beside
<1> QED
  BY <1>3, <1>4, <1>5, <1>6 DEF SnakeType, Snake!Direction

LEMMA TurnKeeps ==
    ASSUME SnakeType, SnakeOne, Snake!Tick, ~Snake!BreakGame(Snake!Moved)
    PROVE  SnakeType' /\ SnakeOne'
<1>1. PICK n \in Nat : n >= 2 /\ Len(coor) = n /\ DOMAIN coor = 1..n
  BY DEF SnakeType
<1>2. Snake!Ahead \in Int \X Int /\ Beside(coor[1], Snake!Ahead)
  BY AheadIsBeside
<1> DEFINE moved == Snake!Moved
<1>3. /\ moved \in Seq(Int \X Int) /\ Len(moved) = n /\ moved[1] = Snake!Ahead
      /\ \A i \in 2..n : moved[i] = coor[i - 1]
  <2>1. \A i \in 1..n : (i = 1 => moved[i] = Snake!Ahead) /\ (i # 1 => moved[i] = coor[i - 1])
    BY <1>1 DEF Snake!Moved
  <2>2. \A i \in 1..n : coor[i] \in Int \X Int
    BY <1>1 DEF SnakeType
  <2>3. DOMAIN moved = 1..n /\ moved = [i \in 1..n |-> moved[i]]
    BY <1>1 DEF Snake!Moved
  <2>4. \A i \in 1..n : moved[i] \in Int \X Int
    <3> SUFFICES ASSUME NEW i \in 1..n PROVE moved[i] \in Int \X Int
      OBVIOUS
    <3>1. i # 1 => i - 1 \in 1..n
      OBVIOUS
    <3> QED
      BY <3>1, <2>1, <2>2, <1>2
  <2> HIDE DEF moved
  <2>5. moved \in Seq(Int \X Int)
    <3>1. moved \in [1..n -> Int \X Int]
      BY <2>3, <2>4
    <3> QED
      BY <3>1
  <2>6. Len(moved) = n
    BY <2>3, <2>5
  <2> QED
    BY <2>1, <2>5, <2>6, <1>1
<1>4. \A i \in 2..n : moved[i] # moved[1]
  BY <1>3 DEF Snake!BreakGame
<1>5. \A i, j \in 1..(n - 1) : i # j => coor[i] # coor[j]
  BY <1>1 DEF SnakeOne, Snake!Parts, SnakeType
<1>6. \A i \in 2..(n - 1) : Beside(coor[i], coor[i - 1])
  BY <1>1 DEF SnakeOne, Snake!Parts, SnakeType
<1>7. dir' = dir /\ ((isEat' = 0 /\ coor' = Append(moved, Snake!Zero)) \/ (isEat' = 1 /\ coor' = moved))
  BY DEF Snake!Tick
<1> HIDE DEF moved
<1>8. Snake!Zero \in Int \X Int
  BY DEF Snake!Zero
<1>9. /\ coor' \in Seq(Int \X Int) /\ Len(coor') >= 2
      /\ isEat' \in {0, 1} /\ isEat' = 0 => Len(coor') >= 3
      /\ Snake!Parts' = 1..n /\ \A i \in 1..n : coor'[i] = moved[i]
  <2>1. CASE isEat' = 0 /\ coor' = Append(moved, Snake!Zero)
    <3>1. coor' \in Seq(Int \X Int) /\ Len(coor') = n + 1
      BY <2>1, <1>3, <1>8
    <3>2. \A i \in 1..n : coor'[i] = moved[i]
      BY <2>1, <1>3, <1>8
    <3>3. Snake!Parts' = 1..n
      BY <3>1, <2>1 DEF Snake!Parts
    <3> QED
      BY <3>1, <3>2, <3>3, <2>1, <1>1
  <2>2. CASE isEat' = 1 /\ coor' = moved
    BY <2>2, <1>3, <1>1 DEF Snake!Parts
  <2> QED
    BY <2>1, <2>2, <1>7
<1>10. SnakeType'
  BY <1>9, <1>7 DEF SnakeType
<1>11. ASSUME NEW i \in 1..n, NEW j \in 1..n, i # j PROVE coor'[i] # coor'[j]
  <2>1. CASE i = 1 \/ j = 1
    BY <2>1, <1>11, <1>9, <1>4
  <2>2. CASE i # 1 /\ j # 1
    <3>1. i - 1 \in 1..(n - 1) /\ j - 1 \in 1..(n - 1) /\ i - 1 # j - 1 /\ i \in 2..n /\ j \in 2..n
      BY <2>2, <1>11
    <3>2. coor'[i] = coor[i - 1] /\ coor'[j] = coor[j - 1]
      BY <3>1, <1>3, <1>9
    <3>3. coor[i - 1] # coor[j - 1]
      BY <3>1, <1>5
    <3> QED
      BY <3>2, <3>3
  <2> QED
    BY <2>1, <2>2
<1>12. ASSUME NEW i \in (1..n) \ {1} PROVE Beside(coor'[i], coor'[i - 1])
  <2>1. i \in 2..n /\ i - 1 \in 1..n
    OBVIOUS
  <2>2. coor'[i] = coor[i - 1]
    BY <2>1, <1>3, <1>9
  <2>3. CASE i = 2
    <3>1. coor'[i] = coor[1] /\ coor'[i - 1] = coor'[1]
      BY <2>2, <2>3
    <3>2. coor'[1] = Snake!Ahead
      BY <1>1, <1>3, <1>9
    <3> QED
      BY <3>1, <3>2, <1>2
  <2>4. CASE i # 2
    <3>1. i - 1 \in 2..(n - 1) /\ i - 1 \in 2..n
      BY <2>4
    <3>2. coor'[i - 1] = coor[(i - 1) - 1]
      BY <3>1, <2>1, <1>3, <1>9
    <3> QED
      BY <3>1, <3>2, <2>2, <1>6
  <2> QED
    BY <2>3, <2>4
<1> QED
  BY <1>9, <1>10, <1>11, <1>12 DEF SnakeOne

LEMMA SnakeStep ==
    ASSUME SnakeInv, [Snake!Next]_(Snake!vars)
    PROVE  SnakeInv'
<1> SUFFICES ASSUME pc' = "moving" PROVE SnakeType' /\ SnakeOne'
  BY DEF SnakeInv
<1>1. CASE Snake!Tick
  <2>1. pc = "moving" /\ ~Snake!BreakGame(Snake!Moved)
    BY <1>1 DEF Snake!Tick
  <2> QED
    BY <2>1, <1>1, TurnKeeps DEF SnakeInv
<1>2. CASE Snake!ChangeDirection
  <2>1. SnakeType /\ SnakeOne
    BY <1>2 DEF SnakeInv, Snake!ChangeDirection
  <2>2. dir' \in Snake!Direction /\ UNCHANGED <<coor, isEat>>
    BY <1>2, <2>1 DEF Snake!ChangeDirection, SnakeType
  <2> QED
    BY <2>1, <2>2 DEF SnakeType, SnakeOne, Snake!Parts
<1>3. CASE Snake!Over \/ UNCHANGED Snake!vars
  <2>1. UNCHANGED <<pc, dir, coor, isEat>>
    BY <1>3 DEF Snake!Over, Snake!vars
  <2> QED
    BY <2>1 DEF SnakeInv, SnakeType, SnakeOne, Snake!Parts
<1> QED
  BY <1>1, <1>2, <1>3 DEF Snake!Next

\* On a field of any size, and however long it grows: while the game goes on no
\* two parts of the snake are in one place, and each is next to the one before it
\* (snake.c:65).
THEOREM AlwaysOnePiece ==
    Spec => []OnePiece
<1> DEFINE I == program = "snake" => SnakeInv
<1>1. Init => I
  BY SnakeInitially DEF Init
<1>2. I /\ [Next]_vars => I'
  <2> SUFFICES ASSUME I, [Next]_vars, program' = "snake" PROVE SnakeInv'
    OBVIOUS
  <2>1. program = "snake" /\ [Snake!Next]_(Snake!vars)
    BY DEF Next, vars, Snake!vars
  <2> QED
    BY <2>1, SnakeStep
<1>3. I => OnePiece
  BY DEF SnakeInv, SnakeOne, Beside, OnePiece, Snake!OnePiece
<1> QED
  BY <1>1, <1>2, <1>3, PTL DEF Spec

-----------------------------------------------------------------------------
(***************************************************************************)
(* The FTP sample.  Where the client is says where the child can be, and   *)
(* what is on its way between them; if the child is gone, what it had      *)
(* said.  Nothing is said of a client that is gone.                        *)
(***************************************************************************)
\* the reply before the data, and what is asked for as the client knows it
FtpFirst == IF cmd = "LIST" THEN "1" ELSE "150"
FtpKnown == cmd \in DOMAIN Length \cup {"LIST"}
\* the blocks that a file has; a listing has as many as the child has read of it
FtpWithin == FtpKnown /\ (cmd # "LIST" => pos <= Length[cmd])
FtpFull == FtpKnown /\ (cmd # "LIST" => pos = Length[cmd])

\* the child is at one of s and alive, with u on its way to it
FtpAt(s, u) == child \in s /\ toChild = u

\* the child has connected, or is gone; and to this client
FtpCarrying == client \in {"data", "last"} \/ (client \in {"accept", "first"} /\ dataOpen # "no")
FtpOwn == FtpCarrying /\ ~foreign /\ dataOpen \in {"queued", "accepted"}

\* up to the prompt
FtpLogin ==
    /\ client = "new" => FtpAt({"new"}, << >>) /\ toClient = << >>
    /\ client = "welcome" =>
           \/ FtpAt({"start"}, << >>) /\ toClient = << >>
           \/ FtpAt({"user"}, << >>) /\ toClient = <<"220">>
           \/ child = "gone" /\ toClient \in {<< >>, <<"220">>}
    /\ client = "wait" =>
           \/ FtpAt({"user"}, <<user>>) /\ user \in {"good", "bad"} /\ toClient = << >>
           \/ FtpAt({"pass"}, << >>) /\ toClient = <<"331">>
           \/ child = "gone" /\ toClient \in {<< >>, <<"331">>}
    /\ client = "login" =>
           \/ FtpAt({"pass"}, <<"password">>) /\ toClient = << >>
           \/ FtpAt({"cmd"}, << >>) /\ toClient = <<"230">>
           \/ child = "gone" /\ toClient \in {<< >>, <<"230">>, <<"430">>}

\* up to the data connection
FtpAsking ==
    /\ client = "prompt" =>
           toClient = << >> /\ (FtpAt({"cmd", "close"}, << >>) \/ child = "gone")
    /\ client = "code" =>
           \/ FtpAt({"cmd", "close"}, <<cmd>>) /\ toClient = << >>
           \/ FtpAt({"ack"}, << >>) /\ served = cmd /\ toClient = <<"200">>
           \/ child = "gone" /\ toClient \in {<< >>, <<"200">>, <<"221">>}
    /\ client = "listen" =>
           toClient = << >> /\ ((FtpAt({"ack"}, << >>) /\ served = cmd) \/ child = "gone")
    /\ client \in {"accept", "first"} /\ dataOpen = "no" =>
           toClient = << >> /\ ((FtpAt({"ack"}, <<"ack">>) /\ served = cmd) \/ child = "gone")

\* the replies around the data
FtpReplies ==
    /\ FtpCarrying => child = "gone" \/ (served = cmd /\ FtpAt({"serve", "send", "close", "cmd"}, << >>))
    /\ FtpCarrying /\ client \in {"accept", "first"} =>
           \/ child \in {"serve", "gone"} /\ toClient = << >>
           \/ child \in {"send", "gone"} /\ toClient = <<FtpFirst>>
           \/ child \in {"close", "cmd", "gone"} /\ toClient = <<FtpFirst, "226">>
           \/ child \in {"close", "cmd", "gone"} /\ toClient = <<"550">> /\ ~FtpKnown
    /\ client \in {"data", "last"} =>
           \/ child \in {"send", "gone"} /\ toClient = << >>
           \/ child \in {"close", "cmd", "gone"} /\ toClient = <<"226">>

\* the replies after which all must have been sent
FtpSaidAll == toClient = <<"226">> \/ toClient = <<FtpFirst, "226">>

\* the data
FtpBlocks ==
    FtpOwn =>
        /\ got \in Seq(Ftp!Command \X Nat) /\ data \in Seq(Ftp!Command \X Nat)
        /\ Len(got) + Len(data) = pos
        /\ \A i \in 1..Len(got) : got[i] = <<cmd, i - 1>>
        /\ \A i \in 1..Len(data) : data[i] = <<cmd, Len(got) + i - 1>>
        /\ child = "serve" => pos = 0
        /\ child = "send" => FtpWithin
        /\ FtpSaidAll => FtpFull
        /\ dataEnd => child \in {"cmd", "gone"}
        /\ client = "last" => data = << >> /\ child \in {"cmd", "gone"}

FtpType ==
    /\ cmd \in Ftp!Command /\ pos \in Nat /\ Len(toChild) \in {0, 1}
    /\ client \in {"new", "welcome", "wait", "login", "prompt", "code", "listen",
                   "accept", "first", "data", "last"}
    /\ client \notin {"accept", "first", "data", "last"} => dataOpen = "no"
    /\ client \in {"code", "listen", "accept"} => ~foreign
    /\ client \in {"first", "data", "last"} /\ ~foreign => dataOpen = "accepted"
    /\ client \in {"code", "listen", "accept", "first"} => got = << >>

FtpParts == FtpType /\ FtpLogin /\ FtpAsking /\ FtpReplies /\ FtpBlocks /\ Ftp!Whole

FtpInv == client # "gone" => FtpParts

LEMMA FtpInitially ==
    ASSUME Ftp!Init
    PROVE  FtpInv
<1> USE DEF Ftp!Init
<1>1. FtpType
  BY DEF FtpType, Ftp!Command
<1>2. FtpLogin /\ FtpAsking
  BY DEF FtpLogin, FtpAsking, FtpAt
<1>3. FtpReplies /\ FtpBlocks /\ Ftp!Whole
  BY DEF FtpReplies, FtpBlocks, FtpCarrying, FtpOwn, Ftp!Whole
<1> QED
  BY <1>1, <1>2, <1>3 DEF FtpInv, FtpParts

LEMMA FtpSizeIsNat ==
    ASSUME FtpKnown, cmd # "LIST"
    PROVE  Length[cmd] \in Nat
BY ProgramsAssumption DEF FtpKnown

LEMMA OneMessage ==
    /\ \A m : Append(<< >>, m) = <<m>>
    /\ \A m : Head(<<m>>) = m /\ Tail(<<m>>) = << >> /\ <<m>> # << >>
OBVIOUS

LEMMA TwoMessages ==
    ASSUME NEW m, NEW k
    PROVE  /\ Head(<<m, k>>) = m /\ Tail(<<m, k>>) = <<k>> /\ <<m, k>> # << >>
           /\ Append(<<m>>, k) = <<m, k>>
<1>0. PICK S : m \in S /\ k \in S
  <2>1. m \in {m, k} /\ k \in {m, k}
    OBVIOUS
  <2> QED
    BY <2>1
<1> DEFINE s == <<m, k>>
           a == Append(<<m>>, k)
<1>1. s \in Seq(S) /\ Len(s) = 2 /\ s[1] = m /\ s[2] = k
  BY <1>0
<1>2. <<m>> \in Seq(S) /\ Len(<<m>>) = 1 /\ <<m>>[1] = m
  BY <1>0
<1>3. a \in Seq(S) /\ Len(a) = 2 /\ a[1] = m /\ a[2] = k
  BY <1>0, <1>2
<1> HIDE DEF s, a
<1>4. a = s
  BY <1>1, <1>3
<1>5. Tail(s) \in Seq(S) /\ Len(Tail(s)) = 1 /\ Tail(s)[1] = k /\ Head(s) = m /\ s # << >>
  BY <1>1
<1>6. Tail(s) = <<k>>
  <2> DEFINE t == Tail(s)  o == <<k>>
  <2>1. o \in Seq(S) /\ Len(o) = 1 /\ o[1] = k
    BY <1>0
  <2>2. t \in Seq(S) /\ Len(t) = 1 /\ t[1] = k
    BY <1>5
  <2> HIDE DEF t, o
  <2>3. t = o
    BY <2>1, <2>2
  <2> QED
    BY <2>3 DEF t, o
<1> QED
  BY <1>4, <1>5, <1>6 DEF s, a

\* The client up to its prompt.
LEMMA FtpLoginSteps ==
    ASSUME FtpParts, client' # "gone",
           Ftp!Connect \/ Ftp!Welcome \/ Ftp!Password \/ Ftp!LoggedIn
    PROVE  FtpParts'
<1> USE DEF FtpParts
<1>1. CASE Ftp!Connect
  <2>1. /\ client = "new" /\ client' = "welcome" /\ child' \in {"start", "gone"}
        /\ UNCHANGED <<toChild, toClient, cmd, pos, dataOpen>>
    BY <1>1 DEF Ftp!Connect, Ftp!control, Ftp!transfer
  <2>2. toChild = << >> /\ toClient = << >>
    BY <2>1 DEF FtpLogin, FtpAt
  <2>3. FtpType'
    BY <2>1, <2>2 DEF FtpType
  <2>4. FtpLogin' /\ FtpAsking'
    BY <2>1, <2>2 DEF FtpLogin, FtpAsking, FtpAt
  <2>5. FtpReplies' /\ FtpBlocks' /\ Ftp!Whole'
    BY <2>1 DEF FtpReplies, FtpBlocks, FtpCarrying, FtpOwn, Ftp!Whole
  <2> QED
    BY <2>3, <2>4, <2>5
<1>2. CASE Ftp!Welcome
  <2>1. /\ client = "welcome" /\ client' = "wait" /\ user' \in {"good", "bad"}
        /\ UNCHANGED <<child, cmd, pos, dataOpen>>
    BY <1>2 DEF Ftp!Welcome, Ftp!ClientSays, Ftp!transfer
  <2>2. \/ child # "gone" /\ toChild = << >> /\ toClient = <<"220">> /\ child = "user"
        \/ child = "gone" /\ toClient \in {<< >>, <<"220">>}
    BY <2>1, <1>2 DEF FtpLogin, FtpAt, Ftp!Welcome, Ftp!ReadReply, Ftp!Heard
  <2>3. toClient' = << >>
    BY <2>2, <1>2 DEF Ftp!Welcome, Ftp!ReadReply, Ftp!Rest
  <2>4. (child # "gone" => toChild' = <<user'>>) /\ (child = "gone" => toChild' = toChild)
    BY <2>2, <1>2 DEF Ftp!Welcome, Ftp!ClientSays
  <2>5. FtpType'
    BY <2>1, <2>2, <2>4 DEF FtpType
  <2>6. FtpLogin' /\ FtpAsking'
    BY <2>1, <2>2, <2>3, <2>4 DEF FtpLogin, FtpAsking, FtpAt
  <2>7. FtpReplies' /\ FtpBlocks' /\ Ftp!Whole'
    BY <2>1 DEF FtpReplies, FtpBlocks, FtpCarrying, FtpOwn, Ftp!Whole
  <2> QED
    BY <2>5, <2>6, <2>7
<1>3. CASE Ftp!Password
  <2>1. client = "wait" /\ client' = "login" /\ UNCHANGED <<child, cmd, pos, dataOpen>>
    BY <1>3 DEF Ftp!Password, Ftp!ClientSays, Ftp!transfer
  <2>2. \/ child # "gone" /\ toChild = << >> /\ toClient = <<"331">> /\ child = "pass"
        \/ child = "gone" /\ toClient \in {<< >>, <<"331">>}
    BY <2>1, <1>3 DEF FtpLogin, FtpAt, Ftp!Password, Ftp!ReadReply, Ftp!Heard
  <2>3. toClient' = << >>
    BY <2>2, <1>3, OneMessage DEF Ftp!Password, Ftp!ReadReply, Ftp!Rest
  <2>4. (child # "gone" => toChild' = <<"password">>) /\ (child = "gone" => toChild' = toChild)
    BY <2>2, <1>3 DEF Ftp!Password, Ftp!ClientSays
  <2>5. FtpType'
    BY <2>1, <2>2, <2>4 DEF FtpType
  <2>6. FtpLogin' /\ FtpAsking'
    BY <2>1, <2>2, <2>3, <2>4 DEF FtpLogin, FtpAsking, FtpAt
  <2>7. FtpReplies' /\ FtpBlocks' /\ Ftp!Whole'
    BY <2>1 DEF FtpReplies, FtpBlocks, FtpCarrying, FtpOwn, Ftp!Whole
  <2> QED
    BY <2>5, <2>6, <2>7
<1>4. CASE Ftp!LoggedIn
  <2>1. /\ client = "login" /\ client' = "prompt" /\ reply' = "230"
        /\ UNCHANGED <<child, toChild, cmd, pos, dataOpen>>
    BY <1>4 DEF Ftp!LoggedIn, Ftp!transfer
  <2>2. \/ child = "cmd" /\ toChild = << >> /\ toClient = <<"230">>
        \/ child = "gone" /\ toClient = <<"230">>
    BY <2>1, <1>4 DEF FtpLogin, FtpAt, Ftp!LoggedIn, Ftp!ReadReply, Ftp!Heard
  <2>3. toClient' = << >>
    BY <2>2, <1>4 DEF Ftp!LoggedIn, Ftp!ReadReply, Ftp!Rest
  <2>4. FtpType'
    BY <2>1 DEF FtpType
  <2>5. FtpLogin' /\ FtpAsking'
    BY <2>1, <2>2, <2>3 DEF FtpLogin, FtpAsking, FtpAt
  <2>6. FtpReplies' /\ FtpBlocks' /\ Ftp!Whole'
    BY <2>1 DEF FtpReplies, FtpBlocks, FtpCarrying, FtpOwn, Ftp!Whole
  <2> QED
    BY <2>4, <2>5, <2>6
<1> QED
  BY <1>1, <1>2, <1>3, <1>4

\* The client from a command to its data connection.
LEMMA FtpAskingSteps ==
    ASSUME FtpParts, client' # "gone",
           Ftp!Type \/ Ftp!Coded \/ Ftp!OpenConn \/ Ftp!Accept
    PROVE  FtpParts'
<1> USE DEF FtpParts
<1>1. CASE Ftp!Type
  <2>1. /\ client = "prompt" /\ client' = "code" /\ cmd' \in Ftp!Command /\ got' = << >> /\ ~foreign'
        /\ UNCHANGED <<child, toClient, pos, dataOpen>>
    BY <1>1 DEF Ftp!Type, Ftp!ClientSays
  <2>2. toClient = << >> /\ ((child \in {"cmd", "close"} /\ toChild = << >>) \/ child = "gone")
    BY <2>1 DEF FtpAsking, FtpAt
  <2>3. (child # "gone" => toChild' = <<cmd'>>) /\ (child = "gone" => toChild' = toChild)
    BY <2>2, <1>1, OneMessage DEF Ftp!Type, Ftp!ClientSays
  <2>4. FtpType'
    BY <2>1, <2>2, <2>3 DEF FtpType
  <2>5. FtpLogin' /\ FtpAsking'
    BY <2>1, <2>2, <2>3 DEF FtpLogin, FtpAsking, FtpAt
  <2>6. FtpReplies' /\ FtpBlocks' /\ Ftp!Whole'
    BY <2>1 DEF FtpReplies, FtpBlocks, FtpCarrying, FtpOwn, Ftp!Whole
  <2> QED
    BY <2>4, <2>5, <2>6
<1>2. CASE Ftp!Coded
  <2>1. client = "code" /\ UNCHANGED <<child, toChild, served, cmd, pos, dataOpen, got, foreign>>
    BY <1>2 DEF Ftp!Coded, Ftp!transfer, Ftp!port
  <2>2. \/ child = "ack" /\ toChild = << >> /\ served = cmd /\ toClient = <<"200">>
        \/ child = "gone" /\ toClient \in {<< >>, <<"200">>, <<"221">>}
    BY <2>1, <1>2 DEF FtpAsking, FtpAt, Ftp!Coded, Ftp!ReadReply, Ftp!Heard, FtpType
  <2>3. reply' \in {"200", "221", "eof"} /\ toClient' = << >>
    BY <2>2, <1>2 DEF Ftp!Coded, Ftp!ReadReply, Ftp!Heard, Ftp!Rest
  <2>4. client' = "listen"
    BY <2>3, <1>2 DEF Ftp!Coded
  <2>5. FtpType'
    BY <2>1, <2>4 DEF FtpType
  <2>6. FtpLogin' /\ FtpAsking'
    BY <2>1, <2>2, <2>3, <2>4 DEF FtpLogin, FtpAsking, FtpAt
  <2>7. FtpReplies' /\ FtpBlocks' /\ Ftp!Whole'
    BY <2>4 DEF FtpReplies, FtpBlocks, FtpCarrying, FtpOwn, Ftp!Whole
  <2> QED
    BY <2>5, <2>6, <2>7
<1>3. CASE Ftp!OpenConn
  <2>1. /\ client = "listen" /\ client' = "accept"
        /\ UNCHANGED <<child, toClient, served, cmd, pos, dataOpen, got, foreign>>
    BY <1>3 DEF Ftp!OpenConn, Ftp!ClientSays
  <2>2. /\ toClient = << >> /\ dataOpen = "no"
        /\ (child = "ack" /\ toChild = << >> /\ served = cmd) \/ child = "gone"
    BY <2>1 DEF FtpAsking, FtpAt, FtpType
  <2>3. (child # "gone" => toChild' = <<"ack">>) /\ (child = "gone" => toChild' = toChild)
    BY <2>2, <1>3, OneMessage DEF Ftp!OpenConn, Ftp!ClientSays
  <2>4. FtpType'
    BY <2>1, <2>2, <2>3 DEF FtpType
  <2>5. FtpLogin' /\ FtpAsking'
    BY <2>1, <2>2, <2>3 DEF FtpLogin, FtpAsking, FtpAt
  <2>6. FtpReplies' /\ FtpBlocks' /\ Ftp!Whole'
    BY <2>1, <2>2 DEF FtpReplies, FtpBlocks, FtpCarrying, FtpOwn, Ftp!Whole
  <2> QED
    BY <2>4, <2>5, <2>6
<1>4. CASE Ftp!Accept
  <2>1. /\ client = "accept" /\ client' = "first"
        /\ UNCHANGED <<child, toChild, toClient, served, cmd, pos, data, dataEnd, got>>
        /\ \/ foreign' /\ dataOpen' = (IF dataOpen = "queued" THEN "away" ELSE dataOpen)
           \/ ~foreign' /\ dataOpen = "queued" /\ dataOpen' = "accepted"
    BY <1>4 DEF Ftp!Accept, Ftp!control
  <2>2. dataOpen' = "no" <=> dataOpen = "no"
    BY <2>1
  <2>3. FtpType'
    BY <2>1 DEF FtpType
  <2>4. FtpLogin' /\ FtpAsking'
    BY <2>1, <2>2 DEF FtpLogin, FtpAsking, FtpAt
  <2>5. FtpCarrying' = FtpCarrying
    BY <2>1, <2>2 DEF FtpCarrying
  <2>6. FtpReplies'
    BY <2>1, <2>5 DEF FtpReplies, FtpAt, FtpFirst, FtpKnown
  <2>7. FtpBlocks'
    <3>1. CASE foreign'
      BY <3>1 DEF FtpBlocks, FtpOwn
    <3>2. CASE ~foreign'
      <4>1. FtpOwn
        BY <3>2, <2>1 DEF FtpOwn, FtpCarrying, FtpType
      <4> QED
        BY <4>1, <2>1 DEF FtpBlocks, FtpKnown, FtpWithin, FtpFull, FtpSaidAll, FtpFirst
    <3> QED
      BY <3>1, <3>2
  <2>8. Ftp!Whole'
    BY <2>1 DEF Ftp!Whole
  <2> QED
    BY <2>3, <2>4, <2>6, <2>7, <2>8
<1> QED
  BY <1>1, <1>2, <1>3, <1>4

\* The client and the data.
LEMMA FtpFirstReplyStep ==
    ASSUME FtpParts, client' # "gone", Ftp!FirstReply
    PROVE  FtpParts'
<1> USE DEF FtpParts
<1>1. /\ client = "first" /\ client' \in {"prompt", "data"}
      /\ UNCHANGED <<child, toChild, served, cmd, pos, data, dataEnd, got, foreign>>
  BY DEF Ftp!FirstReply, Ftp!port
<1>2. \/ child = "gone"
      \/ FtpCarrying /\ served = cmd /\ FtpAt({"serve", "send", "close", "cmd"}, << >>)
  <2>1. toClient # << >> \/ child = "gone"
    BY DEF Ftp!FirstReply, Ftp!ReadReply, Ftp!Heard
  <2>2. dataOpen # "no" \/ child = "gone"
    BY <1>1, <2>1 DEF FtpAsking
  <2> QED
    BY <1>1, <2>2 DEF FtpCarrying, FtpReplies
<1>3. FtpFirst \in {"1", "150"}
  BY DEF FtpFirst
<1>4. \/ child = "gone" /\ toClient = << >> /\ reply' = "eof" /\ toClient' = << >>
      \/ /\ child \in {"send", "gone"} /\ toClient = <<FtpFirst>>
         /\ reply' = FtpFirst /\ toClient' = << >>
      \/ /\ child \in {"close", "cmd", "gone"} /\ toClient = <<FtpFirst, "226">>
         /\ reply' = FtpFirst /\ toClient' = <<"226">>
      \/ /\ child \in {"close", "cmd", "gone"} /\ toClient = <<"550">> /\ ~FtpKnown
         /\ reply' = "550" /\ toClient' = << >>
  <2>1. reply' \in Ftp!Heard(toClient, child) /\ toClient' = Ftp!Rest(toClient)
    BY DEF Ftp!FirstReply, Ftp!ReadReply
  <2>2. toClient # << >> => reply' = Head(toClient) /\ toClient' = Tail(toClient)
    BY <2>1 DEF Ftp!Heard, Ftp!Rest
  <2>3. toClient = << >> => child = "gone" /\ reply' = "eof" /\ toClient' = << >>
    BY <2>1 DEF Ftp!Heard, Ftp!Rest
  <2>4. \/ toClient = << >>
        \/ child \in {"send", "gone"} /\ toClient = <<FtpFirst>>
        \/ child \in {"close", "cmd", "gone"} /\ toClient = <<FtpFirst, "226">>
        \/ child \in {"close", "cmd", "gone"} /\ toClient = <<"550">> /\ ~FtpKnown
    <3>1. CASE dataOpen = "no"
      BY <3>1, <1>1 DEF FtpAsking
    <3>2. CASE dataOpen # "no"
      BY <3>2, <1>1 DEF FtpReplies, FtpCarrying
    <3> QED
      BY <3>1, <3>2
  <2> QED
    BY <2>2, <2>3, <2>4, OneMessage, TwoMessages
<1>5. CASE client' = "prompt"
  <2>1. cmd # "LIST" /\ reply' = "550" /\ dataOpen' = "no"
    BY <1>5 DEF Ftp!FirstReply
  <2>2. child \in {"close", "cmd", "gone"} /\ toClient' = << >>
    BY <2>1, <1>3, <1>4
  <2>3. FtpType'
    BY <1>1, <1>5, <2>1 DEF FtpType
  <2>4. FtpLogin' /\ FtpAsking'
    BY <1>1, <1>2, <1>5, <2>2 DEF FtpLogin, FtpAsking, FtpAt
  <2>5. FtpReplies' /\ FtpBlocks' /\ Ftp!Whole'
    BY <1>5, <2>1 DEF FtpReplies, FtpBlocks, FtpCarrying, FtpOwn, Ftp!Whole
  <2> QED
    BY <2>3, <2>4, <2>5
<1>6. CASE client' = "data"
  <2>1. reply' # "550" /\ UNCHANGED dataOpen
    <3>1. ~(cmd # "LIST" /\ reply' = "550") /\ UNCHANGED dataOpen
      BY <1>6 DEF Ftp!FirstReply
    <3>2. reply' = "550" => cmd # "LIST"
      BY <1>3, <1>4 DEF FtpKnown
    <3> QED
      BY <3>1, <3>2
  <2>2. FtpType'
    BY <1>1, <1>6, <2>1 DEF FtpType
  <2>3. FtpLogin' /\ FtpAsking'
    BY <1>6 DEF FtpLogin, FtpAsking
  <2>4. FtpCarrying'
    BY <1>6 DEF FtpCarrying
  <2>5. \/ child \in {"send", "gone"} /\ toClient' = << >>
        \/ child \in {"close", "cmd", "gone"} /\ toClient' = <<"226">> /\ FtpSaidAll
    BY <1>4, <2>1 DEF FtpSaidAll
  <2>6. FtpReplies'
    BY <1>1, <1>2, <1>6, <2>4, <2>5 DEF FtpReplies, FtpAt
  <2>7. FtpSaidAll' => FtpSaidAll
    BY <2>5, OneMessage, TwoMessages DEF FtpSaidAll
  <2>8. FtpBlocks'
    <3>1. FtpOwn' => FtpOwn
      BY <1>1, <1>6, <2>1 DEF FtpOwn, FtpCarrying
    <3> QED
      BY <3>1, <1>1, <1>6, <2>7 DEF FtpBlocks, FtpKnown, FtpWithin, FtpFull
  <2>9. Ftp!Whole'
    BY <1>6 DEF Ftp!Whole
  <2> QED
    BY <2>2, <2>3, <2>6, <2>8, <2>9
<1> QED
  BY <1>1, <1>5, <1>6

LEMMA FtpReceiveStep ==
    ASSUME FtpParts, client' # "gone", Ftp!Receive
    PROVE  FtpParts'
<1> USE DEF FtpParts
<1>1. /\ client = "data" /\ client' \in {"data", "last"} /\ ~foreign
      /\ UNCHANGED <<child, toChild, toClient, served, cmd, pos, dataOpen, dataEnd, foreign>>
  BY DEF Ftp!Receive, Ftp!AfterData, Ftp!control, Ftp!port
<1>2. FtpCarrying /\ FtpCarrying' /\ FtpOwn /\ FtpOwn'
  BY <1>1 DEF FtpCarrying, FtpOwn, FtpType
<1>3. FtpType' /\ FtpLogin' /\ FtpAsking' /\ Ftp!Whole'
  BY <1>1 DEF FtpType, FtpLogin, FtpAsking, Ftp!Whole
<1>4. /\ got \in Seq(Ftp!Command \X Nat) /\ data \in Seq(Ftp!Command \X Nat)
      /\ Len(got) + Len(data) = pos
      /\ \A i \in 1..Len(got) : got[i] = <<cmd, i - 1>>
      /\ \A i \in 1..Len(data) : data[i] = <<cmd, Len(got) + i - 1>>
  BY <1>2 DEF FtpBlocks
<1>5. /\ child = "serve" => pos = 0
      /\ child = "send" => FtpWithin
      /\ FtpSaidAll => FtpFull
      /\ dataEnd => child \in {"cmd", "gone"}
  BY <1>2 DEF FtpBlocks
<1>6. /\ (child = "serve" => pos = 0)'
      /\ (child = "send" => FtpWithin)'
      /\ (FtpSaidAll => FtpFull)'
      /\ (dataEnd => child \in {"cmd", "gone"})'
  BY <1>1, <1>5 DEF FtpKnown, FtpWithin, FtpFull, FtpSaidAll, FtpFirst
<1>7. CASE data # << >>
  <2>1. client' = "data" /\ got' = Append(got, Head(data)) /\ data' = Tail(data)
    BY <1>7, <1>1 DEF Ftp!Receive
  <2>2. FtpReplies'
    BY <1>1, <1>2, <2>1 DEF FtpReplies, FtpAt
  <2>3. Len(data) >= 1 /\ Head(data) = <<cmd, Len(got)>>
    BY <1>4, <1>7
  <2>4. /\ got' \in Seq(Ftp!Command \X Nat) /\ Len(got') = Len(got) + 1
        /\ got'[Len(got) + 1] = <<cmd, Len(got)>> /\ \A i \in 1..Len(got) : got'[i] = got[i]
    BY <1>4, <1>7, <2>1, <2>3
  <2>5. /\ data' \in Seq(Ftp!Command \X Nat) /\ Len(data') = Len(data) - 1
        /\ \A i \in 1..(Len(data) - 1) : data'[i] = data[i + 1]
    BY <1>4, <1>7, <2>1
  <2>6. \A i \in 1..Len(got') : got'[i] = <<cmd, i - 1>>
    <3> SUFFICES ASSUME NEW i \in 1..Len(got') PROVE got'[i] = <<cmd, i - 1>>
      OBVIOUS
    <3>1. CASE i \in 1..Len(got)
      BY <3>1, <2>4, <1>4
    <3>2. CASE i = Len(got) + 1
      BY <3>2, <2>4, <1>4
    <3> QED
      BY <3>1, <3>2, <2>4, <1>4
  <2>7. \A i \in 1..Len(data') : data'[i] = <<cmd, Len(got') + i - 1>>
    <3> SUFFICES ASSUME NEW i \in 1..Len(data') PROVE data'[i] = <<cmd, Len(got') + i - 1>>
      OBVIOUS
    <3>1. i + 1 \in 1..Len(data) /\ data'[i] = data[i + 1]
      BY <2>5, <1>4
    <3>2. data[i + 1] = <<cmd, Len(got) + (i + 1) - 1>>
      BY <3>1, <1>4
    <3>3. Len(got) + (i + 1) - 1 = Len(got') + i - 1
      BY <2>4, <1>4
    <3> QED
      BY <3>1, <3>2, <3>3
  <2>8. Len(got') + Len(data') = pos
    BY <2>4, <2>5, <1>4
  <2>9. FtpBlocks'
    BY <2>1, <2>4, <2>5, <2>6, <2>7, <2>8, <1>1, <1>6 DEF FtpBlocks
  <2> QED
    BY <1>3, <2>2, <2>9
<1>8. CASE data = << >>
  <2>1. client' = "last" /\ (dataEnd \/ child = "gone") /\ UNCHANGED <<got, data>>
    BY <1>8 DEF Ftp!Receive, Ftp!AfterData
  <2>2. child \in {"cmd", "gone"}
    BY <2>1, <1>5
  <2>3. FtpReplies'
    BY <1>1, <1>2, <2>1, <2>2 DEF FtpReplies, FtpAt
  <2>4. FtpBlocks'
    BY <1>8, <2>1, <2>2, <1>1, <1>4, <1>6 DEF FtpBlocks
  <2> QED
    BY <1>3, <2>3, <2>4
<1> QED
  BY <1>7, <1>8

LEMMA FtpReceiveOtherStep ==
    ASSUME FtpParts, client' # "gone", Ftp!ReceiveOther
    PROVE  FtpParts'
<1> USE DEF FtpParts
<1>1. /\ client = "data" /\ client' \in {"data", "last"} /\ foreign'
      /\ UNCHANGED <<child, toChild, toClient, served, cmd, pos, dataOpen>>
  BY DEF Ftp!ReceiveOther, Ftp!AfterData, Ftp!control, Ftp!port
<1>2. FtpCarrying /\ FtpCarrying'
  BY <1>1 DEF FtpCarrying
<1>3. FtpType' /\ FtpLogin' /\ FtpAsking' /\ Ftp!Whole'
  BY <1>1 DEF FtpType, FtpLogin, FtpAsking, Ftp!Whole
<1>4. FtpReplies'
  BY <1>1, <1>2 DEF FtpReplies, FtpAt
<1>5. FtpBlocks'
  BY <1>1 DEF FtpBlocks, FtpOwn
<1> QED
  BY <1>3, <1>4, <1>5

LEMMA FtpLastReplyStep ==
    ASSUME FtpParts, client' # "gone", Ftp!LastReply
    PROVE  FtpParts'
<1> USE DEF FtpParts
<1>1. /\ client = "last" /\ client' = "prompt" /\ dataOpen' = "no"
      /\ UNCHANGED <<child, toChild, served, cmd, pos, data, got, foreign>>
  BY DEF Ftp!LastReply, Ftp!port
<1>2. /\ FtpCarrying /\ child \in {"close", "cmd", "gone"} /\ (child = "gone" \/ toChild = << >>)
      /\ toClient = <<"226">> \/ (child = "gone" /\ toClient = << >>)
  <2>1. toClient # << >> \/ child = "gone"
    BY DEF Ftp!LastReply, Ftp!ReadReply, Ftp!Heard
  <2> QED
    BY <1>1, <2>1 DEF FtpCarrying, FtpReplies, FtpAt
<1>3. toClient' = << >> /\ (reply' = "226" => toClient = <<"226">>)
  BY <1>2, OneMessage DEF Ftp!LastReply, Ftp!ReadReply, Ftp!Heard, Ftp!Rest
<1>4. FtpType'
  BY <1>1 DEF FtpType
<1>5. FtpLogin' /\ FtpAsking'
  BY <1>1, <1>2, <1>3 DEF FtpLogin, FtpAsking, FtpAt
<1>6. FtpReplies' /\ FtpBlocks'
  BY <1>1 DEF FtpReplies, FtpBlocks, FtpCarrying, FtpOwn
<1>7. Ftp!Whole'
  <2> DEFINE n == IF cmd = "LIST" THEN pos ELSE Length[cmd]
  <2> SUFFICES ASSUME reply' = "226", ~foreign
               PROVE  FtpKnown /\ got = [i \in 1..n |-> <<cmd, i - 1>>]
    BY <1>1 DEF Ftp!Whole, FtpKnown
  <2>1. FtpOwn
    BY <1>1, <1>2 DEF FtpOwn, FtpType
  <2>2. FtpFull /\ data = << >>
    BY <1>1, <1>3, <2>1 DEF FtpBlocks, FtpSaidAll
  <2>3. FtpKnown /\ pos = n
    BY <2>2 DEF FtpFull
  <2>4. got \in Seq(Ftp!Command \X Nat) /\ Len(got) = pos /\ \A i \in 1..Len(got) : got[i] = <<cmd, i - 1>>
    BY <2>1, <2>2 DEF FtpBlocks
  <2>5. got = [i \in 1..Len(got) |-> got[i]]
    BY <2>4
  <2> QED
    BY <2>3, <2>4, <2>5
<1> QED
  BY <1>4, <1>5, <1>6, <1>7

\* The child up to a command.
LEMMA FtpChildLoginSteps ==
    ASSUME FtpParts, Ftp!Start \/ Ftp!User \/ Ftp!Pass
    PROVE  FtpParts'
<1> USE DEF FtpParts
<1>0. client # "gone"
  BY DEF FtpType
<1>1. UNCHANGED <<client, cmd, user, pos, dataOpen, got, reply, foreign>>
  BY DEF Ftp!Start, Ftp!User, Ftp!Pass, Ftp!transfer, Ftp!port
<1>2. CASE Ftp!Start
  <2>1. child = "start" /\ client = "welcome" /\ toChild = << >> /\ toClient = << >>
    BY <1>0, <1>2 DEF Ftp!Start, FtpType, FtpLogin, FtpAsking, FtpReplies, FtpCarrying, FtpAt
  <2>2. child' = "user" /\ toChild' = toChild /\ toClient' = <<"220">>
    BY <1>0, <1>2, <2>1, OneMessage DEF Ftp!Start, Ftp!ChildSays
  <2>3. FtpType'
    BY <1>1, <2>1, <2>2 DEF FtpType
  <2>4. FtpLogin' /\ FtpAsking'
    BY <1>1, <2>1, <2>2 DEF FtpLogin, FtpAsking, FtpAt
  <2>5. FtpReplies' /\ FtpBlocks' /\ Ftp!Whole'
    BY <1>1, <2>1 DEF FtpReplies, FtpBlocks, FtpCarrying, FtpOwn, Ftp!Whole
  <2> QED
    BY <2>3, <2>4, <2>5
<1>3. CASE Ftp!User
  <2>1. child = "user" /\ toChild # << >>
    BY <1>0, <1>3 DEF Ftp!User, Ftp!ChildHears, Ftp!Heard
  <2>2. client = "wait" /\ toChild = <<user>> /\ toClient = << >>
    BY <2>1 DEF FtpType, FtpLogin, FtpAsking, FtpReplies, FtpCarrying, FtpAt
  <2>3. child' = "pass" /\ toChild' = << >> /\ toClient' = <<"331">>
    BY <1>0, <1>3, <2>2, OneMessage DEF Ftp!User, Ftp!ChildSays, Ftp!ChildHears, Ftp!Rest
  <2>4. FtpType'
    BY <1>1, <2>2, <2>3 DEF FtpType
  <2>5. FtpLogin' /\ FtpAsking'
    BY <1>1, <2>2, <2>3 DEF FtpLogin, FtpAsking, FtpAt
  <2>6. FtpReplies' /\ FtpBlocks' /\ Ftp!Whole'
    BY <1>1, <2>2 DEF FtpReplies, FtpBlocks, FtpCarrying, FtpOwn, Ftp!Whole
  <2> QED
    BY <2>4, <2>5, <2>6
<1>4. CASE Ftp!Pass
  <2>1. child = "pass" /\ toChild # << >>
    BY <1>0, <1>4 DEF Ftp!Pass, Ftp!ChildHears, Ftp!Heard
  <2>2. client = "login" /\ toChild = <<"password">> /\ toClient = << >>
    BY <2>1 DEF FtpType, FtpLogin, FtpAsking, FtpReplies, FtpCarrying, FtpAt
  <2>3. toChild' = << >>
    BY <1>4, <2>2, OneMessage DEF Ftp!Pass, Ftp!ChildHears, Ftp!Rest
  <2>4. \/ child' = "cmd" /\ toClient' = <<"230">>
        \/ child' = "gone" /\ toClient' \in {<< >>, <<"430">>}
    BY <1>0, <1>4, <2>2, OneMessage DEF Ftp!Pass, Ftp!ChildSays
  <2>5. FtpType'
    BY <1>1, <2>2, <2>3 DEF FtpType
  <2>6. FtpLogin' /\ FtpAsking'
    BY <1>1, <2>2, <2>3, <2>4 DEF FtpLogin, FtpAsking, FtpAt
  <2>7. FtpReplies' /\ FtpBlocks' /\ Ftp!Whole'
    BY <1>1, <2>2 DEF FtpReplies, FtpBlocks, FtpCarrying, FtpOwn, Ftp!Whole
  <2> QED
    BY <2>5, <2>6, <2>7
<1> QED
  BY <1>2, <1>3, <1>4

LEMMA FtpChildCommandSteps ==
    ASSUME FtpParts, Ftp!RecvCmd \/ Ftp!StartDataConn
    PROVE  FtpParts'
<1> USE DEF FtpParts
<1>0. client # "gone"
  BY DEF FtpType
<1>1. UNCHANGED <<client, cmd, got, reply, foreign>>
  BY DEF Ftp!RecvCmd, Ftp!StartDataConn, Ftp!transfer, Ftp!port
<1>2. CASE Ftp!RecvCmd
  <2>1. child = "cmd" /\ toChild # << >> /\ UNCHANGED <<pos, dataOpen>>
    BY <1>0, <1>2 DEF Ftp!RecvCmd, Ftp!ChildHears, Ftp!Heard, Ftp!transfer
  <2>2. client = "code" /\ toChild = <<cmd>> /\ toClient = << >> /\ cmd \in Ftp!Command
    BY <2>1 DEF FtpType, FtpLogin, FtpAsking, FtpReplies, FtpCarrying, FtpAt
  <2>3. PICK m \in Ftp!Command \cup {"ack", "eof"} :
            /\ m \in Ftp!Heard(toChild, client) /\ toChild' = Ftp!Rest(toChild)
            /\ CASE m = "QUIT" -> Ftp!ChildSays("221", "gone") /\ UNCHANGED served
                 [] m \in Ftp!Command \ {"QUIT"} -> Ftp!ChildSays("200", "ack") /\ served' = m
                 [] m \notin Ftp!Command -> Ftp!ChildSays("502", "cmd") /\ UNCHANGED served
    BY <1>2 DEF Ftp!RecvCmd, Ftp!ChildHears
  <2>4. m = cmd /\ toChild' = << >>
    BY <2>2, <2>3, OneMessage DEF Ftp!Heard, Ftp!Rest
  <2>5. \/ child' = "gone" /\ toClient' = <<"221">>
        \/ child' = "ack" /\ toClient' = <<"200">> /\ served' = cmd
    <3>1. CASE m = "QUIT"
      <4>1. Ftp!ChildSays("221", "gone")
        BY <2>3, <3>1
      <4> QED
        BY <4>1, <1>0, <2>2, OneMessage DEF Ftp!ChildSays
    <3>2. CASE m # "QUIT"
      <4>1. Ftp!ChildSays("200", "ack") /\ served' = m
        BY <2>3, <2>4, <2>2, <3>2
      <4> QED
        BY <4>1, <1>0, <2>2, <2>4, OneMessage DEF Ftp!ChildSays
    <3> QED
      BY <3>1, <3>2
  <2>6. FtpType'
    BY <1>1, <2>1, <2>2, <2>4 DEF FtpType
  <2>7. FtpLogin' /\ FtpAsking'
    BY <1>1, <2>2, <2>4, <2>5 DEF FtpLogin, FtpAsking, FtpAt
  <2>8. FtpReplies' /\ FtpBlocks' /\ Ftp!Whole'
    BY <1>1, <2>2 DEF FtpReplies, FtpBlocks, FtpCarrying, FtpOwn, Ftp!Whole
  <2> QED
    BY <2>6, <2>7, <2>8
<1>3. CASE Ftp!StartDataConn
  <2>1. child = "ack" /\ toChild # << >> /\ UNCHANGED <<toClient, served, foreign>>
    BY <1>0, <1>3 DEF Ftp!port, Ftp!StartDataConn, Ftp!ChildHears, Ftp!Heard
  <2>2. /\ client \in {"accept", "first"} /\ dataOpen = "no" /\ toChild = <<"ack">> /\ toClient = << >>
        /\ served = cmd /\ got = << >>
    BY <2>1 DEF FtpType, FtpLogin, FtpAsking, FtpReplies, FtpCarrying, FtpAt
  <2>3. toChild' = << >>
    BY <1>3, <2>2, OneMessage DEF Ftp!StartDataConn, Ftp!ChildHears, Ftp!Rest
  <2>4. \/ child' = "serve" /\ dataOpen' \in {"queued", "away"}
           /\ data' = << >> /\ dataEnd' = FALSE /\ pos' = 0
        \/ child' = "gone" /\ UNCHANGED <<dataOpen, data, dataEnd, pos>>
    BY <1>3 DEF Ftp!StartDataConn
  <2>5. FtpType'
    BY <1>1, <2>2, <2>3, <2>4 DEF FtpType
  <2>6. FtpLogin' /\ FtpAsking'
    BY <1>1, <2>1, <2>2, <2>3, <2>4 DEF FtpLogin, FtpAsking, FtpAt
  <2>7. FtpReplies'
    BY <1>1, <2>1, <2>2, <2>3, <2>4 DEF FtpReplies, FtpCarrying, FtpAt
  <2>8. ~FtpSaidAll'
    BY <2>1, <2>2 DEF FtpSaidAll
  <2>9. FtpBlocks'
    <3>1. CASE child' = "serve" /\ dataOpen' # "no" /\ data' = << >> /\ dataEnd' = FALSE /\ pos' = 0
      <4>1. /\ got' \in Seq(Ftp!Command \X Nat) /\ data' \in Seq(Ftp!Command \X Nat)
            /\ Len(got') = 0 /\ Len(data') = 0
        BY <3>1, <1>1, <2>2
      <4> QED
        BY <3>1, <4>1, <1>1, <2>2, <2>8 DEF FtpBlocks
    <3>2. CASE UNCHANGED dataOpen
      BY <3>2, <1>1, <2>2 DEF FtpBlocks, FtpOwn, FtpCarrying
    <3> QED
      BY <3>1, <3>2, <2>4
  <2> QED
    BY <1>1, <2>2, <2>5, <2>6, <2>7, <2>9 DEF Ftp!Whole
<1> QED
  BY <1>2, <1>3

\* The replies of the child around the data.
LEMMA FtpChildReplySteps ==
    ASSUME FtpParts, Ftp!NoFile \/ Ftp!FirstSent \/ Ftp!Done
    PROVE  FtpParts'
<1> USE DEF FtpParts
<1>0. client # "gone"
  BY DEF FtpType
<1>1. /\ UNCHANGED <<client, toChild, cmd, served, pos, data, dataEnd, dataOpen, got, reply, foreign>>
      /\ child \in {"serve", "send"}
  BY DEF Ftp!NoFile, Ftp!FirstSent, Ftp!Done, Ftp!transfer, Ftp!port
<1>2. FtpCarrying /\ served = cmd /\ toChild = << >> /\ client \in {"accept", "first", "data", "last"}
  BY <1>1 DEF FtpType, FtpLogin, FtpAsking, FtpReplies, FtpCarrying, FtpAt
<1>3. FtpCarrying' /\ FtpOwn' = FtpOwn
  BY <1>1, <1>2 DEF FtpCarrying, FtpOwn
<1>4. FtpType' /\ Ftp!Whole'
  BY <1>1, <1>2 DEF FtpType, Ftp!Whole
<1>5. FtpLogin' /\ FtpAsking'
  BY <1>1, <1>2 DEF FtpLogin, FtpAsking, FtpCarrying
<1>6. FtpOwn =>
      /\ got \in Seq(Ftp!Command \X Nat) /\ data \in Seq(Ftp!Command \X Nat)
      /\ Len(got) + Len(data) = pos
      /\ \A i \in 1..Len(got) : got[i] = <<cmd, i - 1>>
      /\ \A i \in 1..Len(data) : data[i] = <<cmd, Len(got) + i - 1>>
      /\ child = "serve" => pos = 0
      /\ child = "send" => FtpWithin
      /\ ~dataEnd
      /\ client # "last"
  BY <1>1, <1>2 DEF FtpBlocks
<1>7. FtpFirst' = FtpFirst /\ FtpFirst \in {"1", "150"} /\ FtpKnown' = FtpKnown
      /\ FtpWithin' = FtpWithin /\ FtpFull' = FtpFull
  BY <1>1 DEF FtpFirst, FtpKnown, FtpWithin, FtpFull
<1>8. CASE Ftp!NoFile
  <2>1. child = "serve" /\ toClient = << >> /\ client \in {"accept", "first"}
    BY <1>2, <1>8 DEF Ftp!NoFile, FtpReplies
  <2>2. child' = "close" /\ toClient' = <<"550">> /\ ~FtpKnown
    BY <1>0, <1>2, <1>8, <2>1, OneMessage DEF Ftp!NoFile, Ftp!ChildSays, FtpKnown
  <2>3. FtpReplies'
    BY <1>1, <1>2, <1>7, <2>1, <2>2 DEF FtpReplies, FtpAt
  <2>4. ~FtpSaidAll'
    BY <2>2, <1>7 DEF FtpSaidAll
  <2>5. FtpBlocks'
    BY <1>1, <1>3, <1>6, <2>1, <2>2, <2>4 DEF FtpBlocks
  <2> QED
    BY <1>4, <1>5, <2>3, <2>5
<1>9. CASE Ftp!FirstSent
  <2>1. child = "serve" /\ toClient = << >> /\ client \in {"accept", "first"}
    BY <1>2, <1>9 DEF Ftp!FirstSent, FtpReplies
  <2>2. child' = "send" /\ toClient' = <<FtpFirst>> /\ FtpKnown
    BY <1>0, <1>2, <1>9, <2>1, OneMessage DEF Ftp!FirstSent, Ftp!ChildSays, FtpKnown, FtpFirst
  <2>3. FtpReplies'
    BY <1>1, <1>2, <1>7, <2>1, <2>2 DEF FtpReplies, FtpAt
  <2>4. ~FtpSaidAll'
    BY <2>2, <1>7 DEF FtpSaidAll
  <2>5. FtpOwn => FtpWithin
    BY <1>6, <2>1, <2>2, FtpSizeIsNat DEF FtpWithin
  <2>6. FtpBlocks'
    BY <1>1, <1>3, <1>6, <1>7, <2>1, <2>2, <2>4, <2>5 DEF FtpBlocks
  <2> QED
    BY <1>4, <1>5, <2>3, <2>6
<1>10. CASE Ftp!Done
  <2>1. child = "send" /\ (FtpOwn => FtpFull)
    BY <1>2, <1>6, <1>10 DEF Ftp!Done, Ftp!AllSent, Ftp!Blocks, FtpWithin, FtpFull
  <2>2. child' = "close" /\ toClient' = Append(toClient, "226")
    BY <1>0, <1>10 DEF Ftp!Done, Ftp!ChildSays
  <2>3. \/ client \in {"accept", "first"} /\ toClient = <<FtpFirst>>
        \/ client \in {"data", "last"} /\ toClient = << >>
    BY <2>1, <1>2 DEF FtpReplies
  <2>4. \/ client \in {"accept", "first"} /\ toClient' = <<FtpFirst, "226">>
        \/ client \in {"data", "last"} /\ toClient' = <<"226">>
    BY <2>2, <2>3, OneMessage, TwoMessages
  <2>5. FtpReplies'
    BY <1>1, <1>2, <1>7, <2>2, <2>4 DEF FtpReplies, FtpAt
  <2>6. FtpBlocks'
    BY <1>1, <1>3, <1>6, <1>7, <2>1, <2>2 DEF FtpBlocks
  <2> QED
    BY <1>4, <1>5, <2>5, <2>6
<1> QED
  BY <1>8, <1>9, <1>10

LEMMA FtpSendBlockStep ==
    ASSUME FtpParts, Ftp!SendBlock
    PROVE  FtpParts'
<1> USE DEF FtpParts
<1>0. client # "gone"
  BY DEF FtpType
<1>1. /\ child = "send" /\ child' \in {"send", "gone"} /\ pos' = pos + 1
      /\ UNCHANGED <<client, toChild, toClient, cmd, served, dataEnd, dataOpen, got, reply, foreign>>
      /\ dataOpen # "away" => child' = child /\ data' = Append(data, <<served, pos>>)
  BY <1>0 DEF Ftp!SendBlock, Ftp!control, Ftp!port
<1>2. FtpCarrying /\ served = cmd /\ client \in {"accept", "first", "data", "last"}
  BY <1>1 DEF FtpType, FtpLogin, FtpAsking, FtpReplies, FtpCarrying, FtpAt
<1>3. FtpCarrying' /\ FtpOwn' = FtpOwn /\ FtpFirst' = FtpFirst /\ FtpKnown' = FtpKnown
  BY <1>1, <1>2 DEF FtpCarrying, FtpOwn, FtpFirst, FtpKnown
<1>4. cmd \in Ftp!Command /\ pos \in Nat
  BY DEF FtpType
<1>5. FtpType' /\ Ftp!Whole'
  BY <1>1, <1>2 DEF FtpType, Ftp!Whole
<1>6. FtpLogin' /\ FtpAsking'
  BY <1>1, <1>2 DEF FtpLogin, FtpAsking, FtpCarrying
<1>7. FtpReplies'
  BY <1>1, <1>2, <1>3 DEF FtpReplies, FtpAt
<1>8. CASE ~FtpOwn
  BY <1>3, <1>5, <1>6, <1>7, <1>8 DEF FtpBlocks
<1>9. CASE FtpOwn
  <2>1. child' = child /\ data' = Append(data, <<cmd, pos>>) /\ client # "last"
    <3>1. dataOpen # "away"
      BY <1>9 DEF FtpOwn
    <3>2. client # "last"
      BY <1>1, <1>9 DEF FtpReplies, FtpBlocks
    <3> QED
      BY <3>1, <3>2, <1>1, <1>2
  <2>2. /\ got \in Seq(Ftp!Command \X Nat) /\ data \in Seq(Ftp!Command \X Nat)
        /\ Len(got) + Len(data) = pos
        /\ \A i \in 1..Len(got) : got[i] = <<cmd, i - 1>>
        /\ \A i \in 1..Len(data) : data[i] = <<cmd, Len(got) + i - 1>>
        /\ FtpWithin /\ ~dataEnd
    BY <1>1, <1>9 DEF FtpBlocks
  <2>3. cmd # "LIST" => pos < Length[cmd] /\ Length[cmd] \in Nat
    BY <1>2, <2>2, FtpSizeIsNat DEF Ftp!SendBlock, Ftp!Blocks, FtpWithin
  <2>4. FtpWithin'
    BY <1>1, <1>4, <2>2, <2>3 DEF FtpWithin, FtpKnown
  <2>5. ~FtpSaidAll'
    <3>1. toClient \in {<< >>, <<FtpFirst>>}
      BY <1>1, <1>2, <2>1 DEF FtpReplies
    <3>2. FtpFirst \in {"1", "150"}
      BY DEF FtpFirst
    <3> QED
      BY <3>1, <3>2, <1>1, <1>3, OneMessage, TwoMessages DEF FtpSaidAll
  <2>6. /\ data' \in Seq(Ftp!Command \X Nat) /\ Len(data') = Len(data) + 1
        /\ data'[Len(data) + 1] = <<cmd, pos>> /\ \A i \in 1..Len(data) : data'[i] = data[i]
    <3>1. <<cmd, pos>> \in Ftp!Command \X Nat
      BY <1>4
    <3> QED
      BY <2>1, <3>1, <2>2
  <2>7. ASSUME NEW i \in 1..Len(data') PROVE data'[i] = <<cmd, Len(got) + i - 1>>
    <3>1. CASE i \in 1..Len(data)
      BY <3>1, <2>2, <2>6
    <3>2. CASE i = Len(data) + 1
      <4>1. Len(got) + i - 1 = pos
        BY <3>2, <2>2
      <4> QED
        BY <4>1, <3>2, <2>6
    <3> QED
      BY <3>1, <3>2, <2>2, <2>6
  <2>8. Len(got) + Len(data') = pos'
    BY <1>1, <2>2, <2>6
  <2>9. FtpBlocks'
    BY <1>1, <1>3, <2>1, <2>2, <2>4, <2>5, <2>6, <2>7, <2>8 DEF FtpBlocks
  <2> QED
    BY <1>5, <1>6, <1>7, <2>9
<1> QED
  BY <1>8, <1>9

\* The child closes the data connection, or is killed.
LEMMA FtpChildEndSteps ==
    ASSUME FtpParts, Ftp!CloseData \/ Ftp!Kill
    PROVE  FtpParts'
<1> USE DEF FtpParts
<1>1. /\ UNCHANGED <<client, toChild, toClient, cmd, served, pos, data, dataOpen, got, reply, foreign>>
      /\ \/ child = "close" /\ child' = "cmd"
         \/ child' = "gone" /\ dataEnd' = dataEnd
  BY DEF Ftp!CloseData, Ftp!Kill, Ftp!control, Ftp!transfer, Ftp!port
<1>2. FtpCarrying' = FtpCarrying /\ FtpFirst' = FtpFirst /\ FtpKnown' = FtpKnown
      /\ FtpOwn' = FtpOwn /\ FtpWithin' = FtpWithin /\ FtpFull' = FtpFull
  BY <1>1 DEF FtpCarrying, FtpOwn, FtpFirst, FtpKnown, FtpWithin, FtpFull
<1>3. FtpType' /\ Ftp!Whole'
  BY <1>1 DEF FtpType, Ftp!Whole
<1>4. FtpLogin'
  <2>1. CASE child' = "gone"
    <3>1. (client = "new" => child = "new") /\ (child = "new" => child' # "gone")
      BY <2>1, <1>1 DEF FtpLogin, FtpAt, Ftp!CloseData, Ftp!Kill
    <3> QED
      BY <3>1, <2>1, <1>1 DEF FtpLogin, FtpAt
  <2>2. CASE child = "close"
    BY <2>2, <1>1 DEF FtpLogin, FtpAt
  <2> QED
    BY <2>1, <2>2, <1>1
<1>5. FtpAsking'
  BY <1>1 DEF FtpAsking, FtpAt
<1>6. FtpReplies'
  BY <1>1, <1>2 DEF FtpReplies, FtpAt
<1>7. FtpSaidAll' = FtpSaidAll
  BY <1>1, <1>2 DEF FtpSaidAll
<1>8. FtpBlocks'
  BY <1>1, <1>2, <1>7 DEF FtpBlocks
<1> QED
  BY <1>3, <1>4, <1>5, <1>6, <1>8

LEMMA FtpStep ==
    ASSUME FtpInv, [Ftp!Next]_(Ftp!vars)
    PROVE  FtpInv'
<1> SUFFICES ASSUME client' # "gone" PROVE FtpParts'
  BY DEF FtpInv
<1>1. CASE client = "gone"
  <2>1. client' = client
    BY <1>1 DEF Ftp!Next, Ftp!vars, Ftp!Connect, Ftp!Welcome, Ftp!Password, Ftp!LoggedIn,
                Ftp!Type, Ftp!Coded, Ftp!OpenConn, Ftp!OtherConnects, Ftp!Accept, Ftp!FirstReply,
                Ftp!Receive, Ftp!ReceiveOther,
                Ftp!LastReply, Ftp!Interrupt, Ftp!Start, Ftp!User, Ftp!Pass, Ftp!RecvCmd,
                Ftp!StartDataConn, Ftp!NoFile, Ftp!FirstSent, Ftp!SendBlock, Ftp!Done,
                Ftp!CloseData, Ftp!Kill, Ftp!Over
  <2> QED
    BY <2>1, <1>1
<1>2. CASE FtpParts
  <2>1. CASE Ftp!Connect \/ Ftp!Welcome \/ Ftp!Password \/ Ftp!LoggedIn
    BY <2>1, <1>2, FtpLoginSteps
  <2>2. CASE Ftp!Type \/ Ftp!Coded \/ Ftp!OpenConn \/ Ftp!Accept
    BY <2>2, <1>2, FtpAskingSteps
  <2>3. CASE Ftp!FirstReply \/ Ftp!Receive \/ Ftp!ReceiveOther \/ Ftp!LastReply
    BY <2>3, <1>2, FtpFirstReplyStep, FtpReceiveStep, FtpReceiveOtherStep, FtpLastReplyStep
  <2>4. CASE Ftp!Start \/ Ftp!User \/ Ftp!Pass
    BY <2>4, <1>2, FtpChildLoginSteps
  <2>5. CASE Ftp!RecvCmd \/ Ftp!StartDataConn
    BY <2>5, <1>2, FtpChildCommandSteps
  <2>6. CASE Ftp!NoFile \/ Ftp!FirstSent \/ Ftp!Done
    BY <2>6, <1>2, FtpChildReplySteps
  <2>7. CASE Ftp!SendBlock \/ Ftp!CloseData \/ Ftp!Kill
    BY <2>7, <1>2, FtpSendBlockStep, FtpChildEndSteps
  <2>8. CASE Ftp!Interrupt
    BY <2>8 DEF Ftp!Interrupt
  <2>9. CASE Ftp!OtherConnects \/ Ftp!Over \/ UNCHANGED Ftp!vars
    <3>1. UNCHANGED <<client, child, toChild, cmd, toClient, user, dataOpen, dataEnd, pos,
                      served, data, reply, got, foreign>>
      BY <2>9 DEF Ftp!OtherConnects, Ftp!Over, Ftp!vars, Ftp!control, Ftp!transfer, Ftp!port
    <3>2. FtpType' /\ FtpLogin' /\ FtpAsking'
      BY <3>1, <1>2 DEF FtpParts, FtpType, FtpLogin, FtpAsking, FtpAt
    <3>3. FtpReplies' /\ Ftp!Whole'
      BY <3>1, <1>2 DEF FtpParts, FtpReplies, FtpAt, FtpCarrying, FtpFirst, FtpKnown, Ftp!Whole
    <3>4. FtpBlocks'
      BY <3>1, <1>2 DEF FtpParts, FtpBlocks, FtpCarrying, FtpOwn, FtpSaidAll, FtpFirst, FtpKnown,
                        FtpWithin, FtpFull
    <3> QED
      BY <3>2, <3>3, <3>4 DEF FtpParts
  <2> QED
    BY <2>1, <2>2, <2>3, <2>4, <2>5, <2>6, <2>7, <2>8, <2>9 DEF Ftp!Next
<1> QED
  BY <1>1, <1>2 DEF FtpInv

LEMMA FtpSuffices ==
    ASSUME FtpInv
    PROVE  Ftp!TransfersRight
<1>1. CASE client = "gone"
  BY <1>1 DEF Ftp!TransfersRight, Ftp!InStep, Ftp!Whole
<1>2. CASE FtpParts
  <2>1. client = "prompt" /\ child # "gone" => (toClient = << >> /\ toChild = << >>)
    BY <1>2 DEF FtpParts, FtpAsking, FtpAt
  <2>2. client = "code" => (Len(toClient) <= 1 /\ Len(toChild) <= 1)
    <3>1. Len(toChild) <= 1
      <4>1. Len(toChild) \in {0, 1}
        BY <1>2 DEF FtpParts, FtpType
      <4>2. \A n \in {0, 1} : n <= 1
        OBVIOUS
      <4> QED
        BY <4>1, <4>2
    <3>2. client = "code" => toClient \in {<< >>, <<"200">>, <<"221">>}
      BY <1>2 DEF FtpParts, FtpAsking
    <3>3. \A m : Len(<<m>>) = 1
      OBVIOUS
    <3>4. Len(<< >>) = 0
      OBVIOUS
    <3> QED
      BY <3>1, <3>2, <3>3, <3>4
  <2>3. child \in {"serve", "send"} => served = cmd
    BY <1>2 DEF FtpParts, FtpType, FtpLogin, FtpAsking, FtpReplies, FtpCarrying, FtpAt
  <2> QED
    BY <1>2, <2>1, <2>2, <2>3 DEF FtpParts, Ftp!TransfersRight, Ftp!InStep
<1> QED
  BY <1>1, <1>2 DEF FtpInv

\* For any files of any length and any number of commands, whenever the client is
\* interrupted or the child killed, and whoever comes to the client's port: client and
\* child are at the same command, and a client that has read 226 over its own child's
\* connection has the whole file (ftclient.c:109, ftserve.c:83 and :156).
THEOREM AlwaysTransfersRight ==
    Spec => []TransfersRight
<1> DEFINE I == program = "ftp" => FtpInv
<1>1. Init => I
  BY FtpInitially DEF Init
<1>2. I /\ [Next]_vars => I'
  <2> SUFFICES ASSUME I, [Next]_vars, program' = "ftp" PROVE FtpInv'
    OBVIOUS
  <2>1. program = "ftp" /\ [Ftp!Next]_(Ftp!vars)
    BY DEF Next, vars, Ftp!vars, Ftp!control, Ftp!transfer, Ftp!port
  <2> QED
    BY <2>1, FtpStep
<1>3. I => TransfersRight
  BY FtpSuffices DEF TransfersRight
<1> QED
  BY <1>1, <1>2, <1>3, PTL DEF Spec

-----------------------------------------------------------------------------
(***************************************************************************)
(* The FTP library.  As long as no reply was lost and the server is there, *)
(* at most one command is on its way or one answer to it, the answer to a  *)
(* transfer being two replies.                                             *)
(***************************************************************************)
LibReply(c, part) == [code |-> c, n |-> asked[1], part |-> part]

LibMoves == {"LIST", "RETR", "STOR"}
LibDoing == IF cmd = "STOR" THEN "getting" ELSE "sending"

\* the second reply to a transfer: still to come, or there
LibSecond ==
    \/ server = LibDoing /\ replies = << >>
    \/ server = "idle" /\ \E c \in {226, 426} : replies = <<LibReply(c, 2)>>

LibWaiting ==
    \/ cmd = "" /\ asked[1] = 0 /\ todo = << >> /\ server = "idle" /\ \E c : replies = <<LibReply(c, 1)>>
    \/ cmd # "" /\ todo = <<<<cmd, asked[1]>>>> /\ replies = << >> /\ server = "idle"
    \/ /\ todo = << >> /\ server = "idle" /\ cmd \notin LibMoves
       /\ \E c : replies = <<LibReply(c, 1)>>
    \/ todo = << >> /\ server = "idle" /\ cmd \in LibMoves /\ replies = <<LibReply(550, 1)>>
    \/ /\ todo = << >> /\ server = LibDoing /\ cmd \in LibMoves /\ served = asked[1]
       /\ replies = <<LibReply(150, 1)>>
    \/ /\ todo = << >> /\ server = "idle" /\ cmd \in LibMoves /\ served = asked[1]
       /\ \E c \in {226, 426} : replies = <<LibReply(150, 1), LibReply(c, 2)>>

LibPlaces ==
    /\ pc = "out" =>
           /\ todo = << >> /\ replies = << >> /\ server = "idle"
           /\ cmd = "" /\ asked = <<0, 1>>
    /\ pc = "wait" => asked[2] = 1 /\ LibWaiting
    /\ pc = "wait" /\ cmd \in LibMoves => fn \in DOMAIN Library!Transfer /\ cmd = Library!Transfer[fn]
    /\ pc = "data" =>
           asked[2] = 1 /\ answered = asked /\ todo = << >> /\ served = asked[1] /\ LibSecond
    /\ pc = "last" => asked[2] = 2 /\ todo = << >> /\ served = asked[1] /\ LibSecond
    /\ pc \in {"data", "last"} => fn \in DOMAIN Library!Transfer /\ cmd = Library!Transfer[fn]
    /\ pc = "idle" => answered = asked /\ todo = << >> /\ replies = << >> /\ server = "idle"

\* 226 has been said to the transfer
LibSaidAll == replies = <<LibReply(226, 2)>> \/ replies = <<LibReply(150, 1), LibReply(226, 2)>>

LibMoved ==
    /\ (pc = "wait" /\ cmd \in LibMoves) \/ pc \in {"data", "last"} =>
           /\ put \in Nat /\ got \in Nat
           /\ pc = "last" <=> data = "shut"
           /\ LibSaidAll /\ ~short => put = FileBlocks /\ (cmd = "STOR" => got = put)
    /\ pc = "last" /\ ~short => IF cmd = "STOR" THEN put = FileBlocks ELSE got = put
    /\ pc = "idle" /\ fn \in DOMAIN Library!Transfer /\ returned = 0 /\ ~short => got = FileBlocks

LibType ==
    /\ pc \in {"out", "wait", "data", "last", "idle"}
    /\ asked[1] \in Nat /\ asked = <<asked[1], asked[2]>>

LibParts == LibType /\ LibPlaces /\ LibMoved

LibLive == ~lost /\ server # "gone" /\ pc \notin {"closed", "killed"}

LibInv == LibLive => LibParts

LEMMA LibInitially ==
    ASSUME Library!Init
    PROVE  LibInv
<1> USE DEF Library!Init
<1>1. LibType
  BY DEF LibType
<1>2. LibPlaces /\ LibMoved
  BY DEF LibPlaces, LibMoved
<1> QED
  BY <1>1, <1>2 DEF LibInv, LibParts

\* A recv that loses nothing takes the one reply that is first.
LEMMA LibTakes ==
    ASSUME NEW k \in 0..Len(replies), Library!Recv(k), ~lost', server # "gone"
    PROVE  /\ ~lost /\ k = 1 /\ Len(replies) >= 1 /\ replies' = SubSeq(replies, 2, Len(replies))
           /\ answered' = <<replies[1].n, replies[1].part>>
<1>1. ~lost /\ ~(k > 1) /\ k # 0
  BY DEF Library!Recv
<1>2. k = 1
  BY <1>1
<1> QED
  BY <1>1, <1>2 DEF Library!Recv

LEMMA RestOfReplies ==
    /\ \A r : SubSeq(<<r>>, 2, Len(<<r>>)) = << >> /\ <<r>>[1] = r
    /\ \A r, s : SubSeq(<<r, s>>, 2, Len(<<r, s>>)) = <<s>> /\ <<r, s>>[1] = r
<1>1. ASSUME NEW r PROVE SubSeq(<<r>>, 2, Len(<<r>>)) = << >> /\ <<r>>[1] = r
  OBVIOUS
<1>2. ASSUME NEW r, NEW s PROVE SubSeq(<<r, s>>, 2, Len(<<r, s>>)) = <<s>> /\ <<r, s>>[1] = r
  <2>1. PICK S : r \in S /\ s \in S
    <3>1. r \in {r, s} /\ s \in {r, s}
      OBVIOUS
    <3> QED
      BY <3>1
  <2> DEFINE w == <<r, s>>  o == <<s>>  t == SubSeq(w, 2, 2)
  <2>2. w \in Seq(S) /\ Len(w) = 2 /\ w[1] = r /\ w[2] = s
    BY <2>1
  <2>3. o \in Seq(S) /\ Len(o) = 1 /\ o[1] = s
    BY <2>1
  <2> HIDE DEF w, o
  <2>4. t \in Seq(S) /\ Len(t) = 1 /\ t[1] = s
    <3>1. t = [i \in 1..1 |-> w[i + 1]]
      BY <2>2
    <3>2. t = [i \in 1..1 |-> s]
      BY <3>1, <2>2
    <3> QED
      BY <3>2, <2>1
  <2> HIDE DEF t
  <2>5. t = o
    BY <2>3, <2>4
  <2> QED
    BY <2>2, <2>5 DEF w, o, t
<1> QED
  BY <1>1, <1>2

\* The answer to the one command that is on its way, if nothing is lost.
LEMMA LibAnswered ==
    ASSUME LibLive => LibParts, LibLive', pc = "wait", Library!ftp_sendcmd, UNCHANGED server
    PROVE  /\ LibParts /\ todo = << >> /\ asked[2] = 1 /\ answered' = asked
           /\ cmd \notin LibMoves => replies' = << >> /\ server = "idle"
           /\ cmd \in LibMoves =>
                  /\ result' \in {150, 550}
                  /\ result' = 550 => replies' = << >> /\ server = "idle"
                  /\ result' = 150 => served = asked[1] /\ (UNCHANGED <<cmd, asked>> => LibSecond')
                  /\ UNCHANGED asked /\ LibSaidAll' => LibSaidAll
<1>1. PICK k \in 0..Len(replies) :
          Library!Recv(k) /\ result' = IF k = 0 THEN -1 ELSE Library!Number(replies[1].code)
  BY DEF Library!ftp_sendcmd, Library!RecvPiece, LibLive
<1>2. server # "gone" /\ ~lost'
  BY DEF LibLive
<1>3. /\ ~lost /\ k = 1 /\ Len(replies) >= 1 /\ replies' = SubSeq(replies, 2, Len(replies))
      /\ answered' = <<replies[1].n, replies[1].part>>
      /\ result' = Library!Number(replies[1].code)
  BY <1>1, <1>2, LibTakes
<1>4. LibParts /\ LibWaiting /\ asked[2] = 1 /\ asked = <<asked[1], 1>>
  <2>1. LibParts
    BY <1>2, <1>3 DEF LibLive
  <2>2. asked[2] = 1 /\ asked = <<asked[1], asked[2]>>
    BY <2>1 DEF LibParts, LibPlaces, LibType
  <2> QED
    BY <2>1, <2>2 DEF LibParts, LibPlaces
<1>5. \A c, p : LibReply(c, p).n = asked[1] /\ LibReply(c, p).part = p /\ LibReply(c, p).code = c
  BY DEF LibReply
<1>6. ASSUME NEW c, replies = <<LibReply(c, 1)>>
      PROVE  replies' = << >> /\ answered' = asked /\ result' = Library!Number(c)
  BY <1>3, <1>4, <1>5, <1>6, RestOfReplies
<1>7. ASSUME NEW c, NEW d, replies = <<LibReply(c, 1), LibReply(d, 2)>>
      PROVE  replies' = <<LibReply(d, 2)>> /\ answered' = asked /\ result' = Library!Number(c)
  BY <1>3, <1>4, <1>5, <1>7, RestOfReplies
<1>13. Library!Number(150) = 150 /\ Library!Number(550) = 550
  BY DEF Library!Number, Library!NoNumber
<1>8. replies # << >>
  BY <1>3
<1>9. CASE todo = << >> /\ server = "idle" /\ cmd \notin LibMoves /\ \E c : replies = <<LibReply(c, 1)>>
  BY <1>4, <1>6, <1>9
<1>10. CASE todo = << >> /\ server = "idle" /\ cmd \in LibMoves /\ replies = <<LibReply(550, 1)>>
  <2>1. replies' = << >> /\ answered' = asked /\ result' = 550
    BY <1>6, <1>10, <1>13
  <2>2. ~LibSaidAll'
    BY <2>1 DEF LibSaidAll
  <2> QED
    BY <2>1, <2>2, <1>4, <1>10
<1>11. CASE /\ todo = << >> /\ server = LibDoing /\ cmd \in LibMoves /\ served = asked[1]
            /\ replies = <<LibReply(150, 1)>>
  <2>1. replies' = << >> /\ answered' = asked /\ result' = 150
    BY <1>6, <1>11, <1>13
  <2>2. UNCHANGED cmd => LibSecond'
    BY <2>1, <1>11 DEF LibSecond, LibDoing
  <2>3. ~LibSaidAll'
    BY <2>1 DEF LibSaidAll
  <2> QED
    BY <2>1, <2>2, <2>3, <1>4, <1>11
<1>12. CASE /\ todo = << >> /\ server = "idle" /\ cmd \in LibMoves /\ served = asked[1]
            /\ \E c \in {226, 426} : replies = <<LibReply(150, 1), LibReply(c, 2)>>
  <2>1. PICK c \in {226, 426} : replies = <<LibReply(150, 1), LibReply(c, 2)>>
    BY <1>12
  <2>2. replies' = <<LibReply(c, 2)>> /\ answered' = asked /\ result' = 150
    BY <1>7, <1>13, <2>1
  <2>3. UNCHANGED <<cmd, asked>> => LibSecond'
    BY <2>2, <1>12 DEF LibSecond, LibReply
  <2>4. UNCHANGED asked /\ LibSaidAll' => LibSaidAll
    <3> SUFFICES ASSUME UNCHANGED asked, LibSaidAll' PROVE LibSaidAll
      OBVIOUS
    <3>1. \A r, q, x : <<r>> # <<q, x>>
      OBVIOUS
    <3>2. \A r, q : <<r>> = <<q>> => r = q
      OBVIOUS
    <3>3. replies' = <<LibReply(226, 2)>>
      BY <2>2, <3>1 DEF LibSaidAll, LibReply
    <3>4. LibReply(c, 2) = LibReply(226, 2)
      BY <2>2, <3>2, <3>3
    <3>5. c = 226
      BY <3>4, <1>5
    <3> QED
      BY <2>1, <3>5 DEF LibSaidAll
  <2> QED
    BY <2>2, <2>3, <2>4, <1>4, <1>12
<1> QED
  BY <1>4, <1>8, <1>9, <1>10, <1>11, <1>12 DEF LibWaiting, LibMoves

\* The commands of a transfer, and those that a call begins with.
LEMMA LibCommands ==
    /\ \A f \in DOMAIN Library!Transfer :
           /\ Library!Transfer[f] \in LibMoves /\ Library!Transfer[f] # ""
           /\ Library!Transfer[f] = "STOR" <=> f = "ftp_storfile"
    /\ \A f \in DOMAIN Library!First : Library!First[f] \notin LibMoves /\ Library!First[f] # ""
<1>1. ASSUME NEW f \in DOMAIN Library!Transfer
      PROVE  /\ Library!Transfer[f] \in LibMoves /\ Library!Transfer[f] # ""
             /\ Library!Transfer[f] = "STOR" <=> f = "ftp_storfile"
  <2>1. f \in {"ftp_list", "ftp_retrfile", "ftp_storfile"}
    BY DEF Library!Transfer
  <2>2. /\ Library!Transfer["ftp_list"] = "LIST" /\ Library!Transfer["ftp_retrfile"] = "RETR"
        /\ Library!Transfer["ftp_storfile"] = "STOR"
    BY DEF Library!Transfer
  <2> QED
    BY <2>1, <2>2 DEF LibMoves
<1>2. ASSUME NEW f \in DOMAIN Library!First
      PROVE  Library!First[f] \notin LibMoves /\ Library!First[f] # ""
  <2>1. f \in {"ftp_type", "ftp_cwd", "ftp_cdup", "ftp_mkd", "ftp_list", "ftp_retrfile",
               "ftp_storfile", "ftp_renamefile", "ftp_deletefile", "ftp_deletefolder", "ftp_quit"}
    BY DEF Library!First
  <2>2. /\ Library!First["ftp_type"] = "TYPE" /\ Library!First["ftp_cwd"] = "CWD"
        /\ Library!First["ftp_cdup"] = "CDUP" /\ Library!First["ftp_mkd"] = "MKD"
        /\ Library!First["ftp_list"] = "PASV" /\ Library!First["ftp_retrfile"] = "TYPE"
        /\ Library!First["ftp_storfile"] = "TYPE" /\ Library!First["ftp_renamefile"] = "RNFR"
        /\ Library!First["ftp_deletefile"] = "DELE" /\ Library!First["ftp_deletefolder"] = "RMD"
        /\ Library!First["ftp_quit"] = "QUIT"
    BY DEF Library!First
  <2> QED
    BY <2>1, <2>2 DEF LibMoves
<1> QED
  BY <1>1, <1>2

\* The caller gets an answer that ends its call.
LEMMA LibReturns ==
    ASSUME LibParts, pc' = "idle", UNCHANGED <<fn, asked, todo, server>>, todo = << >>,
           server = "idle", replies' = << >>, answered' = asked,
           fn \in DOMAIN Library!Transfer => returned' # 0
    PROVE  LibParts'
<1>1. LibType'
  BY DEF LibParts, LibType
<1>2. LibPlaces'
  BY DEF LibPlaces
<1>3. LibMoved'
  BY DEF LibMoved
<1> QED
  BY <1>1, <1>2, <1>3 DEF LibParts

LEMMA NaturalFacts ==
    0 \in Nat /\ \A a \in Nat : a + 1 \in Nat
OBVIOUS

\* The caller sends a command.
LEMMA LibSends ==
    ASSUME LibParts, LibLive', NEW c, c # "", Library!Send(c), UNCHANGED server, todo = << >>,
           server = "idle", replies' = << >>,
           c \in LibMoves => fn' \in DOMAIN Library!Transfer /\ c = Library!Transfer[fn'],
           c \in LibMoves => data' = "open" /\ put' = 0 /\ got' = 0
    PROVE  LibParts'
<1>1. /\ pc' = "wait" /\ todo' = <<<<c, asked[1] + 1>>>> /\ cmd' = c
      /\ asked' = <<asked[1] + 1, 1>>
  BY OneMessage DEF Library!Send, LibLive
<1>2. asked'[1] = asked[1] + 1 /\ asked'[2] = 1 /\ asked[1] \in Nat
  BY <1>1 DEF LibParts, LibType
<1>3. LibType'
  <2>1. asked'[1] \in Nat
    <3>1. PICK a \in Nat : asked[1] = a
      BY <1>2
    <3>2. asked'[1] = a + 1
      BY <1>2, <3>1
    <3> QED
      BY <3>2, NaturalFacts, Zenon
  <2>2. asked' = <<asked'[1], asked'[2]>>
    <3>1. PICK a, b : asked' = <<a, b>>
      BY <1>1
    <3> QED
      BY <3>1
  <2> QED
    BY <2>1, <2>2, <1>1 DEF LibType
<1>4. LibWaiting'
  BY <1>1, <1>2 DEF LibWaiting
<1>5. LibPlaces'
  BY <1>1, <1>2, <1>4 DEF LibPlaces
<1>6. LibMoved'
  <2>1. ~LibSaidAll'
    BY DEF LibSaidAll
  <2>2. cmd' \in LibMoves => data' = "open" /\ put' \in Nat /\ got' \in Nat
    <3>1. cmd' = c
      BY <1>1
    <3>2. c \in LibMoves => data' = "open" /\ put' = 0 /\ got' = 0
      OBVIOUS
    <3> QED
      BY <3>1, <3>2, NaturalFacts, Zenon
  <2> QED
    BY <1>1, <2>1, <2>2 DEF LibMoved
<1> QED
  BY <1>3, <1>5, <1>6 DEF LibParts

LEMMA LibAnsweredSteps ==
    ASSUME LibInv, LibLive',
           \/ Library!connect_server \/ Library!login_server
           \/ Library!ftp_type \/ Library!ftp_cwd \/ Library!ftp_cdup \/ Library!ftp_mkd
           \/ Library!ftp_deletefile \/ Library!ftp_deletefolder \/ Library!ftp_renamefile
    PROVE  LibParts'
<1>1. ASSUME pc = "wait", Library!ftp_sendcmd, cmd \notin LibMoves, UNCHANGED server
      PROVE  LibParts /\ todo = << >> /\ answered' = asked /\ replies' = << >> /\ server = "idle"
  BY <1>1, LibAnswered DEF LibInv
<1>2. ASSUME NEW f, NEW c, NEW want, NEW other, Library!Single(f, c, want, other),
             c \notin LibMoves, f \notin DOMAIN Library!Transfer
      PROVE  LibParts'
  <2>1. /\ pc = "wait" /\ Library!ftp_sendcmd /\ cmd = c /\ fn = f /\ pc' = "idle"
        /\ UNCHANGED <<fn, asked, todo, server>>
    BY <1>2 DEF Library!Single, Library!Answered, Library!Return, Library!command
  <2> QED
    BY <2>1, <1>1, <1>2, LibReturns
<1>3. ASSUME NEW f, NEW c, NEW d, Library!Answered(f, c), Library!Then(d), d # "",
             c \notin LibMoves, d \notin LibMoves
      PROVE  LibParts'
  <2>1. pc = "wait" /\ Library!ftp_sendcmd /\ cmd = c /\ Library!Send(d) /\ UNCHANGED server
    BY <1>3 DEF Library!Then, Library!Answered
  <2> QED
    BY <2>1, <1>1, <1>3, LibSends
<1> USE DEF LibMoves, Library!Transfer
<1>4. CASE Library!connect_server
  <2>1. pc = "wait" /\ cmd = "" /\ Library!ftp_sendcmd /\ Library!Then("USER")
    BY <1>4 DEF Library!connect_server, LibLive
  <2>2. Library!Send("USER") /\ UNCHANGED server
    BY <2>1 DEF Library!Then
  <2> QED
    BY <2>1, <2>2, <1>1, LibSends
<1>5. CASE Library!login_server
  <2>1. ASSUME NEW ok, Library!Login(ok), NEW c, Library!Answered("ftp_connect", c), c \notin LibMoves
        PROVE  LibParts'
    <3>1. /\ pc' = "idle" /\ UNCHANGED <<fn, asked, todo, server>>
          /\ pc = "wait" /\ cmd = c /\ fn = "ftp_connect" /\ Library!ftp_sendcmd
      BY <2>1 DEF Library!Login, Library!Return, Library!Answered, LibLive, Library!command
    <3> QED
      BY <3>1, <2>1, <1>1, LibReturns
  <2>2. CASE Library!Answered("ftp_connect", "USER") /\ Library!Then("PASS")
    BY <2>2, <1>3
  <2>3. CASE Library!Answered("ftp_connect", "USER") /\ Library!Login(result' = 230)
    BY <2>3, <2>1
  <2>4. CASE Library!Answered("ftp_connect", "PASS") /\ Library!Login(result' = 230)
    BY <2>4, <2>1
  <2> QED
    BY <1>5, <2>2, <2>3, <2>4 DEF Library!login_server
<1>6. CASE \/ Library!ftp_type \/ Library!ftp_cwd \/ Library!ftp_cdup \/ Library!ftp_mkd
           \/ Library!ftp_deletefile \/ Library!ftp_deletefolder
  BY <1>6, <1>2 DEF Library!ftp_type, Library!ftp_cwd, Library!ftp_cdup, Library!ftp_mkd,
                    Library!ftp_deletefile, Library!ftp_deletefolder
<1>7. CASE Library!ftp_renamefile
  <2>1. CASE Library!Single("ftp_renamefile", "RNTO", 250, result')
    BY <2>1, <1>2
  <2>2. CASE Library!Answered("ftp_renamefile", "RNFR") /\ Library!Then("RNTO")
    BY <2>2, <1>3
  <2>3. CASE /\ Library!Answered("ftp_renamefile", "RNFR") /\ Library!Return(result')
             /\ UNCHANGED <<fn, calls, Library!command, server, served, short>>
    <3>1. /\ pc' = "idle" /\ UNCHANGED <<fn, asked, todo, server>>
          /\ pc = "wait" /\ cmd = "RNFR" /\ fn = "ftp_renamefile" /\ Library!ftp_sendcmd
      BY <2>3 DEF Library!Return, Library!Answered, Library!command
    <3> QED
      BY <3>1, <1>1, LibReturns
  <2> QED
    BY <1>7, <2>1, <2>2, <2>3 DEF Library!ftp_renamefile
<1> QED
  BY <1>4, <1>5, <1>6, <1>7

LEMMA LibTransferSteps ==
    ASSUME LibInv, LibLive', Library!Typed \/ Library!ftp_pasv_connect \/ Library!Begin
    PROVE  LibParts'
<1>0. ASSUME pc = "wait", Library!ftp_sendcmd, UNCHANGED server
      PROVE  /\ LibParts /\ todo = << >> /\ asked[2] = 1 /\ answered' = asked
             /\ cmd \notin LibMoves => replies' = << >> /\ server = "idle"
             /\ cmd \in LibMoves =>
                    /\ result' \in {150, 550}
                    /\ result' = 550 => replies' = << >> /\ server = "idle"
                    /\ result' = 150 => served = asked[1] /\ (UNCHANGED <<cmd, asked>> => LibSecond')
                    /\ UNCHANGED asked /\ LibSaidAll' => LibSaidAll
  BY <1>0, LibAnswered DEF LibInv
<1>1. \A f \in DOMAIN Library!Transfer : Library!Transfer[f] \in LibMoves /\ Library!Transfer[f] # ""
  BY LibCommands
<1>2. CASE Library!Typed
  <2>1. pc = "wait" /\ cmd = "TYPE" /\ Library!ftp_sendcmd /\ Library!Send("PASV") /\ UNCHANGED server
    BY <1>2 DEF Library!Typed, Library!Answered, Library!Then
  <2>2. "TYPE" \notin LibMoves /\ "PASV" \notin LibMoves
    BY DEF LibMoves
  <2> QED
    BY <2>1, <2>2, <1>0, LibSends
<1>3. CASE Library!ftp_pasv_connect
  <2>1. /\ pc = "wait" /\ cmd = "PASV" /\ Library!ftp_sendcmd /\ UNCHANGED <<server, fn>>
        /\ fn \in DOMAIN Library!Transfer
    BY <1>3 DEF Library!ftp_pasv_connect, Library!Answered, Library!Then
  <2>2. "PASV" \notin LibMoves
    BY DEF LibMoves
  <2>3. LibParts /\ todo = << >> /\ answered' = asked /\ replies' = << >> /\ server = "idle"
    BY <2>1, <2>2, <1>0
  <2>4. CASE /\ Library!Then(Library!Transfer[fn])
             /\ data' = "open" /\ put' = 0 /\ got' = 0
    <3>1. Library!Send(Library!Transfer[fn])
      BY <2>4 DEF Library!Then
    <3> QED
      BY <3>1, <2>1, <2>3, <2>4, <1>1, LibSends
  <2>5. CASE Library!Return(-1) /\ UNCHANGED <<fn, Library!command>>
    <3>1. pc' = "idle" /\ returned' = -1 /\ UNCHANGED <<asked, todo>>
      BY <2>5 DEF Library!Return, Library!command
    <3> QED
      BY <3>1, <2>1, <2>3, LibReturns
  <2> QED
    BY <1>3, <2>4, <2>5 DEF Library!ftp_pasv_connect
<1>4. CASE Library!Begin
  <2>1. /\ pc = "wait" /\ Library!ftp_sendcmd /\ fn \in DOMAIN Library!Transfer
        /\ cmd = Library!Transfer[fn]
        /\ UNCHANGED <<fn, cmd, asked, todo, server, served, data, put, got, short>>
    BY <1>4 DEF Library!Begin, Library!Answered, Library!transfer
  <2>2. cmd \in LibMoves
    BY <2>1, <1>1
  <2>3. /\ LibParts /\ todo = << >> /\ asked[2] = 1 /\ answered' = asked
        /\ result' \in {150, 550}
        /\ result' = 550 => replies' = << >> /\ server = "idle"
        /\ result' = 150 => served = asked[1] /\ LibSecond'
        /\ LibSaidAll' => LibSaidAll
    BY <2>1, <2>2, <1>0
  <2>4. CASE result' = 550
    <3>1. pc' = "idle" /\ returned' # 0
      BY <2>4, <1>4 DEF Library!Begin, Library!Refused, Library!Return
    <3> QED
      BY <3>1, <2>1, <2>3, <2>4, LibReturns
  <2>5. CASE result' = 150
    <3>1. pc' = "data"
      BY <2>5, <1>4 DEF Library!Begin, Library!Refused
    <3>2. LibType'
      BY <3>1, <2>1, <2>3 DEF LibParts, LibType
    <3>3. LibPlaces'
      BY <3>1, <2>1, <2>3, <2>5 DEF LibPlaces
    <3>4. LibMoved'
      BY <3>1, <2>1, <2>2, <2>3 DEF LibParts, LibMoved
    <3> QED
      BY <3>2, <3>3, <3>4 DEF LibParts
  <2> QED
    BY <2>3, <2>4, <2>5
<1> QED
  BY <1>2, <1>3, <1>4

\* A call begins: the connection, or one of a caller that is connected.
LEMMA LibCallSteps ==
    ASSUME LibInv, LibLive', Library!ftp_connect \/ Library!Call
    PROVE  LibParts'
<1>1. CASE Library!ftp_connect
  <2>1. /\ pc = "out" /\ pc' = "wait" /\ UNCHANGED <<cmd, asked, todo, server, lost, short>>
        /\ \E c : replies' = <<[code |-> c, n |-> 0, part |-> 1]>>
    BY <1>1 DEF Library!ftp_connect, LibLive, Library!command
  <2>2. LibParts
    BY <2>1 DEF LibInv, LibLive
  <2>3. todo = << >> /\ server = "idle" /\ cmd = "" /\ asked = <<0, 1>>
    BY <2>1, <2>2 DEF LibParts, LibPlaces
  <2>4. LibWaiting'
    <3>1. PICK c : replies' = <<[code |-> c, n |-> 0, part |-> 1]>>
      BY <2>1
    <3>2. cmd' = "" /\ asked'[1] = 0 /\ todo' = << >> /\ server' = "idle"
      BY <2>1, <2>3
    <3>3. replies' = <<LibReply(c, 1)'>>
      BY <3>1, <3>2 DEF LibReply
    <3> QED
      BY <3>2, <3>3 DEF LibWaiting
  <2>5. LibPlaces'
    BY <2>1, <2>3, <2>4 DEF LibPlaces, LibMoves
  <2>6. LibType' /\ LibMoved'
    BY <2>1, <2>3 DEF LibType, LibMoved, LibMoves
  <2> QED
    BY <2>5, <2>6 DEF LibParts
<1>2. CASE Library!Call
  <2>1. /\ pc = "idle" /\ UNCHANGED <<answered, replies, server, lost>>
    BY <1>2 DEF Library!Call, Library!answer
  <2>2. LibParts
    BY <2>1, <1>2 DEF LibInv, LibLive
  <2>3. answered = asked /\ todo = << >> /\ replies = << >> /\ server = "idle"
    BY <2>1, <2>2 DEF LibParts, LibPlaces
  <2>4. PICK f \in DOMAIN Library!First :
            /\ fn' = f
            /\ \/ Library!Send(Library!First[f])
               \/ Library!Return(-1) /\ UNCHANGED Library!command
    BY <1>2 DEF Library!Call
  <2>5. CASE Library!Send(Library!First[f])
    <3>1. Library!First[f] \notin LibMoves /\ Library!First[f] # ""
      BY LibCommands
    <3> QED
      BY <3>1, <2>1, <2>2, <2>3, <2>5, LibSends
  <2>6. CASE Library!Return(-1) /\ UNCHANGED Library!command
    <3>1. pc' = "idle" /\ returned' = -1 /\ UNCHANGED <<cmd, asked, todo>>
      BY <2>6 DEF Library!Return, Library!command
    <3>2. LibType' /\ LibPlaces' /\ LibMoved'
      BY <3>1, <2>1, <2>2, <2>3 DEF LibParts, LibType, LibPlaces, LibMoved
    <3> QED
      BY <3>2 DEF LibParts
  <2> QED
    BY <2>4, <2>5, <2>6
<1> QED
  BY <1>1, <1>2

\* What is left of an answer as long as the server is still at the transfer.
LEMMA LibStillAtIt ==
    ASSUME LibParts, server \notin {"idle", "gone"}
    PROVE  /\ server = LibDoing /\ todo = << >> /\ served = asked[1] /\ ~LibSaidAll
           /\ \/ pc = "wait" /\ cmd \in LibMoves /\ replies = <<LibReply(150, 1)>>
              \/ pc \in {"data", "last"} /\ replies = << >>
<1>1. \/ /\ pc = "wait" /\ cmd \in LibMoves /\ server = LibDoing /\ todo = << >>
         /\ served = asked[1] /\ replies = <<LibReply(150, 1)>>
      \/ /\ pc \in {"data", "last"} /\ server = LibDoing /\ todo = << >>
         /\ served = asked[1] /\ replies = << >>
  BY DEF LibParts, LibType, LibPlaces, LibWaiting, LibSecond
<1>2. \A r, q, x : <<r>> # <<q, x>>
  OBVIOUS
<1>3. \A r, q : <<r>> = <<q>> => r = q
  OBVIOUS
<1>4. LibReply(150, 1).code = 150 /\ LibReply(226, 2).code = 226
  BY DEF LibReply
<1>5. LibReply(150, 1) # LibReply(226, 2)
  BY <1>4
<1>6. ~LibSaidAll
  BY <1>1, <1>2, <1>3, <1>5 DEF LibSaidAll
<1> QED
  BY <1>1, <1>6

\* The caller moves data, up to their end.
LEMMA LibDataSteps ==
    ASSUME LibParts, LibLive',
           Library!RecvData \/ Library!RecvEnd \/ Library!SendData \/ Library!SendEnd
    PROVE  LibParts'
<1> USE DEF LibParts
<1>1. /\ pc = "data" /\ UNCHANGED <<fn, cmd, answered, todo, replies, server, served>>
  BY DEF Library!RecvData, Library!RecvEnd, Library!SendData, Library!SendEnd, Library!Stop,
         Library!EndData, Library!call, Library!command, Library!answer
<1>2. /\ asked[2] = 1 /\ answered = asked /\ todo = << >> /\ served = asked[1] /\ LibSecond
      /\ fn \in DOMAIN Library!Transfer /\ cmd = Library!Transfer[fn]
  BY <1>1 DEF LibPlaces
<1>3. /\ put \in Nat /\ got \in Nat /\ data # "shut"
      /\ LibSaidAll /\ ~short => put = FileBlocks /\ (cmd = "STOR" => got = put)
  BY <1>1 DEF LibMoved
<1>4. cmd = "STOR" <=> fn = "ftp_storfile"
  BY <1>2, LibCommands
<1>5. CASE pc' = "data" /\ UNCHANGED <<asked, data, short>>
  <2>1. \/ cmd # "STOR" /\ got' = got + 1 /\ put' = put
        \/ cmd = "STOR" /\ put < FileBlocks /\ put' = put + 1 /\ got' = got
    BY <1>1, <1>4, <1>5 DEF Library!RecvData, Library!RecvEnd, Library!SendData, Library!SendEnd,
         Library!Stop, Library!EndData, Library!Return
  <2>2. LibType'
    BY <1>1, <1>5 DEF LibType
  <2>3. LibPlaces'
    BY <1>1, <1>2, <1>5 DEF LibPlaces, LibSecond, LibDoing, LibReply
  <2>4. LibSaidAll' <=> LibSaidAll
    BY <1>1, <1>5 DEF LibSaidAll, LibReply
  <2>5. put' \in Nat /\ got' \in Nat
    BY <2>1, <1>3
  <2>6. LibSaidAll /\ ~short => put' = FileBlocks /\ cmd # "STOR"
    BY <2>1, <1>3
  <2>7. LibMoved'
    BY <1>1, <1>3, <1>5, <2>4, <2>5, <2>6 DEF LibMoved
  <2> QED
    BY <2>2, <2>3, <2>7
<1>6. CASE pc' = "last" /\ asked' = <<asked[1], 2>> /\ data' = "shut" /\ UNCHANGED <<put, got>>
  <2>1. ~short' => ~short /\ IF cmd = "STOR" THEN put = FileBlocks ELSE got = put
    <3>1. Library!RecvEnd \/ Library!SendEnd
      BY <1>1, <1>6 DEF Library!RecvData, Library!SendData, Library!Stop, Library!Return, Library!call
    <3>2. CASE Library!RecvEnd
      BY <3>2, <1>4, <1>6 DEF Library!RecvEnd, LibLive
    <3>3. CASE Library!SendEnd
      BY <3>3, <1>4 DEF Library!SendEnd
    <3> QED
      BY <3>1, <3>2, <3>3
  <2>2. asked'[1] = asked[1] /\ asked'[2] = 2 /\ asked' = <<asked'[1], asked'[2]>>
    BY <1>6
  <2>3. LibType'
    BY <2>2, <1>6 DEF LibType
  <2>4. LibSecond' /\ (LibSaidAll' <=> LibSaidAll)
    BY <1>1, <1>2, <2>2 DEF LibSaidAll, LibSecond, LibReply, LibDoing
  <2>5. LibPlaces'
    BY <1>1, <1>2, <1>6, <2>2, <2>4 DEF LibPlaces
  <2>6. LibMoved'
    BY <1>1, <1>3, <1>6, <2>1, <2>4 DEF LibMoved
  <2> QED
    BY <2>3, <2>5, <2>6
<1> QED
  <2>2. ~lost' /\ pc' # "killed"
    BY DEF LibLive
  <2>3. CASE Library!RecvData \/ Library!SendData
    BY <2>2, <2>3, <1>1, <1>5 DEF Library!RecvData, Library!SendData, Library!Stop, Library!call, Library!command
  <2>4. CASE Library!RecvEnd \/ Library!SendEnd
    BY <2>4, <1>6 DEF Library!RecvEnd, Library!SendEnd, Library!EndData
  <2> QED
    BY <2>3, <2>4

\* The last reply is read.
LEMMA LibLastStep ==
    ASSUME LibInv, LibLive', Library!Last
    PROVE  LibParts'
<1>1. PICK k \in 0..Len(replies) :
          /\ Library!Recv(k)
          /\ result' \in IF k = 0 THEN Library!Left ELSE Library!NumberOrLeft(replies[1].code)
  BY DEF Library!Last, Library!RecvPiece, LibLive
<1>2. /\ pc = "last" /\ pc' = "idle" /\ returned' = Library!Verdict(fn, result')
      /\ UNCHANGED <<fn, cmd, asked, todo, server, served, put, got, short>>
  BY DEF Library!Last, Library!Return, Library!command, Library!transfer
<1>3. /\ ~lost /\ k = 1 /\ Len(replies) >= 1 /\ replies' = SubSeq(replies, 2, Len(replies))
      /\ answered' = <<replies[1].n, replies[1].part>>
      /\ result' \in Library!NumberOrLeft(replies[1].code)
  <2>1. server # "gone" /\ ~lost'
    BY <1>2 DEF LibLive
  <2> QED
    BY <1>1, <2>1, LibTakes
<1>4. LibParts
  BY <1>2, <1>3 DEF LibInv, LibLive
<1>5. /\ asked[2] = 2 /\ todo = << >> /\ served = asked[1] /\ LibSecond
      /\ fn \in DOMAIN Library!Transfer /\ cmd = Library!Transfer[fn] /\ asked = <<asked[1], 2>>
  BY <1>2, <1>4 DEF LibParts, LibPlaces, LibType
<1>6. PICK c \in {226, 426} : server = "idle" /\ replies = <<LibReply(c, 2)>>
  BY <1>3, <1>5 DEF LibSecond
<1>7. LibReply(c, 2).n = asked[1] /\ LibReply(c, 2).part = 2 /\ LibReply(c, 2).code = c
  BY DEF LibReply
<1>8. replies' = << >> /\ answered' = asked /\ result' = c
  BY <1>3, <1>5, <1>6, <1>7, RestOfReplies DEF Library!NumberOrLeft, Library!NoNumber
<1>9. LibType' /\ LibPlaces'
  BY <1>2, <1>4, <1>5, <1>6, <1>8 DEF LibParts, LibType, LibPlaces
<1>10. LibMoved'
  <2> SUFFICES ASSUME returned' = 0, ~short' PROVE got' = FileBlocks
    BY <1>2 DEF LibMoved
  <2>1. c = 226
    BY <1>2, <1>8 DEF Library!Verdict
  <2>2. LibSaidAll
    BY <2>1, <1>6 DEF LibSaidAll
  <2>3. put = FileBlocks /\ (cmd = "STOR" => got = put) /\ (cmd # "STOR" => got = put)
    BY <1>2, <1>4, <2>2 DEF LibParts, LibMoved
  <2> QED
    BY <2>3, <1>2
<1> QED
  BY <1>9, <1>10 DEF LibParts

\* The server takes a command.
LEMMA LibServeStep ==
    ASSUME LibParts, LibLive', Library!Serve
    PROVE  LibParts'
<1> USE DEF LibParts
<1>1. /\ server = "idle" /\ todo # << >> /\ todo' = Tail(todo)
      /\ UNCHANGED <<pc, fn, cmd, asked, answered, returned, data, put, got, short>>
  BY DEF Library!Serve, Library!call, Library!transfer
<1>2. pc = "wait" /\ asked[2] = 1 /\ cmd # "" /\ todo = <<<<cmd, asked[1]>>>> /\ replies = << >>
  BY <1>1 DEF LibType, LibPlaces, LibWaiting
<1>3. todo[1][1] = cmd /\ todo[1][2] = asked[1] /\ todo' = << >>
  BY <1>1, <1>2, OneMessage
<1>4. \A c : Library!Reply(c, asked[1], 1) => replies' = <<LibReply(c, 1)>>
  BY <1>2, OneMessage DEF Library!Reply, LibReply
<1>5. served' = asked[1] /\
      \/ /\ cmd \in DOMAIN Library!Good /\ Library!Reply(Library!Good[cmd], asked[1], 1)
         /\ server' = IF cmd = "QUIT" THEN "gone" ELSE server
      \/ cmd = "USER" /\ (\E code \in {230, 331} : Library!Reply(code, asked[1], 1)) /\ UNCHANGED server
      \/ cmd # "QUIT" /\ Library!Reply(550, asked[1], 1) /\ UNCHANGED server
      \/ /\ cmd \in {"LIST", "RETR", "STOR"} /\ data = "open" /\ Library!Reply(150, asked[1], 1)
         /\ server' = IF cmd = "STOR" THEN "getting" ELSE "sending"
  BY <1>3 DEF Library!Serve
<1>6. cmd \in DOMAIN Library!Good => cmd \notin LibMoves
  BY DEF Library!Good, LibMoves
<1>7. server' # "gone" /\ "USER" \notin LibMoves
  BY DEF LibLive, LibMoves
<1>8. \/ server' = "idle" /\ cmd \notin LibMoves /\ \E c : replies' = <<LibReply(c, 1)>>
      \/ server' = "idle" /\ replies' = <<LibReply(550, 1)>>
      \/ server' = LibDoing /\ cmd \in LibMoves /\ replies' = <<LibReply(150, 1)>>
  <2>1. CASE /\ cmd \in DOMAIN Library!Good /\ Library!Reply(Library!Good[cmd], asked[1], 1)
             /\ server' = IF cmd = "QUIT" THEN "gone" ELSE server
    BY <2>1, <1>1, <1>4, <1>6, <1>7
  <2>2. CASE cmd = "USER" /\ (\E code \in {230, 331} : Library!Reply(code, asked[1], 1)) /\ UNCHANGED server
    BY <2>2, <1>1, <1>4, <1>7
  <2>3. CASE cmd # "QUIT" /\ Library!Reply(550, asked[1], 1) /\ UNCHANGED server
    BY <2>3, <1>1, <1>4
  <2>4. CASE /\ cmd \in {"LIST", "RETR", "STOR"} /\ data = "open" /\ Library!Reply(150, asked[1], 1)
             /\ server' = IF cmd = "STOR" THEN "getting" ELSE "sending"
    BY <2>4, <1>4 DEF LibMoves, LibDoing
  <2> QED
    BY <1>5, <2>1, <2>2, <2>3, <2>4
<1>9. LibType'
  BY <1>1 DEF LibType
<1>10. LibWaiting'
  <2>1. UNCHANGED <<cmd, asked>> /\ todo' = << >> /\ served' = asked[1] /\ LibDoing' = LibDoing
    BY <1>1, <1>3, <1>5 DEF LibDoing
  <2>2. CASE server' = "idle" /\ cmd \notin LibMoves /\ \E c : replies' = <<LibReply(c, 1)>>
    <3>1. PICK c : replies' = <<LibReply(c, 1)'>>
      BY <2>1, <2>2 DEF LibReply
    <3> QED
      BY <2>1, <2>2, <3>1 DEF LibWaiting, LibMoves
  <2>3. CASE server' = "idle" /\ replies' = <<LibReply(550, 1)>>
    <3>1. replies' = <<LibReply(550, 1)'>>
      BY <2>1, <2>3 DEF LibReply
    <3>2. CASE cmd \in LibMoves
      BY <2>1, <2>3, <3>1, <3>2 DEF LibWaiting, LibMoves
    <3>3. CASE cmd \notin LibMoves
      BY <2>1, <2>3, <3>1, <3>3 DEF LibWaiting, LibMoves
    <3> QED
      BY <3>2, <3>3
  <2>4. CASE server' = LibDoing /\ cmd \in LibMoves /\ replies' = <<LibReply(150, 1)>>
    BY <2>1, <2>4 DEF LibWaiting, LibReply
  <2> QED
    BY <1>8, <2>2, <2>3, <2>4
<1>11. LibPlaces'
  BY <1>1, <1>2, <1>10 DEF LibPlaces
<1>12. ~LibSaidAll'
  <2>1. \A r, q, x : <<r>> # <<q, x>>
    OBVIOUS
  <2>2. \A r, q : <<r>> = <<q>> => r = q
    OBVIOUS
  <2>3. \A c : LibReply(c, 1) # LibReply(226, 2)
    <3>1. \A c, p : LibReply(c, p).part = p
      BY DEF LibReply
    <3> QED
      BY <3>1
  <2>4. PICK c : replies' = <<LibReply(c, 1)>>
    BY <1>8
  <2>5. replies' # <<LibReply(226, 2)>> /\ \A r, q : replies' # <<r, q>>
    BY <2>1, <2>2, <2>3, <2>4
  <2> QED
    BY <2>5, <1>1 DEF LibSaidAll, LibReply
<1>13. LibMoved'
  BY <1>1, <1>2, <1>12 DEF LibMoved
<1> QED
  BY <1>9, <1>11, <1>13

\* The server is at a transfer, or ends it.
LEMMA LibServerSteps ==
    ASSUME LibParts, LibLive', Library!Sends \/ Library!Gets \/ Library!Finish
    PROVE  LibParts'
<1> USE DEF LibParts
<1>1. /\ server \in {"sending", "getting"}
      /\ UNCHANGED <<pc, fn, cmd, asked, answered, todo, returned, served, short>>
  BY DEF Library!Sends, Library!Gets, Library!Finish, Library!call, Library!command, Library!answer
<1>2. /\ server = LibDoing /\ todo = << >> /\ served = asked[1] /\ ~LibSaidAll
      /\ \/ pc = "wait" /\ cmd \in LibMoves /\ replies = <<LibReply(150, 1)>>
         \/ pc \in {"data", "last"} /\ replies = << >>
  BY <1>1, LibStillAtIt
<1>3. /\ put \in Nat /\ got \in Nat /\ (pc = "last" <=> data = "shut")
      /\ pc = "last" /\ ~short => IF cmd = "STOR" THEN put = FileBlocks ELSE got = put
  BY <1>2 DEF LibMoved
<1>4. LibType'
  BY <1>1 DEF LibType
<1>5. \A c, p : LibReply(c, p)' = LibReply(c, p)
  BY <1>1 DEF LibReply
<1>6. (server = "getting" <=> cmd = "STOR") /\ LibDoing' = LibDoing
  BY <1>1, <1>2 DEF LibDoing
<1>7. CASE Library!Sends \/ Library!Gets
  <2>1. UNCHANGED <<replies, server, data>>
    BY <1>7 DEF Library!Sends, Library!Gets, Library!answer
  <2>2. LibPlaces'
    <3>1. pc = "wait" => LibWaiting'
      <4>1. pc = "wait" => replies' = <<LibReply(150, 1)'>> /\ server' = LibDoing'
        BY <2>1, <1>2, <1>5, <1>6
      <4> QED
        BY <4>1, <1>1, <1>2 DEF LibWaiting, LibMoves
    <3>2. pc \in {"data", "last"} => LibSecond'
      BY <2>1, <1>2, <1>6 DEF LibSecond
    <3>3. pc' = pc /\ pc \in {"wait", "data", "last"}
      BY <1>1, <1>2
    <3>4. UNCHANGED <<cmd, asked, answered, todo, served, fn, server>>
      BY <1>1, <2>1
    <3> HIDE DEF LibParts
    <3>5. LibPlaces
      BY DEF LibParts
    <3> QED
      BY <3>1, <3>2, <3>3, <3>4, <3>5 DEF LibPlaces
  <2>3. ~LibSaidAll'
    BY <2>1, <1>1, <1>2 DEF LibSaidAll, LibReply
  <2>4. \/ server = "sending" /\ data = "open" /\ put' = put + 1 /\ got' = got
        \/ server = "getting" /\ put' = put /\ got' = got + 1
    BY <1>7 DEF Library!Sends, Library!Gets
  <2>5. put' \in Nat /\ got' \in Nat
    BY <2>4, <1>3
  <2>6. pc = "last" /\ ~short => IF cmd = "STOR" THEN put' = FileBlocks ELSE got' = put'
    BY <2>4, <1>3, <1>6
  <2>7. LibMoved'
    BY <1>1, <1>2, <1>3, <2>1, <2>3, <2>5, <2>6 DEF LibMoved
  <2> QED
    BY <1>4, <2>2, <2>7
<1>8. CASE Library!Finish
  <2>1. server' = "idle" /\ data' = (IF data = "open" THEN "cut" ELSE data) /\ UNCHANGED <<put, got>>
    BY <1>8 DEF Library!Finish
  <2>2. PICK c \in {226, 426} :
            /\ Library!Reply(c, served, 2)
            /\ c = 226 => \/ server = "sending" /\ put = FileBlocks
                          \/ server = "getting" /\ data = "shut" /\ got = put
    BY <1>8 DEF Library!Finish
  <2>3. replies' = Append(replies, LibReply(c, 2))
    BY <2>2, <1>2 DEF Library!Reply, LibReply
  <2>4. \/ pc = "wait" /\ cmd \in LibMoves /\ replies' = <<LibReply(150, 1), LibReply(c, 2)>>
        \/ pc \in {"data", "last"} /\ replies' = <<LibReply(c, 2)>>
    <3>1. CASE replies = << >>
      BY <3>1, <2>3, <1>2, OneMessage
    <3>2. CASE replies = <<LibReply(150, 1)>>
      <4>1. replies' = <<LibReply(150, 1), LibReply(c, 2)>>
        BY <3>2, <2>3, TwoMessages
      <4> QED
        BY <4>1, <3>2, <1>2
    <3> QED
      BY <3>1, <3>2, <1>2
  <2>5. LibPlaces'
    <3>1. pc = "wait" => LibWaiting'
      BY <2>1, <2>4, <1>1, <1>2 DEF LibWaiting, LibReply
    <3>2. pc \in {"data", "last"} => LibSecond'
      BY <2>1, <2>4, <1>1, <1>2 DEF LibSecond, LibReply
    <3>3. pc' = pc /\ pc \in {"wait", "data", "last"}
      BY <1>1, <1>2
    <3>4. UNCHANGED <<cmd, asked, answered, todo, served, fn>>
      BY <1>1
    <3> HIDE DEF LibParts
    <3>5. LibPlaces
      BY DEF LibParts
    <3> QED
      BY <3>1, <3>2, <3>3, <3>4, <3>5 DEF LibPlaces
  <2>6. LibSaidAll' /\ ~short => put = FileBlocks /\ (cmd = "STOR" => got = put)
    <3> SUFFICES ASSUME LibSaidAll', ~short PROVE put = FileBlocks /\ (cmd = "STOR" => got = put)
      OBVIOUS
    <3>1. \A r, q, x : <<r>> # <<q, x>>
      OBVIOUS
    <3>2. \A r, q : <<r>> = <<q>> => r = q
      OBVIOUS
    <3>3. \A r, q, x, y : <<r, x>> = <<q, y>> => x = y
      OBVIOUS
    <3>4. replies' \in {<<LibReply(226, 2)>>, <<LibReply(150, 1), LibReply(226, 2)>>}
      BY <1>1 DEF LibSaidAll, LibReply
    <3>5. LibReply(c, 2) = LibReply(226, 2)
      BY <2>4, <3>1, <3>2, <3>3, <3>4
    <3>6. c = 226
      <4>1. LibReply(c, 2).code = c /\ LibReply(226, 2).code = 226
        BY DEF LibReply
      <4> QED
        BY <3>5, <4>1
    <3> QED
      BY <3>6, <2>2, <1>3, <1>6
  <2>7. LibMoved'
    BY <1>1, <1>2, <1>3, <2>1, <2>6 DEF LibMoved
  <2> QED
    BY <1>4, <2>5, <2>7
<1> QED
  BY <1>7, <1>8

LEMMA LibStep ==
    ASSUME LibInv, [Library!Next]_(Library!vars)
    PROVE  LibInv'
<1> SUFFICES ASSUME LibLive' PROVE LibParts'
  BY DEF LibInv
<1>1. CASE \/ Library!connect_server \/ Library!login_server
           \/ Library!ftp_type \/ Library!ftp_cwd \/ Library!ftp_cdup \/ Library!ftp_mkd
           \/ Library!ftp_deletefile \/ Library!ftp_deletefolder \/ Library!ftp_renamefile
  BY <1>1, LibAnsweredSteps
<1>2. CASE Library!Typed \/ Library!ftp_pasv_connect \/ Library!Begin
  BY <1>2, LibTransferSteps
<1>3. CASE Library!ftp_connect \/ Library!Call
  BY <1>3, LibCallSteps
<1>4. CASE Library!Last
  BY <1>4, LibLastStep
<1>5. CASE Library!RecvData \/ Library!RecvEnd \/ Library!SendData \/ Library!SendEnd
  <2>1. pc = "data" /\ server' = server /\ (lost => lost')
    BY <1>5 DEF Library!RecvData, Library!RecvEnd, Library!SendData, Library!SendEnd, Library!Stop,
                Library!EndData
  <2> QED
    BY <2>1, <1>5, LibDataSteps DEF LibInv, LibLive
<1>6. CASE Library!Serve \/ Library!Sends \/ Library!Gets \/ Library!Finish
  <2>1. pc' = pc /\ server # "gone" /\ lost' = lost
    BY <1>6 DEF Library!Serve, Library!Sends, Library!Gets, Library!Finish, Library!call
  <2> QED
    BY <2>1, <1>6, LibServeStep, LibServerSteps DEF LibInv, LibLive
<1>7. CASE Library!ftp_quit \/ Library!Crash
  BY <1>7 DEF LibLive, Library!ftp_quit, Library!Crash
<1>8. CASE Library!Over \/ UNCHANGED Library!vars
  <2>1. UNCHANGED <<pc, fn, cmd, asked, answered, returned, todo, replies, server, served, data,
                    put, got, lost, short>>
    BY <1>8 DEF Library!Over, Library!vars, Library!call, Library!command, Library!answer, Library!transfer
  <2>2. LibParts
    BY <2>1 DEF LibInv, LibLive
  <2>3. LibType' /\ LibPlaces'
    <3>1. (LibWaiting' <=> LibWaiting) /\ (LibSecond' <=> LibSecond)
      BY <2>1 DEF LibWaiting, LibSecond, LibReply, LibDoing
    <3> QED
      BY <2>1, <2>2, <3>1 DEF LibParts, LibType, LibPlaces
  <2>4. LibMoved'
    BY <2>1, <2>2 DEF LibParts, LibMoved, LibSaidAll, LibReply
  <2> QED
    BY <2>3, <2>4 DEF LibParts
<1> QED
  BY <1>1, <1>2, <1>3, <1>4, <1>5, <1>6, <1>7, <1>8 DEF Library!Next

LEMMA LibSuffices ==
    ASSUME LibInv
    PROVE  Library!TellsTrue
<1> SUFFICES ASSUME ~lost, server # "gone", pc = "idle"
             PROVE  /\ answered = asked
                    /\ fn \in DOMAIN Library!Transfer /\ returned = 0 /\ ~short => got = FileBlocks
  BY DEF Library!TellsTrue
<1>1. LibParts
  BY DEF LibInv, LibLive
<1> QED
  BY <1>1 DEF LibParts, LibPlaces, LibMoved

\* Whatever the server refuses or breaks off, and for any number of blocks and of
\* calls: as long as no reply was lost, or taken in pieces, the library takes each for
\* what it answers, and a transfer that succeeded is whole unless its loop was ended
\* by an error or a late recv (THFTPAPI.c:84, :382 and :447).
THEOREM AlwaysTellsTrue ==
    Spec => []TellsTrue
<1> DEFINE I == program = "library" => LibInv
<1>1. Init => I
  BY LibInitially DEF Init
<1>2. I /\ [Next]_vars => I'
  <2> SUFFICES ASSUME I, [Next]_vars, program' = "library" PROVE LibInv'
    OBVIOUS
  <2>1. program = "library" /\ [Library!Next]_(Library!vars)
    BY DEF Next, vars, Library!vars, Library!call, Library!command, Library!answer, Library!transfer
  <2> QED
    BY <2>1, LibStep
<1>3. I => TellsTrue
  BY LibSuffices DEF TellsTrue
<1> QED
  BY <1>1, <1>2, <1>3, PTL DEF Spec

-----------------------------------------------------------------------------
(***************************************************************************)
(* The echo server.  A client is untouched until the server has read its   *)
(* line, which is then its first one; from there to the write the buffer's *)
(* front is the answer to it; and what the client does afterwards changes  *)
(* neither its first line nor the answer.                                  *)
(***************************************************************************)
EchoFixed(c) == at[c] = "gone" \/ lines[c] # 0

EchoRight(c, a) ==
    /\ Echo!IsPrefix(a, Append(first[c], None))
    /\ Echo!IsLine(first[c], MAX_LINE) /\ Len(first[c]) <= MAX_LINE - 2 => a = first[c]

EchoNew(c) ==
    /\ first[c] \in EchoLine[c] \cup {<< >>}
    /\ out[c] = << >> /\ answer[c] = << >>
    /\ \/ lines[c] = 0 /\ first[c] = << >> /\ in[c] = << >>
       \/ lines[c] = 1 /\ in[c] = first[c] /\ at[c] \in {"reading", "gone"}

EchoClientInv(c) ==
    IF ended[c] # "no" \/ (conn = c /\ count = -2)
    THEN EchoFixed(c) /\ EchoRight(c, answer[c])
    ELSE IF conn = c /\ count >= 0
         THEN EchoFixed(c) /\ answer[c] = << >> /\ EchoRight(c, SubSeq(buffer, 1, count))
         ELSE EchoNew(c)

EchoListen ==
    /\ \A i \in 1..Len(listen) :
           at[listen[i]] # "new" /\ ended[listen[i]] = "no" /\ listen[i] # conn
    /\ \A i, j \in 1..Len(listen) : listen[i] = listen[j] => i = j

EchoType ==
    /\ version \in {1, 3}
    /\ DOMAIN at = EchoClient /\ DOMAIN in = EchoClient /\ DOMAIN out = EchoClient
    /\ DOMAIN answer = EchoClient /\ DOMAIN ended = EchoClient
    /\ first \in [EchoClient -> Seq(EchoChar)] /\ lines \in [EchoClient -> Nat]
    /\ \A c \in EchoClient : at[c] = "new" => lines[c] = 0
    /\ listen \in Seq(EchoClient) /\ conn \in EchoClient \cup {None}
    /\ count \in Int /\ count >= -2 /\ count <= MAX_LINE
    /\ \A i \in 1..MAX_LINE : buffer[i] \in EchoChar \cup {None}
    /\ conn # None => at[conn] # "new" /\ ended[conn] = "no"
    /\ version = 1 /\ conn # None /\ count = -1 => \A i \in 1..MAX_LINE : buffer[i] = None

EchoInv == EchoType /\ EchoListen /\ \A c \in EchoClient : EchoClientInv(c)

LEMMA LeastOf ==
    ASSUME NEW S, S \subseteq Nat, S # {}
    PROVE  Echo!Min(S) \in S /\ \A y \in S : Echo!Min(S) <= y
<1>1. PICK m \in S : \A y \in S : ~(<<y, m>> \in OpToRel(<, Nat))
  BY NatLessThanWellFounded, WFMin
<1>2. \A y \in S : m <= y
  <2> SUFFICES ASSUME NEW y \in S, y < m PROVE FALSE
    BY SMT
  <2>1. <<y, m>> \in OpToRel(<, Nat)
    BY DEF OpToRel
  <2> QED
    BY <2>1, <1>1
<1>3. \E x \in S : \A y \in S : x <= y
  BY <1>2
<1> QED
  BY <1>3 DEF Echo!Min

\* the first place of e in the sequence s, if there is one
LEMMA FirstPlace ==
    ASSUME NEW s, NEW e, NEW m \in Nat, Len(s) = m, \E i \in 1..m : s[i] = e
    PROVE  LET k == Echo!SelectInSeq(s, LAMBDA x : x = e)
           IN k \in 1..m /\ s[k] = e /\ \A i \in 1..(k - 1) : s[i] # e
<1> DEFINE I == {i \in 1..Len(s) : s[i] = e}
<1>1. I \subseteq Nat /\ I # {}
  OBVIOUS
<1>2. Echo!Min(I) \in I /\ \A y \in I : Echo!Min(I) <= y
  BY <1>1, LeastOf
<1>3. Echo!SelectInSeq(s, LAMBDA x : x = e) = Echo!Min(I)
  BY <1>1 DEF Echo!SelectInSeq
<1>4. ASSUME NEW i \in 1..(Echo!Min(I) - 1), s[i] = e PROVE FALSE
  <2>1. i \in I
    BY <1>4, <1>2
  <2> QED
    BY <2>1, <1>2
<1> QED
  BY <1>2, <1>3, <1>4

\* the front of w that is a line, or all of it, or as much as is asked for
LEMMA LineOfIs ==
    ASSUME NEW S, NEW w \in Seq(S), NEW max \in Nat, max > 0
    PROVE  \E k \in 0..Len(w) :
               /\ Echo!LineOf(w, max) = SubSeq(w, 1, k) /\ k <= max - 1
               /\ k = Len(w) \/ k = max - 1 \/ (k > 0 /\ w[k] = "\n")
<1> DEFINE T == S \cup {"\n"}
           x == Append(w, "\n")
           j == Echo!SelectInSeq(x, LAMBDA y : y = "\n")
           M == {j, Len(w), max - 1}
<1>1. w \in Seq(T) /\ "\n" \in T /\ Len(w) \in Nat
  BY LenProperties, SeqMonotonic
<1>2. /\ Len(x) = Len(w) + 1 /\ x[Len(w) + 1] = "\n"
      /\ \A i \in 1..Len(w) : x[i] = w[i]
  BY <1>1, AppendProperties
<1>3. j \in 1..(Len(w) + 1) /\ x[j] = "\n"
  <2>1. Len(w) + 1 \in Nat /\ \E i \in 1..(Len(w) + 1) : x[i] = "\n"
    BY <1>1, <1>2
  <2> HIDE DEF x
  <2>2. PICK m \in Nat : m = Len(w) + 1
    BY <2>1
  <2>3. Len(x) = m /\ \E i \in 1..m : x[i] = "\n"
    BY <2>1, <2>2, <1>2
  <2>4. j \in 1..m /\ x[j] = "\n"
    BY <2>3, FirstPlace
  <2> QED
    BY <2>2, <2>4
<1> HIDE DEF j
<1>4. M \subseteq Nat /\ M # {}
  BY <1>3, <1>1
<1>5. Echo!Min(M) \in M /\ \A y \in M : Echo!Min(M) <= y
  BY <1>4, LeastOf
<1>6. PICK k : k = Echo!Min(M)
  OBVIOUS
<1>7. Echo!LineOf(w, max) = SubSeq(w, 1, k)
  BY <1>6 DEF Echo!LineOf, j
<1>8. k \in 0..Len(w) /\ k <= max - 1 /\ (k = Len(w) \/ k = max - 1 \/ k = j)
  BY <1>1, <1>5, <1>6, <1>4
<1>9. k = j => k > 0 /\ (k = Len(w) \/ w[k] = "\n")
  BY <1>3, <1>2, <1>8
<1> QED
  BY <1>7, <1>8, <1>9

LEMMA BeginsWith ==
    ASSUME NEW S, NEW w \in Seq(S), NEW e \in S, NEW k \in 0..Len(w)
    PROVE  Echo!IsPrefix(SubSeq(w, 1, k), Append(w, e))
<1> DEFINE a == SubSeq(w, 1, k)
           b == Append(w, e)
<1>1. a \in Seq(S) /\ Len(a) = k /\ \A i \in 1..k : a[i] = w[i]
  <2>1. k \in Nat /\ \A i \in 1..k : w[i] \in S
    BY LenProperties
  <2> QED
    BY <2>1, SubSeqProperties
<1>2. b \in Seq(S) /\ Len(b) = Len(w) + 1 /\ \A i \in 1..Len(w) : b[i] = w[i]
  BY AppendProperties
<1> HIDE DEF a, b
<1>3. SubSeq(a, 1, k) = a
  BY <1>1, SubSeqFull
<1>4. /\ SubSeq(b, 1, k) \in Seq(S) /\ Len(SubSeq(b, 1, k)) = k
      /\ \A i \in 1..k : SubSeq(b, 1, k)[i] = b[i]
  <2>1. Len(w) \in Nat /\ k \in Int /\ k >= 0 /\ k <= Len(w)
    BY LenProperties
  <2>2. \A i \in 1..k : b[i] \in S
    BY <2>1, <1>2, LenProperties
  <2> QED
    BY <2>1, <2>2, SubSeqProperties
<1>5. SubSeq(b, 1, k) = a
  <2> DEFINE d == SubSeq(b, 1, k)
  <2>1. d \in Seq(S) /\ Len(d) = k /\ \A i \in 1..k : d[i] = a[i]
    BY <1>1, <1>2, <1>4
  <2> HIDE DEF d
  <2>2. d = a
    BY <2>1, <1>1, SeqEqual
  <2> QED
    BY <2>2 DEF d
<1>6. Len(a) <= Len(b)
  BY <1>1, <1>2, LenProperties
<1> QED
  BY <1>1, <1>3, <1>5, <1>6 DEF Echo!IsPrefix, a, b

\* the end of a line is where it ends
LEMMA EndOfLine ==
    ASSUME NEW c \in EchoClient, NEW w \in EchoLine[c] \cup {<< >>},
           "\n" \in Echo!ToSet(w)
    PROVE  Len(w) > 0 /\ w[Len(w)] = "\n"
<1>1. PICK i \in DOMAIN w : w[i] = "\n"
  BY DEF Echo!ToSet
<1>2. w # << >>
  BY <1>1
<1>3. /\ w \in Seq(EchoChar) /\ \A d \in 1..(Len(w) - 1) : w[d] # "\n"
  BY <1>2, ProgramsAssumption
<1>4. Len(w) \in Nat /\ i \in 1..Len(w)
  BY <1>1, <1>3, LenProperties
<1>5. i = Len(w)
  BY <1>1, <1>3, <1>4
<1> QED
  BY <1>1, <1>4, <1>5

LEMMA EchoLineFacts ==
    ASSUME NEW c \in EchoClient, NEW w \in EchoLine[c] \cup {<< >>}
    PROVE  /\ w \in Seq(EchoChar) /\ w \in Seq(EchoChar \cup {None})
           /\ Len(w) \in Nat /\ Len(w) < MAX_LINE
           /\ \A i \in 1..Len(w) : w[i] # None
           /\ \A i \in 1..Len(w) : w[i] = "\n" => i = Len(w)
<1>1. /\ w \in Seq(EchoChar) /\ Len(w) < MAX_LINE
      /\ \A i \in 1..(Len(w) - 1) : w[i] # "\n"
  <2>1. CASE w = << >>
    BY <2>1, ProgramsAssumption, EmptySeq
  <2>2. CASE w # << >>
    <3>1. w \in EchoLine[c]
      BY <2>2
    <3> QED
      BY <3>1, ProgramsAssumption
  <2> QED
    BY <2>1, <2>2
<1>2. Len(w) \in Nat /\ \A i \in 1..Len(w) : w[i] \in EchoChar
  BY <1>1, LenProperties
<1>3. w \in Seq(EchoChar \cup {None})
  BY <1>1, SeqMonotonic
<1> QED
  BY <1>1, <1>2, <1>3, ProgramsAssumption

\* the answer of version 1
LEMMA EchoAnswer1 ==
    ASSUME NEW c \in EchoClient, first[c] \in EchoLine[c] \cup {<< >>},
           NEW s, s = Echo!LineOf(first[c], MAX_LINE - 1)
    PROVE  /\ EchoRight(c, s) /\ s \in Seq(EchoChar) /\ Len(s) \in 0..(MAX_LINE - 2)
           /\ \A i \in 1..Len(s) : s[i] # None
<1> DEFINE w == first[c]
<1>1. /\ w \in Seq(EchoChar) /\ w \in Seq(EchoChar \cup {None})
      /\ Len(w) \in Nat /\ Len(w) < MAX_LINE
      /\ \A i \in 1..Len(w) : w[i] # None
      /\ \A i \in 1..Len(w) : w[i] = "\n" => i = Len(w)
  BY EchoLineFacts
<1>2. MAX_LINE - 1 \in Nat /\ MAX_LINE - 1 > 0 /\ MAX_LINE \in Nat
  BY ProgramsAssumption
<1>3. PICK k \in 0..Len(w) :
          /\ s = SubSeq(w, 1, k) /\ k <= MAX_LINE - 1 - 1
          /\ k = Len(w) \/ k = MAX_LINE - 1 - 1 \/ (k > 0 /\ w[k] = "\n")
  BY <1>1, <1>2, LineOfIs
<1>4. Echo!IsPrefix(s, Append(w, None))
  BY <1>1, <1>3, BeginsWith
<1>5. ASSUME Echo!IsLine(w, MAX_LINE), Len(w) <= MAX_LINE - 2 PROVE s = w
  <2>1. "\n" \in Echo!ToSet(w)
    BY <1>5, <1>1, <1>2 DEF Echo!IsLine
  <2>2. Len(w) > 0 /\ w[Len(w)] = "\n"
    BY <2>1, EndOfLine
  <2>3. k = Len(w)
    BY <1>3, <1>5, <1>1, <1>2, <2>2
  <2> QED
    BY <2>3, <1>3, <1>1, SubSeqFull
<1>6. s \in Seq(EchoChar) /\ Len(s) = k /\ \A i \in 1..k : s[i] = w[i]
  <2>1. k \in Int /\ k >= 0 /\ \A i \in 1..k : w[i] \in EchoChar
    BY <1>1, LenProperties
  <2> QED
    BY <2>1, <1>3, SubSeqProperties
<1> QED
  BY <1>1, <1>2, <1>3, <1>4, <1>5, <1>6 DEF EchoRight

\* the answer of version 3
LEMMA EchoAnswer3 ==
    ASSUME NEW c \in EchoClient, first[c] \in EchoLine[c] \cup {<< >>}
    PROVE  /\ Echo!LineOf(first[c], MAX_LINE) = first[c]
           /\ Echo!CountOf(first[c]) = Len(first[c]) => EchoRight(c, first[c])
           /\ Echo!CountOf(first[c]) = Len(first[c]) + 1 => EchoRight(c, Append(first[c], None))
           /\ Echo!CountOf(first[c]) \in {Len(first[c]), Len(first[c]) + 1}
<1> DEFINE w == first[c]
<1>1. /\ w \in Seq(EchoChar) /\ w \in Seq(EchoChar \cup {None})
      /\ Len(w) \in Nat /\ Len(w) < MAX_LINE
      /\ \A i \in 1..Len(w) : w[i] # None
      /\ \A i \in 1..Len(w) : w[i] = "\n" => i = Len(w)
  BY EchoLineFacts
<1>2. MAX_LINE \in Nat /\ MAX_LINE > 2
  BY ProgramsAssumption
<1>3. PICK k \in 0..Len(w) :
          /\ Echo!LineOf(w, MAX_LINE) = SubSeq(w, 1, k) /\ k <= MAX_LINE - 1
          /\ k = Len(w) \/ k = MAX_LINE - 1 \/ (k > 0 /\ w[k] = "\n")
  <2>1. w \in Seq(EchoChar) /\ MAX_LINE \in Nat /\ MAX_LINE > 0
    BY <1>1, <1>2
  <2> HIDE DEF w
  <2> QED
    BY <2>1, LineOfIs
<1>4. k = Len(w)
  BY <1>1, <1>2, <1>3
<1>5. SubSeq(w, 1, k) = w
  BY <1>1, <1>4, SubSeqFull
<1>6. Echo!IsPrefix(w, Append(w, None))
  BY <1>1, <1>4, <1>5, BeginsWith
<1>7. Echo!IsPrefix(Append(w, None), Append(w, None))
  <2>1. Append(w, None) \in Seq(EchoChar \cup {None})
    BY <1>1, AppendProperties
  <2>2. Len(Append(w, None)) \in Nat
    BY <2>1, LenProperties
  <2> QED
    BY <2>2 DEF Echo!IsPrefix
<1>8. ASSUME Echo!IsLine(w, MAX_LINE), Len(w) <= MAX_LINE - 2
      PROVE  Echo!CountOf(w) = Len(w)
  <2>1. "\n" \in Echo!ToSet(w)
    BY <1>8, <1>1, <1>2 DEF Echo!IsLine
  <2>2. Len(w) > 0 /\ w[Len(w)] = "\n"
    BY <2>1, EndOfLine
  <2>3. w # << >>
    BY <2>2, EmptySeq
  <2> QED
    BY <2>2, <2>3 DEF Echo!CountOf, Echo!Last
<1>9. Echo!CountOf(w) \in {Len(w), Len(w) + 1}
  BY EmptySeq DEF Echo!CountOf
<1>10. Len(w) # Len(w) + 1
  BY <1>1
<1> QED
  BY <1>3, <1>5, <1>6, <1>7, <1>8, <1>9, <1>10 DEF EchoRight

\* what is read is in the buffer's front
LEMMA EchoRead1 ==
    ASSUME EchoInv, conn \in EchoClient, version = 1, count = -1, Echo!ReadLine1,
           in[conn] = first[conn], first[conn] \in EchoLine[conn] \cup {<< >>}
    PROVE  /\ count' \in 0..MAX_LINE /\ \A i \in 1..MAX_LINE : buffer'[i] \in EchoChar \cup {None}
           /\ EchoRight(conn, SubSeq(buffer', 1, count'))
<1> DEFINE S == EchoChar \cup {None}
<1>1. PICK s : s = Echo!LineOf(first[conn], MAX_LINE - 1)
  OBVIOUS
<1>2. PICK zero \in BOOLEAN : buffer' = Echo!With(s, zero)
  BY <1>1 DEF Echo!ReadLine1, Echo!IsLine
<1>3. /\ EchoRight(conn, s) /\ s \in Seq(EchoChar) /\ Len(s) \in 0..(MAX_LINE - 2)
      /\ \A i \in 1..Len(s) : s[i] # None
  BY <1>1, EchoAnswer1
<1>4. MAX_LINE \in Nat /\ MAX_LINE > 2
  BY ProgramsAssumption
<1>5. \A i \in 1..MAX_LINE : buffer[i] = None
  BY ProgramsAssumption DEF EchoInv, EchoType
<1>6. \A i \in 1..Len(s) : s[i] \in EchoChar
  BY <1>3, LenProperties
<1>7. PICK b : b = buffer'
  OBVIOUS
<1>8. b \in Seq(S) /\ Len(b) = MAX_LINE
  <2>1. b \in [1..MAX_LINE -> S]
    BY <1>2, <1>3, <1>4, <1>5, <1>6, <1>7 DEF Echo!With
  <2> QED
    BY <2>1, <1>4
<1>9. \A i \in 1..MAX_LINE : b[i] = IF i <= Len(s) THEN s[i] ELSE None
  BY <1>2, <1>3, <1>4, <1>5, <1>7 DEF Echo!With
<1>10. count' = Len(s)
  <2> DEFINE x == Append(b, None)
             k == Echo!SelectInSeq(x, LAMBDA y : y = None)
  <2>1. /\ Len(x) = MAX_LINE + 1 /\ x[MAX_LINE + 1] = None
        /\ \A i \in 1..MAX_LINE : x[i] = b[i]
    BY <1>8, AppendProperties
  <2>2. k \in 1..(MAX_LINE + 1) /\ x[k] = None /\ \A i \in 1..(k - 1) : x[i] # None
    <3>1. MAX_LINE + 1 \in Nat /\ \E i \in 1..(MAX_LINE + 1) : x[i] = None
      BY <1>4, <2>1
    <3> HIDE DEF x
    <3>2. Len(x) = MAX_LINE + 1
      BY <2>1
    <3> QED
      BY <3>1, <3>2, FirstPlace
  <2>3. count' = k - 1
    BY <1>7 DEF Echo!ReadLine1, Echo!StrLen
  <2> HIDE DEF x, k
  <2>4. x[Len(s) + 1] = None
    BY <1>3, <1>4, <1>9, <2>1
  <2>5. \A i \in 1..Len(s) : x[i] # None
    BY <1>3, <1>4, <1>9, <2>1
  <2>6. k = Len(s) + 1
    BY <2>2, <2>4, <2>5, <1>3
  <2> QED
    BY <2>3, <2>6, <1>3
<1>11. SubSeq(b, 1, Len(s)) = s
  <2> DEFINE a == SubSeq(b, 1, Len(s))
  <2>1. a \in Seq(S) /\ Len(a) = Len(s) /\ \A i \in 1..Len(s) : a[i] = s[i]
    <3>1. Len(s) \in Int /\ Len(s) >= 0 /\ \A i \in 1..Len(s) : b[i] \in S /\ b[i] = s[i]
      BY <1>3, <1>4, <1>6, <1>9
    <3> QED
      BY <3>1, SubSeqProperties
  <2>2. s \in Seq(S)
    BY <1>3, SeqMonotonic
  <2> HIDE DEF a
  <2>3. a = s
    BY <2>1, <2>2, SeqEqual
  <2> QED
    BY <2>3 DEF a
<1>12. SubSeq(buffer', 1, count') = s
  BY <1>7, <1>10, <1>11
<1>13. count' \in 0..MAX_LINE /\ \A i \in 1..MAX_LINE : buffer'[i] \in S
  BY <1>3, <1>4, <1>6, <1>7, <1>9, <1>10
<1> QED
  BY <1>3, <1>12, <1>13

LEMMA EchoRead3 ==
    ASSUME EchoInv, conn \in EchoClient, version = 3, count = -1, Echo!ReadLine3,
           in[conn] = first[conn], first[conn] \in EchoLine[conn] \cup {<< >>}
    PROVE  /\ count' \in 0..MAX_LINE /\ \A i \in 1..MAX_LINE : buffer'[i] \in EchoChar \cup {None}
           /\ EchoRight(conn, SubSeq(buffer', 1, count'))
<1> DEFINE S == EchoChar \cup {None}
<1>1. PICK w : w = first[conn]
  OBVIOUS
<1>2. /\ w \in Seq(EchoChar) /\ w \in Seq(S) /\ Len(w) \in Nat /\ Len(w) < MAX_LINE
      /\ \A i \in 1..Len(w) : w[i] # None
  BY <1>1, EchoLineFacts
<1>3. /\ Echo!LineOf(w, MAX_LINE) = w
      /\ Echo!CountOf(w) = Len(w) => EchoRight(conn, w)
      /\ Echo!CountOf(w) = Len(w) + 1 => EchoRight(conn, Append(w, None))
      /\ Echo!CountOf(w) \in {Len(w), Len(w) + 1}
  BY <1>1, EchoAnswer3
<1>4. PICK b : b = buffer' /\ b = Echo!With(w, w # << >>) /\ count' = Echo!CountOf(w)
  BY <1>1, <1>3 DEF Echo!ReadLine3
<1>5. MAX_LINE \in Nat
  BY ProgramsAssumption
<1>6. \A i \in 1..MAX_LINE : buffer[i] \in S
  BY DEF EchoInv, EchoType
<1>7. \A i \in 1..Len(w) : w[i] \in EchoChar
  BY <1>2, LenProperties
<1>8. \A i \in 1..MAX_LINE : b[i] \in S
  BY <1>2, <1>4, <1>5, <1>6, <1>7 DEF Echo!With
<1>9. \A i \in 1..Len(w) : b[i] = w[i]
  BY <1>2, <1>4, <1>5 DEF Echo!With
<1>10. w # << >> => b[Len(w) + 1] = None
  BY <1>2, <1>4, <1>5 DEF Echo!With
<1>11. Echo!CountOf(w) = Len(w) + 1 => w # << >>
  BY <1>2, EmptySeq DEF Echo!CountOf
<1>12. CASE Echo!CountOf(w) = Len(w)
  <2> DEFINE a == SubSeq(b, 1, Len(w))
  <2>1. a \in Seq(S) /\ Len(a) = Len(w) /\ \A i \in 1..Len(w) : a[i] = w[i]
    <3>1. Len(w) \in Int /\ Len(w) >= 0 /\ \A i \in 1..Len(w) : b[i] \in S /\ b[i] = w[i]
      BY <1>2, <1>5, <1>8, <1>9
    <3> QED
      BY <3>1, SubSeqProperties
  <2> HIDE DEF a
  <2>2. a = w
    BY <2>1, <1>2, SeqEqual
  <2>3. SubSeq(b, 1, Len(w)) = w
    BY <2>2 DEF a
  <2>4. SubSeq(buffer', 1, count') = w
    BY <1>4, <1>12, <2>3
  <2>5. count' \in 0..MAX_LINE /\ \A i \in 1..MAX_LINE : buffer'[i] \in S
    BY <1>2, <1>4, <1>5, <1>8, <1>12
  <2> QED
    BY <1>3, <1>12, <2>4, <2>5
<1>13. CASE Echo!CountOf(w) = Len(w) + 1
  <2> DEFINE a == SubSeq(b, 1, Len(w) + 1)
             x == Append(w, None)
  <2>1. /\ x \in Seq(S) /\ Len(x) = Len(w) + 1 /\ x[Len(w) + 1] = None
        /\ \A i \in 1..Len(w) : x[i] = w[i]
    BY <1>2, AppendProperties
  <2>2. \A i \in 1..(Len(w) + 1) : b[i] = x[i]
    BY <1>2, <1>9, <1>10, <1>11, <1>13, <2>1
  <2>3. a \in Seq(S) /\ Len(a) = Len(w) + 1 /\ \A i \in 1..(Len(w) + 1) : a[i] = x[i]
    <3>1. /\ Len(w) + 1 \in Int /\ Len(w) + 1 >= 1
          /\ \A i \in 1..(Len(w) + 1) : b[i] \in S /\ b[i] = x[i]
      BY <1>2, <1>5, <1>8, <2>2
    <3> QED
      BY <3>1, SubSeqProperties
  <2> HIDE DEF a, x
  <2>4. a = x
    BY <2>1, <2>3, SeqEqual
  <2>5. SubSeq(b, 1, Len(w) + 1) = Append(w, None)
    BY <2>4 DEF a, x
  <2>6. SubSeq(buffer', 1, count') = Append(w, None)
    BY <1>4, <1>13, <2>5
  <2>7. count' \in 0..MAX_LINE /\ \A i \in 1..MAX_LINE : buffer'[i] \in S
    BY <1>2, <1>4, <1>5, <1>8, <1>13
  <2> QED
    BY <1>3, <1>13, <2>6, <2>7
<1> QED
  BY <1>3, <1>12, <1>13

\* the steps that leave what concerns a client alone
LEMMA EchoKept ==
    ASSUME NEW d, EchoClientInv(d), at'[d] = at[d] \/ at'[d] = "gone",
           first'[d] = first[d], lines'[d] = lines[d], in'[d] = in[d], out'[d] = out[d],
           answer'[d] = answer[d], ended'[d] = ended[d], (conn' = d) <=> (conn = d),
           conn = d => UNCHANGED <<buffer, count>>
    PROVE  EchoClientInv(d)'
<1>1. EchoFixed(d) => EchoFixed(d)'
  BY DEF EchoFixed
<1>2. EchoRight(d, answer[d]) => EchoRight(d, answer[d])'
  BY DEF EchoRight
<1>3. EchoNew(d) => EchoNew(d)'
  BY DEF EchoNew
<1>4. conn = d /\ EchoRight(d, SubSeq(buffer, 1, count)) => EchoRight(d, SubSeq(buffer, 1, count))'
  BY DEF EchoRight
<1> QED
  BY <1>1, <1>2, <1>3, <1>4 DEF EchoClientInv

LEMMA EchoConnect ==
    ASSUME EchoInv, NEW c \in EchoClient, Echo!Connect(c)
    PROVE  EchoInv'
<1>1. /\ at[c] = "new" /\ at' = [at EXCEPT ![c] = "typing"] /\ listen' = Append(listen, c)
      /\ UNCHANGED <<version, first, lines, in, out, answer, ended, buffer, conn, count>>
  BY DEF Echo!Connect, Echo!Goto
<1>2. at'[c] = "typing" /\ \A d \in EchoClient \ {c} : at'[d] = at[d]
  BY <1>1 DEF EchoInv, EchoType
<1>3. ended[c] = "no" /\ lines[c] = 0 /\ c # conn
  BY <1>1, ProgramsAssumption DEF EchoInv, EchoType, EchoClientInv, EchoFixed
<1>4. EchoClientInv(c)'
  <2>1. ~(conn = c) /\ EchoNew(c)
    BY <1>1, <1>3 DEF EchoInv, EchoClientInv
  <2> QED
    BY <1>1, <1>3, <2>1 DEF EchoClientInv, EchoNew
<1>5. \A d \in EchoClient \ {c} : EchoClientInv(d)'
  BY <1>1, <1>2, EchoKept DEF EchoInv
<1>6. EchoType'
  BY <1>1, <1>2 DEF EchoInv, EchoType
<1>7. EchoListen'
  <2>1. /\ Len(listen') = Len(listen) + 1 /\ listen'[Len(listen) + 1] = c
        /\ \A i \in 1..Len(listen) : listen'[i] = listen[i]
        /\ Len(listen) \in Nat /\ \A i \in 1..Len(listen) : listen[i] \in EchoClient
    BY <1>1, AppendProperties, LenProperties DEF EchoInv, EchoType
  <2>2. \A i \in 1..Len(listen) : listen[i] # c
    BY <1>1 DEF EchoInv, EchoListen
  <2>3. /\ \A i \in 1..Len(listen) :
               at[listen[i]] # "new" /\ ended[listen[i]] = "no" /\ listen[i] # conn
        /\ \A i, j \in 1..Len(listen) : listen[i] = listen[j] => i = j
    BY DEF EchoInv, EchoListen
  <2>4. \A i \in 1..Len(listen') : i \in 1..Len(listen) \/ i = Len(listen) + 1
    BY <2>1
  <2> QED
    BY <1>1, <1>2, <1>3, <2>1, <2>2, <2>3, <2>4 DEF EchoListen
<1> QED
  BY <1>4, <1>5, <1>6, <1>7 DEF EchoInv

LEMMA EchoSend ==
    ASSUME EchoInv, NEW c \in EchoClient, Echo!Send(c)
    PROVE  EchoInv'
<1>1. PICK s \in EchoLine[c] \cup {<< >>} :
          /\ first' = IF lines[c] = 0 THEN [first EXCEPT ![c] = s] ELSE first
          /\ in' = IF ended[c] = "no" THEN [in EXCEPT ![c] = @ \o s] ELSE in
  BY DEF Echo!Send
<1>2. /\ at[c] = "typing" /\ lines' = [lines EXCEPT ![c] = @ + 1]
      /\ ended' = IF ended[c] = "closed" THEN [ended EXCEPT ![c] = "reset"] ELSE ended
      /\ at' = [at EXCEPT ![c] = IF ended[c] = "reset" THEN "gone" ELSE "reading"]
      /\ UNCHANGED <<version, out, answer, buffer, listen, conn, count>>
  BY DEF Echo!Send, Echo!Goto, Echo!server
<1>3. s \in Seq(EchoChar) /\ << >> \o s = s
  BY EchoLineFacts, ConcatEmptySeq
<1>4. EchoType
  BY DEF EchoInv
<1>5. /\ \A d \in EchoClient \ {c} :
             /\ at'[d] = at[d] /\ first'[d] = first[d] /\ lines'[d] = lines[d]
             /\ in'[d] = in[d] /\ ended'[d] = ended[d]
      /\ lines'[c] = lines[c] + 1 /\ lines[c] \in Nat
      /\ at'[c] # "new" /\ (ended[c] # "reset" => at'[c] = "reading")
      /\ lines[c] # 0 => first'[c] = first[c]
      /\ lines[c] = 0 => first'[c] = s
      /\ ended[c] = "no" => in'[c] = in[c] \o s
      /\ ended'[c] = "no" <=> ended[c] = "no"
  BY <1>1, <1>2, <1>4 DEF EchoType
<1>6. EchoType'
  <2>1. first' \in [EchoClient -> Seq(EchoChar)]
    BY <1>1, <1>3, <1>4 DEF EchoType
  <2>2. lines' \in [EchoClient -> Nat]
    BY <1>2, <1>4 DEF EchoType
  <2>3. \A d \in EchoClient : at'[d] = "new" => lines'[d] = 0
    BY <1>4, <1>5 DEF EchoType
  <2>4. /\ DOMAIN at' = EchoClient /\ DOMAIN in' = EchoClient /\ DOMAIN ended' = EchoClient
        /\ DOMAIN out' = EchoClient /\ DOMAIN answer' = EchoClient
    BY <1>1, <1>2, <1>4 DEF EchoType
  <2>5. conn' # None => at'[conn'] # "new" /\ ended'[conn'] = "no"
    BY <1>2, <1>4, <1>5 DEF EchoType
  <2> QED
    BY <1>2, <1>4, <2>1, <2>2, <2>3, <2>4, <2>5 DEF EchoType
<1>7. EchoListen'
  <2>1. \A i \in 1..Len(listen) : listen[i] \in EchoClient
    BY <1>4, LenProperties DEF EchoType
  <2> QED
    BY <1>2, <1>5, <2>1 DEF EchoInv, EchoListen
<1>8. \A d \in EchoClient \ {c} : EchoClientInv(d)'
  BY <1>2, <1>5, EchoKept DEF EchoInv
<1>9. EchoClientInv(c)'
  <2>1. EchoClientInv(c)
    BY DEF EchoInv
  <2>2. ASSUME EchoFixed(c)
        PROVE  /\ EchoFixed(c)' /\ first'[c] = first[c]
               /\ EchoRight(c, answer[c]) => EchoRight(c, answer[c])'
               /\ EchoRight(c, SubSeq(buffer, 1, count)) => EchoRight(c, SubSeq(buffer, 1, count))'
    <3>1. lines[c] # 0
      BY <2>2, <1>2 DEF EchoFixed
    <3>2. first'[c] = first[c] /\ lines'[c] # 0
      BY <3>1, <1>5
    <3> QED
      BY <3>2, <1>2 DEF EchoFixed, EchoRight
  <2>3. ASSUME EchoNew(c), ended[c] = "no" PROVE EchoNew(c)'
    <3>1. lines[c] = 0 /\ in[c] = << >>
      BY <2>3, <1>2 DEF EchoNew
    <3>2. lines'[c] = 1 /\ first'[c] = s /\ in'[c] = s /\ at'[c] = "reading"
      BY <3>1, <2>3, <1>3, <1>5
    <3> QED
      BY <3>2, <2>3, <1>2 DEF EchoNew
  <2> QED
    BY <2>1, <2>2, <2>3, <1>2, <1>5 DEF EchoClientInv
<1> QED
  BY <1>6, <1>7, <1>8, <1>9 DEF EchoInv

\* the client reads, or goes
LEMMA EchoClientEnds ==
    ASSUME EchoInv, NEW c \in EchoClient,
           Echo!ReadOnce(c) \/ Echo!ReadLine(c) \/ Echo!Leave(c)
    PROVE  EchoInv'
<1>1. /\ UNCHANGED <<version, first, lines, in, answer, ended, buffer, listen, conn, count>>
      /\ at[c] \in {"typing", "reading"}
      /\ \E l \in {"typing", "gone"} : at' = [at EXCEPT ![c] = l]
      /\ out' = out \/ \E x : out' = [out EXCEPT ![c] = x]
  BY DEF Echo!ReadOnce, Echo!ReadLine, Echo!Leave, Echo!Goto, Echo!server
<1>2. EchoType
  BY DEF EchoInv
<1>3. /\ \A d \in EchoClient \ {c} : at'[d] = at[d] /\ out'[d] = out[d]
      /\ at'[c] \in {"typing", "gone"}
  BY <1>1, <1>2 DEF EchoType
<1>4. EchoType'
  <2>1. DOMAIN at' = EchoClient /\ DOMAIN out' = EchoClient
    BY <1>1, <1>2 DEF EchoType
  <2>2. \A d \in EchoClient : at'[d] = "new" => lines'[d] = 0
    BY <1>1, <1>2, <1>3 DEF EchoType
  <2>3. conn' # None => at'[conn'] # "new" /\ ended'[conn'] = "no"
    BY <1>1, <1>2, <1>3 DEF EchoType
  <2> QED
    BY <1>1, <1>2, <2>1, <2>2, <2>3 DEF EchoType
<1>5. EchoListen'
  <2>1. \A i \in 1..Len(listen) : listen[i] \in EchoClient
    BY <1>2, LenProperties DEF EchoType
  <2> QED
    BY <1>1, <1>3, <2>1 DEF EchoInv, EchoListen
<1>6. \A d \in EchoClient \ {c} : EchoClientInv(d)'
  BY <1>1, <1>3, EchoKept DEF EchoInv
<1>7. EchoClientInv(c)'
  <2>1. CASE at'[c] = "gone" /\ out' = out
    BY <2>1, <1>1, EchoKept DEF EchoInv
  <2>2. CASE Echo!ReadLine(c)
    <3>1. Echo!IsLine(out[c], MAX_LINE) \/ ended[c] # "no"
      BY <2>2 DEF Echo!ReadLine
    <3>2. ~Echo!IsLine(<< >>, MAX_LINE)
      BY ProgramsAssumption DEF Echo!IsLine, Echo!ToSet
    <3>3. ~(ended[c] = "no" /\ EchoNew(c))
      BY <3>1, <3>2 DEF EchoNew
    <3>4. at[c] = "reading"
      BY <2>2 DEF Echo!ReadLine
    <3>5. EchoFixed(c) => lines[c] # 0
      BY <3>4 DEF EchoFixed
    <3>6. EchoFixed(c) => EchoFixed(c)'
      BY <3>5, <1>1 DEF EchoFixed
    <3>7. /\ EchoRight(c, answer[c]) => EchoRight(c, answer[c])'
          /\ EchoRight(c, SubSeq(buffer, 1, count)) => EchoRight(c, SubSeq(buffer, 1, count))'
      BY <1>1 DEF EchoRight
    <3> QED
      BY <1>1, <3>3, <3>6, <3>7 DEF EchoInv, EchoClientInv
  <2>3. CASE Echo!ReadOnce(c) \/ Echo!Leave(c)
    <3>1. at' = [at EXCEPT ![c] = "gone"] /\ out' = out
      BY <2>3 DEF Echo!ReadOnce, Echo!Leave, Echo!Goto
    <3> QED
      BY <3>1, <2>1, <1>2 DEF EchoType
  <2> QED
    BY <2>2, <2>3
<1> QED
  BY <1>4, <1>5, <1>6, <1>7 DEF EchoInv

LEMMA EchoAccept ==
    ASSUME EchoInv, Echo!Accept
    PROVE  EchoInv'
<1>1. /\ conn = None /\ listen # << >> /\ conn' = Head(listen) /\ listen' = Tail(listen)
      /\ count' = -1 /\ buffer' = Echo!Cleared
      /\ UNCHANGED <<version, at, first, lines, in, out, answer, ended>>
  BY DEF Echo!Accept, Echo!client
<1>2. EchoType
  BY DEF EchoInv
<1>3. PICK c : c = conn'
  OBVIOUS
<1>4. /\ Len(listen) \in Nat /\ Len(listen) > 0 /\ c = listen[1]
      /\ \A i \in 1..Len(listen) : listen[i] \in EchoClient
      /\ listen' \in Seq(EchoClient) /\ Len(listen') = Len(listen) - 1
      /\ \A i \in 1..Len(listen') : listen'[i] = listen[i + 1]
  BY <1>1, <1>2, <1>3, HeadTailProperties, LenProperties, EmptySeq DEF EchoType
<1>5. c \in EchoClient /\ at[c] # "new" /\ ended[c] = "no"
  BY <1>4 DEF EchoInv, EchoListen
<1>6. EchoType'
  <2>1. \A i \in 1..MAX_LINE : buffer'[i] \in EchoChar \cup {None}
    BY <1>1, <1>2 DEF EchoType, Echo!Cleared, Echo!Zero
  <2>2. version = 1 => \A i \in 1..MAX_LINE : buffer'[i] = None
    BY <1>1 DEF Echo!Cleared, Echo!Zero
  <2>3. count' \in Int /\ count' >= -2 /\ count' <= MAX_LINE
    BY <1>1, ProgramsAssumption
  <2> QED
    BY <1>1, <1>2, <1>3, <1>4, <1>5, <2>1, <2>2, <2>3 DEF EchoType
<1>7. EchoListen'
  <2>1. \A i \in 1..Len(listen') : i + 1 \in 1..Len(listen) /\ i + 1 # 1
    BY <1>4
  <2>2. \A i \in 1..Len(listen') : listen'[i] # c
    BY <1>4, <2>1 DEF EchoInv, EchoListen
  <2>3. \A i \in 1..Len(listen') : at[listen'[i]] # "new" /\ ended[listen'[i]] = "no"
    BY <1>4, <2>1 DEF EchoInv, EchoListen
  <2>4. ASSUME NEW i \in 1..Len(listen'), NEW j \in 1..Len(listen'), listen'[i] = listen'[j]
        PROVE  i = j
    <3>1. listen[i + 1] = listen[j + 1] /\ i + 1 \in 1..Len(listen) /\ j + 1 \in 1..Len(listen)
      BY <1>4, <2>1, <2>4
    <3>2. i + 1 = j + 1
      BY <3>1 DEF EchoInv, EchoListen
    <3> QED
      BY <3>2
  <2> QED
    BY <1>1, <1>3, <2>2, <2>3, <2>4 DEF EchoListen
<1>8. \A d \in EchoClient \ {c} : EchoClientInv(d)'
  <2>1. conn # c /\ \A d \in EchoClient : conn # d
    BY <1>1, <1>5, ProgramsAssumption
  <2> QED
    BY <1>1, <1>3, <2>1, EchoKept DEF EchoInv
<1>9. EchoClientInv(c)'
  <2>1. conn # c
    BY <1>1, <1>5, ProgramsAssumption
  <2>2. EchoNew(c)
    BY <1>5, <2>1 DEF EchoInv, EchoClientInv
  <2>3. EchoNew(c)'
    BY <2>2, <1>1 DEF EchoNew
  <2>4. count' # -2 /\ ~(count' >= 0) /\ ended'[c] = "no"
    BY <1>1, <1>5
  <2> QED
    BY <2>3, <2>4 DEF EchoClientInv
<1> QED
  BY <1>6, <1>7, <1>8, <1>9 DEF EchoInv

LEMMA EchoServerRead ==
    ASSUME EchoInv, Echo!ServerRead
    PROVE  EchoInv'
<1>1. /\ conn # None /\ count = -1
      /\ (version = 1 /\ Echo!ReadLine1) \/ (version = 3 /\ Echo!ReadLine3)
      /\ UNCHANGED <<version, at, first, lines, out, answer, ended, listen, conn>>
  BY DEF Echo!ServerRead, Echo!client
<1>2. EchoType
  BY DEF EchoInv
<1>3. PICK c \in EchoClient : c = conn
  BY <1>1, <1>2 DEF EchoType
<1>4. ended[c] = "no" /\ at[c] # "new" /\ EchoNew(c)
  BY <1>1, <1>2, <1>3 DEF EchoInv, EchoType, EchoClientInv
<1>5. first[c] \in EchoLine[c] \cup {<< >>} /\ in[c] = first[c]
  BY <1>4 DEF EchoNew
<1>6. /\ count' \in 0..MAX_LINE /\ \A i \in 1..MAX_LINE : buffer'[i] \in EchoChar \cup {None}
      /\ EchoRight(c, SubSeq(buffer', 1, count'))
  BY <1>1, <1>3, <1>5, EchoRead1, EchoRead3
<1>7. EchoFixed(c)
  <2>1. CASE lines[c] = 0
    <3>1. in[c] = << >>
      BY <2>1, <1>4 DEF EchoNew
    <3>2. ~Echo!IsLine(<< >>, MAX_LINE) /\ ~Echo!IsLine(<< >>, MAX_LINE - 1)
      BY ProgramsAssumption DEF Echo!IsLine, Echo!ToSet
    <3>3. at[c] = "gone"
      BY <1>1, <1>3, <3>1, <3>2 DEF Echo!ReadLine1, Echo!ReadLine3
    <3> QED
      BY <3>3 DEF EchoFixed
  <2>2. CASE lines[c] # 0
    BY <2>2 DEF EchoFixed
  <2> QED
    BY <2>1, <2>2
<1>8. PICK x : in' = [in EXCEPT ![c] = x]
  BY <1>1, <1>3 DEF Echo!ReadLine1, Echo!ReadLine3
<1>9. EchoType'
  <2>1. count' \in Int /\ count' >= -2 /\ count' <= MAX_LINE /\ count' # -1
    BY <1>6, ProgramsAssumption
  <2> QED
    BY <1>1, <1>2, <1>6, <1>8, <2>1 DEF EchoType
<1>10. EchoListen'
  BY <1>1 DEF EchoInv, EchoListen
<1>11. \A d \in EchoClient \ {c} : EchoClientInv(d)'
  <2>1. \A d \in EchoClient \ {c} : in'[d] = in[d]
    BY <1>2, <1>8 DEF EchoType
  <2> QED
    BY <1>1, <1>3, <2>1, EchoKept DEF EchoInv
<1>12. EchoClientInv(c)'
  <2>1. EchoRight(c, SubSeq(buffer, 1, count))' /\ EchoFixed(c)'
    BY <1>1, <1>6, <1>7 DEF EchoRight, EchoFixed
  <2>2. count' >= 0 /\ count' # -2 /\ conn' = c /\ ended'[c] = "no" /\ answer'[c] = << >>
    BY <1>1, <1>3, <1>4, <1>6, ProgramsAssumption DEF EchoNew
  <2> QED
    BY <2>1, <2>2 DEF EchoClientInv
<1> QED
  BY <1>9, <1>10, <1>11, <1>12 DEF EchoInv

LEMMA EchoServerWrite ==
    ASSUME EchoInv, Echo!ServerWrite
    PROVE  EchoInv'
<1>1. /\ conn # None /\ count >= 0 /\ count' = -2
      /\ answer' = [answer EXCEPT ![conn] = @ \o SubSeq(buffer, 1, count)]
      /\ out' = out \/ \E x : out' = [out EXCEPT ![conn] = x]
      /\ UNCHANGED <<version, at, first, lines, in, ended, buffer, listen, conn>>
  BY DEF Echo!ServerWrite, Echo!client
<1>2. EchoType
  BY DEF EchoInv
<1>3. PICK c \in EchoClient : c = conn
  BY <1>1, <1>2 DEF EchoType
<1>4. /\ ended[c] = "no" /\ EchoFixed(c) /\ answer[c] = << >>
      /\ EchoRight(c, SubSeq(buffer, 1, count))
  <2>1. count # -2
    BY <1>1, <1>2 DEF EchoType
  <2> QED
    BY <1>1, <1>2, <1>3, <2>1 DEF EchoInv, EchoType, EchoClientInv
<1>5. << >> \o SubSeq(buffer, 1, count) = SubSeq(buffer, 1, count)
  <2>1. MAX_LINE \in Nat /\ count \in Int /\ \A i \in 1..count : buffer[i] \in EchoChar \cup {None}
    BY <1>2, ProgramsAssumption DEF EchoType
  <2>2. SubSeq(buffer, 1, count) \in Seq(EchoChar \cup {None})
    BY <2>1, SubSeqProperties
  <2> QED
    BY <2>2, ConcatEmptySeq
<1>6. answer'[c] = SubSeq(buffer, 1, count)
  BY <1>1, <1>2, <1>3, <1>4, <1>5 DEF EchoType
<1>7. EchoType'
  <2>1. DOMAIN answer' = EchoClient /\ DOMAIN out' = EchoClient
    BY <1>1, <1>2 DEF EchoType
  <2>2. count' \in Int /\ count' >= -2 /\ count' <= MAX_LINE /\ count' # -1
    BY <1>1, ProgramsAssumption
  <2> QED
    BY <1>1, <1>2, <2>1, <2>2 DEF EchoType
<1>8. EchoListen'
  BY <1>1 DEF EchoInv, EchoListen
<1>9. \A d \in EchoClient \ {c} : EchoClientInv(d)'
  <2>1. \A d \in EchoClient \ {c} : answer'[d] = answer[d] /\ out'[d] = out[d]
    BY <1>1, <1>2, <1>3 DEF EchoType
  <2> QED
    BY <1>1, <1>3, <2>1, EchoKept DEF EchoInv
<1>10. EchoClientInv(c)'
  <2>1. EchoFixed(c)' /\ EchoRight(c, answer[c])'
    BY <1>1, <1>4, <1>6 DEF EchoFixed, EchoRight
  <2> QED
    BY <1>1, <1>3, <2>1 DEF EchoClientInv
<1> QED
  BY <1>7, <1>8, <1>9, <1>10 DEF EchoInv

LEMMA EchoServerClose ==
    ASSUME EchoInv, Echo!ServerClose
    PROVE  EchoInv'
<1>1. /\ conn # None /\ count = -2 /\ conn' = None
      /\ \E e \in {"closed", "reset"} : ended' = [ended EXCEPT ![conn] = e]
      /\ UNCHANGED <<version, at, first, lines, in, out, answer, buffer, listen, count>>
  BY DEF Echo!ServerClose, Echo!client
<1>2. EchoType
  BY DEF EchoInv
<1>3. PICK c \in EchoClient : c = conn
  BY <1>1, <1>2 DEF EchoType
<1>4. ended'[c] # "no" /\ \A d \in EchoClient \ {c} : ended'[d] = ended[d]
  BY <1>1, <1>2, <1>3 DEF EchoType
<1>5. EchoType'
  <2>1. DOMAIN ended' = EchoClient
    BY <1>1, <1>2 DEF EchoType
  <2> QED
    BY <1>1, <1>2, <2>1 DEF EchoType
<1>6. EchoListen'
  <2>1. \A i \in 1..Len(listen) : listen[i] \in EchoClient
    BY <1>2, LenProperties DEF EchoType
  <2> QED
    BY <1>1, <1>3, <1>4, <2>1, ProgramsAssumption DEF EchoInv, EchoListen
<1>7. \A d \in EchoClient \ {c} : EchoClientInv(d)'
  <2>1. \A d \in EchoClient : d # None
    BY ProgramsAssumption
  <2> QED
    BY <1>1, <1>3, <1>4, <2>1, EchoKept DEF EchoInv
<1>8. EchoClientInv(c)'
  <2>1. EchoFixed(c) /\ EchoRight(c, answer[c])
    BY <1>1, <1>3 DEF EchoInv, EchoClientInv
  <2>2. EchoFixed(c)' /\ EchoRight(c, answer[c])'
    BY <1>1, <2>1 DEF EchoFixed, EchoRight
  <2> QED
    BY <1>4, <2>2 DEF EchoClientInv
<1> QED
  BY <1>5, <1>6, <1>7, <1>8 DEF EchoInv

LEMMA EchoInitially ==
    ASSUME Echo!Init
    PROVE  EchoInv
<1>1. \A i \in 1..MAX_LINE : buffer[i] = None
  BY DEF Echo!Init, Echo!Zero
<1>2. EchoType
  BY <1>1, ProgramsAssumption, EmptySeq DEF Echo!Init, EchoType
<1>3. EchoListen
  BY EmptySeq DEF Echo!Init, EchoListen
<1>4. \A c \in EchoClient : EchoClientInv(c)
  BY ProgramsAssumption DEF Echo!Init, EchoClientInv, EchoNew
<1> QED
  BY <1>2, <1>3, <1>4 DEF EchoInv

LEMMA EchoStep ==
    ASSUME EchoInv, [Echo!Next]_(Echo!vars)
    PROVE  EchoInv'
<1>1. CASE \E c \in EchoClient : Echo!Connect(c)
  BY <1>1, EchoConnect
<1>2. CASE \E c \in EchoClient : Echo!Send(c)
  BY <1>2, EchoSend
<1>3. CASE \E c \in EchoClient : Echo!ReadOnce(c) \/ Echo!ReadLine(c) \/ Echo!Leave(c)
  BY <1>3, EchoClientEnds
<1>4. CASE Echo!Accept
  BY <1>4, EchoAccept
<1>5. CASE Echo!ServerRead
  BY <1>5, EchoServerRead
<1>6. CASE Echo!ServerWrite
  BY <1>6, EchoServerWrite
<1>7. CASE Echo!ServerClose
  BY <1>7, EchoServerClose
<1>8. CASE Echo!Over \/ UNCHANGED Echo!vars
  <2>1. UNCHANGED <<version, at, first, lines, in, out, answer, ended, buffer, listen, conn, count>>
    BY <1>8 DEF Echo!Over, Echo!vars, Echo!client, Echo!server
  <2>2. EchoType' /\ EchoListen'
    BY <2>1 DEF EchoInv, EchoType, EchoListen
  <2>3. \A c \in EchoClient : EchoClientInv(c)'
    BY <2>1, EchoKept DEF EchoInv
  <2> QED
    BY <2>2, <2>3 DEF EchoInv
<1> QED
  BY <1>1, <1>2, <1>3, <1>4, <1>5, <1>6, <1>7, <1>8 DEF Echo!Next

LEMMA EchoSuffices ==
    ASSUME EchoInv
    PROVE  Echo!EchoOwn
<1> SUFFICES ASSUME NEW c \in EchoClient
             PROVE  /\ Echo!IsPrefix(answer[c], Append(first[c], None))
                    /\ ended[c] # "no" /\ Echo!IsLine(first[c], MAX_LINE)
                       /\ Len(first[c]) <= MAX_LINE - 2 => answer[c] = first[c]
  BY DEF Echo!EchoOwn
<1>1. CASE ended[c] # "no" \/ (conn = c /\ count = -2)
  BY <1>1 DEF EchoInv, EchoClientInv, EchoRight
<1>2. CASE ~(ended[c] # "no" \/ (conn = c /\ count = -2))
  <2>1. answer[c] = << >> /\ ended[c] = "no"
    BY <1>2 DEF EchoInv, EchoClientInv, EchoNew
  <2>2. Echo!IsPrefix(<< >>, Append(first[c], None))
    <3>1. first[c] \in Seq(EchoChar)
      BY DEF EchoInv, EchoType
    <3> DEFINE b == Append(first[c], None)
    <3>2. b \in Seq(EchoChar \cup {None})
      BY <3>1, SeqMonotonic, AppendProperties
    <3>3. Len(b) \in Nat
      BY <3>2, LenProperties
    <3>4. SubSeq(<< >>, 1, 0) = << >> /\ SubSeq(b, 1, 0) = << >>
      BY SubSeqEmpty
    <3> QED
      BY <3>3, <3>4, EmptySeq DEF Echo!IsPrefix
  <2> QED
    BY <2>1, <2>2
<1> QED
  BY <1>1, <1>2

\* However many clients there are, whatever their lines, and in whatever order
\* they come and go: what one is sent is the front of its own first line, and all
\* of it where that ends (echo_server.c:85 in version 1, :71 in version 3).
THEOREM AlwaysEchoesOwn ==
    Spec => []EchoOwn
<1> DEFINE I == program = "echo" => EchoInv
<1>1. Init => I
  BY EchoInitially DEF Init
<1>2. I /\ [Next]_vars => I'
  <2> SUFFICES ASSUME I, [Next]_vars, program' = "echo" PROVE EchoInv'
    OBVIOUS
  <2>1. program = "echo" /\ [Echo!Next]_(Echo!vars)
    BY DEF Next, vars, Echo!vars, Echo!client, Echo!server
  <2> QED
    BY <2>1, EchoStep
<1>3. I => EchoOwn
  BY EchoSuffices DEF EchoOwn
<1> QED
  BY <1>1, <1>2, <1>3, PTL DEF Spec
=============================================================================
