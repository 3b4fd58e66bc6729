----------------------------- MODULE SmartSnake -----------------------------
(***************************************************************************)
(* smart_snake/version_2/src/snake.c: the snake moves by itself every      *)
(* 100 ms until a key is pressed, which may change its direction; keys     *)
(* that were pressed meanwhile wait.  It eats food and grows, and dies at  *)
(* the border or by biting itself.                                         *)
(*                                                                         *)
(* Coordinates are in steps of 10, from 0 to COL and ROW, both included.   *)
(*                                                                         *)
(* A definition named X_y is a wrong form of the definition X after it, on *)
(* which the property is seen to fail.                                     *)
(***************************************************************************)
EXTENDS Integers, SequencesExt

CONSTANTS COL, ROW,
          MaxLen   \* bound: the snake's length (100 in the code)

Direction == {"UP", "DOWN", "LEFT", "RIGHT"}
Opposite == [UP |-> "DOWN", DOWN |-> "UP", LEFT |-> "RIGHT", RIGHT |-> "LEFT"]

VARIABLES
    pc,
    dir,
    coor,    \* the snake's places, its head first
    food,    \* where it is; isEat 1: it is there
    isEat

vars == <<pc, dir, coor, food, isEat>>

Zero == <<0, 0>>
Place == (0..(COL - 1)) \X (0..(ROW - 1))

\* a key at the very beginning: res has not been set, and may end the game
Init ==
    /\ pc \in {"moving", "over"} /\ dir = "RIGHT"
    /\ coor = <<<<1, 0>>, Zero>>
    /\ food \in Place /\ isEat = 1

Ahead ==
    LET x == Head(coor)[1]  y == Head(coor)[2] IN
    CASE dir = "UP" -> <<x, y - 1>> [] dir = "DOWN" -> <<x, y + 1>>
      [] dir = "LEFT" -> <<x - 1, y>> [] dir = "RIGHT" -> <<x + 1, y>>

Moved_up ==
    [i \in DOMAIN coor |-> IF i = 1 THEN Ahead ELSE coor[1]]

\* from the end of the snake to its head
Moved == [i \in DOMAIN coor |-> IF i = 1 THEN Ahead ELSE coor[i - 1]]

BreakGame(s) ==
    \/ s[1][1] < 0 \/ s[1][1] > COL \/ s[1][2] < 0 \/ s[1][2] > ROW
    \/ \E i \in 2..Len(s) : s[i] = s[1]

\* a turn of the loop: move, perhaps die, new food if there is none, eat
Tick ==
    /\ pc = "moving"
    /\ IF BreakGame(Moved)
       THEN pc' = "over" /\ coor' = Moved /\ UNCHANGED <<food, isEat>>
       ELSE /\ pc' = pc
            /\ IF isEat = 0 THEN food' \in Place ELSE food' = food
            /\ isEat' = IF food' = Ahead THEN 0 ELSE 1
            /\ coor' = IF food' = Ahead THEN Append(Moved, Zero) ELSE Moved
    /\ Len(coor') <= MaxLen
    /\ UNCHANGED dir

\* one key; others, and the direction's opposite, change nothing
ChangeDirection ==
    /\ pc = "moving"
    /\ \E d \in Direction :
           dir' = IF d = Opposite[dir] \/ coor[1] = coor[2] THEN dir ELSE d
    /\ UNCHANGED <<pc, coor, food, isEat>>

Over == (pc = "over" \/ Len(coor) = MaxLen) /\ UNCHANGED vars

Next == Tick \/ ChangeDirection \/ Over

Spec == Init /\ [][Next]_vars

-----------------------------------------------------------------------------
\* the places that are set: eating adds one that the next move fills
Parts == 1..(IF isEat = 0 THEN Len(coor) - 1 ELSE Len(coor))

\* While the game goes on no two parts of the snake are in one place, and each is
\* next to the one before it: it is one piece, and biting itself ends the game
\* (SnakeMove, BreakGame).
OnePiece ==
    pc = "moving" =>
        /\ \A i, j \in Parts : i # j => coor[i] # coor[j]
        /\ \A i \in Parts \ {1} :
               LET d(k) == coor[i][k] - coor[i - 1][k] IN d(1) * d(1) + d(2) * d(2) = 1
=============================================================================
