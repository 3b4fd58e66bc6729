------------------------------ MODULE Game2048 ------------------------------
(***************************************************************************)
(* The 2048 game (version_1_4/src/game.c) as a client of the relay server  *)
(* plays it (client.c): the main thread with the board, a second thread    *)
(* that waits for another client's win, and the file with the best score,  *)
(* which either thread may write when it ends the game.                    *)
(*                                                                         *)
(* The counts of steps are left out, and so is what is drawn; of the file  *)
(* there is the score.  The board is ROW by COL, 4 by 4 in the code.       *)
(*                                                                         *)
(* A definition named X_y is a wrong form of the definition X after it, on *)
(* which the properties are seen to fail.                                  *)
(***************************************************************************)
EXTENDS Integers, SequencesExt, FiniteSetsExt

CONSTANTS ROW, COL,  \* the board
          m_winFlag, \* the number that wins
          Best       \* scores that may be in the file at first

Cell == (0..ROW - 1) \X (0..COL - 1)
NoFile == -1

VARIABLES
    m_map, m_empty, m_score, m_bestScore, m_maxNumber, m_old_row,
    gameOverFlag,
    main,     \* where the main thread is
    caught,   \* it is in the handler of SIGINT, from which it does not return
    thread,   \* where the second thread is
    file,     \* bestInfo.txt: NoFile, 0 when it is empty
    record,   \* the best score that was ever in the file
    faults    \* torn: a thread that was writing the file was stopped, or the score was
              \* read from it meanwhile; late: a move was made while the other thread
              \* ended the game; refused: the file could not be opened

board == <<m_map, m_empty, m_score, m_maxNumber, m_old_row>>
saved == <<m_bestScore, file, record>>
vars == <<board, saved, gameOverFlag, main, caught, thread, faults>>

ReadBest(b) == IF file = NoFile THEN b ELSE file

Init ==
    /\ \E c \in Cell : m_map = [d \in Cell |-> IF d = c THEN 2 ELSE 0]
    /\ m_empty = ROW * COL - 1 /\ m_score = 0 /\ m_maxNumber = 2 /\ m_old_row = 0
    /\ file \in Best \cup {NoFile} /\ record = file /\ m_bestScore = ReadBest(0)
    /\ gameOverFlag = 0 /\ main = "key" /\ caught = FALSE /\ thread = "read" /\ faults = {}

\* m_bestScore is set and not yet in the file
Writing == {"open", "write"}

Fault(f, holds) == faults' = IF holds THEN faults \cup {f} ELSE faults

\* the thread has taken the score
Judged == thread \in Writing \cup {"flag", "leave"}

-----------------------------------------------------------------------------
(***************************************************************************)
(* A move.                                                                 *)
(***************************************************************************)
\* the lines a move works on, each from the side that the numbers move to
Left == {[k \in 1..COL |-> <<r, k - 1>>] : r \in 0..ROW - 1}
Right == {[k \in 1..COL |-> <<r, COL - k>>] : r \in 0..ROW - 1}
Up == {[k \in 1..ROW |-> <<k - 1, c>>] : c \in 0..COL - 1}
Down == {[k \in 1..ROW |-> <<ROW - k, c>>] : c \in 0..COL - 1}

\* a number is joined with the next one, over free cells in between, but moveLeft
\* tests the wrong cell for being free: to the left only neighbours are joined
Joins(lines, j, k) == lines # Left \/ k = j + 1

\* a line after the move: from left to right each number is joined with the next
\* one if they are equal and neither has been joined, and then all are moved
Slide(lines, line) ==
    LET step(a, k) ==
            LET n == m_map[line[k]] IN
            IF n = 0 THEN a
            ELSE IF a.at # 0 /\ Last(a.kept) = n /\ Joins(lines, a.at, k)
            THEN [kept |-> Append(Front(a.kept), 2 * n), at |-> 0,
                  score |-> a.score + n, pairs |-> a.pairs + 1]
            ELSE [a EXCEPT !.kept = Append(a.kept, n), !.at = k]
    IN FoldLeft(step, [kept |-> << >>, at |-> 0, score |-> 0, pairs |-> 0],
                [k \in DOMAIN line |-> k])

After(lines) ==
    [c \in Cell |-> LET line == CHOOSE l \in lines : c \in ToSet(l)
                        k == CHOOSE j \in DOMAIN line : line[j] = c
                        kept == Slide(lines, line).kept
                    IN IF k > Len(kept) THEN 0 ELSE kept[k]]

Score(lines) == MapThenSumSet(LAMBDA l : Slide(lines, l).score, lines)

\* m_empty grows with every pair
Freed(lines) == MapThenSumSet(LAMBDA l : Slide(lines, l).pairs, lines)

-----------------------------------------------------------------------------
(***************************************************************************)
(* A new number.                                                           *)
(***************************************************************************)
Free(map) == {c \in Cell : map[c] = 0}

\* the free cells around a cell: of those above, row 0 does not count
countOne(map, c) ==
    LET r == c[1] IN
    Cardinality({d \in Free(map) \ {c} :
        /\ d[1] \in r - 1..r + 1 /\ d[2] \in c[2] - 1..c[2] + 1
        /\ d = <<r - 1, c[2]>> => r - 1 > 0})

Candidate(map, c) == map[c] = 0

\* in every row the first free cell with more room around it than the cell
\* that was drawn; m_old_row is set to its column, m_old_col stays 0
countValue(map, drawn) ==
    LET better(r, old) == {c \in 0..COL - 1 : /\ Candidate(map, <<r, c>>)
                                         /\ countOne(map, <<r, c>>) > countOne(map, drawn)
                                         /\ old # r /\ c # 0}
        row(a, r) == IF better(r, a.old) = {} THEN a
                     ELSE [cell |-> <<r, Min(better(r, a.old))>>, old |-> Min(better(r, a.old))]
    IN FoldLeft(row, [cell |-> drawn, old |-> m_old_row], [k \in 1..ROW |-> k - 1])

MaxOf(map) == Max({map[c] : c \in Cell} \cup {m_maxNumber})

\* play: a key is a move; then a number, 2 or 4, is put into a free cell if
\* anything has changed; the score file is read when the board is drawn
Press(lines) ==
    LET map == After(lines)
        changed == Freed(lines) > 0 \/ map # m_map IN
    /\ main = "key"
    /\ m_score' = m_score + Score(lines)
    /\ m_maxNumber' = MaxOf(map)
    /\ IF m_empty + Freed(lines) <= 0
       THEN /\ main' = "over" /\ m_map' = map /\ m_empty' = m_empty + Freed(lines)
            /\ UNCHANGED <<m_old_row, m_bestScore>>
       ELSE /\ IF ~changed THEN UNCHANGED <<m_map, m_empty, m_old_row>>
               ELSE \E drawn \in Free(map), n \in {2, 4} :
                      LET new == countValue(map, drawn) IN
                      /\ m_map' = [map EXCEPT ![new.cell] = n]
                      /\ m_old_row' = new.old
                      /\ m_empty' = m_empty + Freed(lines) - 1
            /\ m_bestScore' = ReadBest(m_bestScore)
            /\ main' = IF gameOverFlag # 0 \/ m_maxNumber' = m_winFlag THEN "exit" ELSE "key"
    /\ faults' = faults \cup {f \in {"late", "torn"} :
                               \/ f = "late" /\ Judged
                               \/ f = "torn" /\ thread \in Writing /\ main' # "over"}
    /\ UNCHANGED <<file, record, gameOverFlag, caught, thread>>

moveLeft == Press(Left)
moveRight == Press(Right)
moveUp == Press(Up)
moveDown == Press(Down)

\* the key q
Quit ==
    /\ main = "key" /\ main' = "over"
    /\ UNCHANGED <<board, saved, gameOverFlag, caught, thread, faults>>

\* SIGINT from the terminal: the handler runs on top of what main was at.  Within a
\* move a part of the lines is done, of which only the score will matter.
Signal ==
    /\ main # "end" /\ ~caught /\ caught' = TRUE /\ main' = "over"
    /\ \E lines \in {Left, Right, Up, Down} : \E part \in SUBSET lines :
         /\ main # "key" => part = {}
         /\ m_score' = m_score + MapThenSumSet(LAMBDA l : Slide(lines, l).score, part)
         /\ faults' = faults \cup {f \in {"late", "torn"} :
                                    \/ f = "late" /\ Judged /\ part # {}
                                    \/ f = "torn" /\ main \in Writing}
    /\ UNCHANGED <<m_map, m_empty, m_maxNumber, m_old_row, saved, gameOverFlag, thread>>

-----------------------------------------------------------------------------
(***************************************************************************)
(* The end of a game, by either thread.                                    *)
(***************************************************************************)
Alive == main # "end" /\ thread # "end"

\* either thread goes on from one place of gameOver to another
From(here, there) ==
    \/ main = here /\ main' = there /\ UNCHANGED thread
    \/ thread = here /\ thread' = there /\ UNCHANGED main

Better_not == TRUE

Better == m_bestScore < m_score

\* gameOver: a better score is to be written, ...
gameOver ==
    /\ m_bestScore' = IF Better THEN m_score ELSE m_bestScore
    /\ From("over", IF Better THEN "open" ELSE "flag")
    /\ UNCHANGED <<board, file, record, gameOverFlag, caught, faults>>

\* ... the file is opened, and is empty, or cannot be opened, ...
Open ==
    /\ \/ file' = 0 /\ From("open", "write") /\ UNCHANGED faults
       \/ Fault("refused", TRUE) /\ From("open", "flag") /\ UNCHANGED file
    /\ UNCHANGED <<board, m_bestScore, record, gameOverFlag, caught>>

\* ... and written: what is in fp's buffer reaches the file at the end of the process
\* too, if the disk has room for it
writeBestScoreInfoToFile ==
    /\ From("write", "flag")
    /\ \/ /\ file' = m_bestScore /\ record' = Max({record, m_bestScore})
          /\ UNCHANGED faults
       \/ Fault("torn", TRUE) /\ UNCHANGED <<file, record>>
    /\ UNCHANGED <<board, m_bestScore, gameOverFlag, caught>>

\* the board is drawn once more, and with it the score is read; the loop ends
LoopEnds ==
    /\ main = "flag" /\ ~caught /\ gameOverFlag' = 1 /\ main' = "exit"
    /\ m_bestScore' = ReadBest(m_bestScore)
    /\ Fault("torn", thread \in Writing)
    /\ UNCHANGED <<board, file, record, caught, thread>>

\* whileProcess tells a win and ends the process, whatever the thread is at
Exit ==
    /\ main = "exit" /\ main' = "end"
    /\ Fault("torn", thread \in Writing)
    /\ UNCHANGED <<board, saved, gameOverFlag, caught, thread>>

\* thread_func: another client's message, or the end of the server, raises a
\* signal in the thread; after an error it ends.  A second SIGINT, while main is in
\* the handler, is the thread's too.
Receive ==
    /\ thread = "read" /\ thread' \in {"ended", "over"}
    /\ UNCHANGED <<board, saved, gameOverFlag, main, caught, faults>>

\* handler: after a second the process ends; in the main thread ...
Interrupted ==
    /\ main = "flag" /\ caught /\ main' = "end" /\ gameOverFlag' = 1
    /\ Fault("torn", thread \in Writing)
    /\ UNCHANGED <<board, saved, caught, thread>>

\* ... and in the second one, where main is seen to leave its loop first
handler ==
    /\ thread \in {"flag", "leave"}
    /\ gameOverFlag' = 1 /\ thread' = IF thread = "flag" THEN "leave" ELSE "end"
    /\ Fault("torn", thread = "leave" /\ main \in Writing)
    /\ UNCHANGED <<board, saved, main, caught>>

Over == ~Alive /\ UNCHANGED vars

Next ==
    \/ /\ Alive
       /\ \/ moveLeft \/ moveRight \/ moveUp \/ moveDown \/ Quit \/ Signal
          \/ gameOver \/ Open \/ writeBestScoreInfoToFile \/ LoopEnds \/ Exit
          \/ Receive \/ Interrupted \/ handler
    \/ Over

Spec == Init /\ [][Next]_vars

-----------------------------------------------------------------------------
\* m_empty is the number of free cells, so that the loop that draws a free cell
\* finds one and the game is over only on a full board; and the largest number
\* stops the game, though it is only compared for equality.
BoardCounted ==
    /\ m_empty = Cardinality(Free(m_map))
    /\ main = "key" => \A c \in Cell : m_map[c] < m_winFlag

\* However the game ends, by a key, a signal or the other thread, at any place of
\* main: the best score of the games before it is not lost, unless a thread is
\* stopped in the few steps in which it writes the file, or the score is read then.
\* A game that was not won keeps its own score, too, unless a move is made after
\* the other thread has ended it, or the file cannot be opened.
BestKept ==
    ~Alive =>
        /\ "torn" \in faults \/ file = NoFile \/ file >= record
        /\ faults = {} /\ gameOverFlag = 1 => file >= m_score \/ m_score = 0

\* The board and the score are what the moves made them, to the end of the game.
GameSound == BoardCounted /\ BestKept
=============================================================================
