----------------------------- MODULE FlappyBird -----------------------------
(***************************************************************************)
(* func.c of flappybird: main moves the bird up at a key, and drop, the    *)
(* handler of SIGALRM, moves it down and the walls to the left, wherever   *)
(* main is.  Whether the bird has hit a wall is read from the screen, at   *)
(* the place behind the one that was written last.                         *)
(*                                                                         *)
(* A definition named X_y is a wrong form of the definition X after it, on *)
(* which the property is seen to fail.                                     *)
(***************************************************************************)
EXTENDS Integers, Sequences

CONSTANTS ROWS, COLS, \* the screen
          STEP,       \* from wall to wall
          WIDTH,      \* columns of a wall
          WALLS,      \* walls in the list
          Height,     \* rows of a wall's upper part
          Gap,        \* rows between its parts
          Ticker,     \* how often the game can get faster
          MinY        \* bound: how far the bird goes up

VARIABLES
    pc,     \* main: key, move, blank, load, store, back, bird, look, paused, over
    cursor,
    screen,
    bird_y,
    reg,    \* bird_y as main has loaded it
    walls,  \* from head to tail
    ticker,
    timer,  \* is it running?
    stray   \* something was written elsewhere than at the bird's place

place == <<cursor, screen>>
game == <<walls, ticker, timer>>
vars == <<pc, place, bird_y, reg, game, stray>>

BIRD == "bird"
STONE == "stone"
BLANK == "blank"
bird_x == 2

Cells == (0..ROWS - 1) \X (0..COLS - 1)

Wall(x) == [x : {x}, y : Height, gap : Gap]
Rows(p) == (0..p.y - 1) \cup (p.y + p.gap..ROWS - 1)

\* addch leaves the cursor behind what it wrote
Behind(c) == IF c[2] < COLS - 1 THEN <<c[1], c[2] + 1>>
             ELSE IF c[1] < ROWS - 1 THEN <<c[1] + 1, 0>> ELSE c

\* move does nothing outside of the screen
Moved(c, y) == IF <<y, bird_x>> \in Cells THEN <<y, bird_x>> ELSE c

Addch(s, c, ch) == [s EXCEPT ![c] = ch]

\* init_head, init_wall, init_draw; the tail is not drawn
Init ==
    /\ pc = "key" /\ bird_y = ROWS \div 2 /\ reg = 0 /\ ticker = Ticker /\ timer = TRUE /\ stray = FALSE
    /\ walls \in {w \in [1..WALLS -> UNION {Wall(k * STEP - 1) : k \in 1..WALLS}] :
                      \A k \in 1..WALLS : w[k].x = k * STEP - 1}
    /\ screen = [c \in Cells |->
           IF c = <<bird_y, bird_x>> THEN BIRD
           ELSE IF \E k \in 1..WALLS - 1 : c[2] \in walls[k].x - WIDTH + 1..walls[k].x /\ c[1] \in Rows(walls[k])
           THEN STONE ELSE BLANK]
    /\ cursor = Behind(<<ROWS - 1, walls[WALLS - 1].x - WIDTH + 1>>)

Seen_own(s, c) == s[c]

\* inch, after the bird was put at c
Seen(s, c) == s[Behind(c)]

-----------------------------------------------------------------------------
(***************************************************************************)
(* drop.                                                                   *)
(***************************************************************************)
Gone == walls[1].x < 0

\* the first wall out of the screen, and one more at the end
Renewed(w) == IF Gone THEN Append(Tail(walls), w) ELSE walls

Draws(p) == p.x - WIDTH >= 0 /\ p.x < COLS

\* the walls ws drawn on the screen s, each one column to the left; all but the tail
Redrawn(s, ws) ==
    LET front == {ws[k] : k \in 1..Len(ws) - 1} IN
    [c \in Cells |->
        IF \E p \in front : Draws(p) /\ c[2] = p.x - WIDTH /\ c[1] \in Rows(p) THEN STONE
        ELSE IF \E p \in front : c[2] = p.x /\ c[1] \in Rows(p) THEN BLANK
        ELSE s[c]]

\* where the last addch of that leaves the cursor
AfterWalls(ws) ==
    LET p == ws[Len(ws) - 1]
    IN Behind(<<ROWS - 1, IF Draws(p) THEN p.x - WIDTH ELSE p.x>>)

drop ==
    LET out == Moved(cursor, bird_y)
        in == Moved(Behind(out), bird_y + 1)
        fallen == Addch(Addch(screen, out, BLANK), in, BIRD)
    IN
    /\ timer /\ pc \notin {"paused", "over"}
    /\ bird_y' = bird_y + 1
    /\ stray' = (stray \/ out # <<bird_y, bird_x>> \/ in # <<bird_y', bird_x>>)
    /\ \E w \in Wall(WALLS * STEP - 1) :
           LET ws == Renewed(w) IN
           IF Seen(fallen, in) = STONE
           THEN /\ pc' = "over" /\ screen' = fallen /\ cursor' = Behind(in) /\ timer' = FALSE
                /\ UNCHANGED <<walls, ticker>>
           ELSE /\ screen' = Redrawn(fallen, ws) /\ cursor' = AfterWalls(ws)
                /\ walls' = [k \in 1..WALLS |-> [ws[k] EXCEPT !.x = @ - 1]]
                /\ ticker' = IF Gone THEN ticker - 1 ELSE ticker
                /\ timer' = (ticker' > 0)
                /\ UNCHANGED pc
    /\ UNCHANGED reg

-----------------------------------------------------------------------------
(***************************************************************************)
(* main.                                                                   *)
(***************************************************************************)
Goto(a, b) == pc = a /\ pc' = b

Key ==
    /\ bird_y > MinY /\ Goto("key", "move")
    /\ UNCHANGED <<place, bird_y, reg, game, stray>>

MoveOut ==
    /\ Goto("move", "blank") /\ cursor' = Moved(cursor, bird_y)
    /\ UNCHANGED <<screen, bird_y, reg, game, stray>>

Blank ==
    /\ Goto("blank", "load") /\ screen' = Addch(screen, cursor, BLANK) /\ cursor' = Behind(cursor)
    /\ stray' = (stray \/ cursor # <<bird_y, bird_x>>)
    /\ UNCHANGED <<bird_y, reg, game>>

\* bird_y--, which drop may come in between
Load == Goto("load", "store") /\ reg' = bird_y /\ UNCHANGED <<place, bird_y, game, stray>>

Store == Goto("store", "back") /\ bird_y' = reg - 1 /\ UNCHANGED <<place, reg, game, stray>>

MoveBack ==
    /\ Goto("back", "bird") /\ cursor' = Moved(cursor, bird_y)
    /\ UNCHANGED <<screen, bird_y, reg, game, stray>>

Bird ==
    /\ Goto("bird", "look") /\ screen' = Addch(screen, cursor, BIRD) /\ cursor' = Behind(cursor)
    /\ stray' = (stray \/ cursor # <<bird_y, bird_x>>)
    /\ UNCHANGED <<bird_y, reg, game>>

Look ==
    /\ pc = "look"
    /\ IF screen[cursor] = STONE THEN pc' = "over" /\ timer' = FALSE ELSE pc' = "key" /\ UNCHANGED timer
    /\ UNCHANGED <<place, bird_y, reg, walls, ticker, stray>>

Pause ==
    /\ Goto("key", "paused") /\ timer' = FALSE
    /\ UNCHANGED <<place, bird_y, reg, walls, ticker, stray>>

Resume ==
    /\ Goto("paused", "key") /\ timer' = (ticker > 0)
    /\ UNCHANGED <<place, bird_y, reg, walls, ticker, stray>>

Quit == Goto("key", "over") /\ UNCHANGED <<place, bird_y, reg, game, stray>>

Over == pc = "over" /\ UNCHANGED vars

Next ==
    \/ drop \/ Key \/ MoveOut \/ Blank \/ Load \/ Store \/ MoveBack \/ Bird \/ Look
    \/ Pause \/ Resume \/ Quit \/ Over

Spec == Init /\ [][Next]_vars

-----------------------------------------------------------------------------
In(p) == bird_x \in p.x - WIDTH + 1..p.x /\ bird_y \in Rows(p)

\* While the game goes on the bird is in no wall, but in its last column, behind
\* which inch finds nothing, wherever in main drop has run - between the halves of
\* bird_y-- too -, unless one of them has written elsewhere than at the bird's place:
\* because drop ran between main's move and addch, or the bird was off the screen
\* (drop, main).
FliesFree ==
    pc = "key" /\ ~stray => \A k \in 1..WALLS : In(walls[k]) => walls[k].x = bird_x
=============================================================================
