--------------------------- MODULE JsonFormatter ---------------------------
(***************************************************************************)
(* jsonFormatter: getStringFirst.c and getStringSecond.c copy a JSON text  *)
(* without the blanks that stand outside of strings, one character after   *)
(* the other.  "high" is a byte from 128 on, negative as a char, and "eof" *)
(* the byte 255, which the second program takes for EOF.                   *)
(*                                                                         *)
(* A definition named X_y is a wrong form of the definition X after it, on *)
(* which the property is seen to fail.                                     *)
(***************************************************************************)
EXTENDS Integers, SequencesExt, FiniteSetsExt

CONSTANTS Text,  \* contents of files: sequences of characters
          None   \* the character 0

VARIABLES
    program,   \* "first" or "second"
    pc,
    src,       \* the file; once it is read, the string
    ptr,       \* the place of the next character
    token,
    markFlag,  \* quotes met, modulo 2 once next has seen the second
    result

vars == <<program, pc, src, ptr, token, markFlag, result>>

At(i) == IF i \in DOMAIN src THEN src[i] ELSE None

Init ==
    /\ program \in {"first", "second"}
    /\ pc = "open" /\ src \in Text
    /\ ptr = 1 /\ token = None /\ markFlag = 0 /\ result = << >>

\* main of the first program: an empty file is an error
ReadFirst ==
    /\ program = "first" /\ pc = "open"
    /\ pc' = IF src = << >> THEN "exit" ELSE "begin"
    /\ UNCHANGED <<program, src, ptr, token, markFlag, result>>

\* main of the second: up to the end or the byte 255
ReadSecond ==
    /\ program = "second" /\ pc = "open" /\ pc' = "begin"
    /\ src' = SubSeq(src, 1, SelectInSeq(Append(src, "eof"), LAMBDA x : x = "eof") - 1)
    /\ UNCHANGED <<program, ptr, token, markFlag, result>>

Skipped(i) == CHOOSE j \in i..(Len(src) + 1) : At(j) # "blank" /\ \A n \in i..(j - 1) : At(n) = "blank"

\* the character at i becomes the token and is put out
Take(i) == token' = At(i) /\ ptr' = i + 1 /\ result' = Append(result, At(i))

NextWithoutSpaceAndEnter == Take(Skipped(ptr))

Ended_kept(m) == Take(ptr) /\ markFlag' = m

\* next, with markFlag m: after the second quote blanks are left out again
Ended(m) ==
    IF m = 2 THEN NextWithoutSpaceAndEnter /\ markFlag' = 0
    ELSE Take(ptr) /\ markFlag' = m

\* process: the first character, then the loop
Begin ==
    /\ pc = "begin" /\ pc' = "loop" /\ Ended(markFlag)
    /\ UNCHANGED <<program, src>>

Loop ==
    /\ pc = "loop" /\ token \notin {None, "high", "eof"} /\ UNCHANGED <<program, pc, src>>
    /\ \/ token = "quote" /\ Ended(markFlag + 1)
       \/ token # "quote" /\ markFlag > 0 /\ Ended(markFlag)
       \/ token # "quote" /\ markFlag = 0 /\ NextWithoutSpaceAndEnter /\ UNCHANGED markFlag

\* the result is written to a file
Leave ==
    /\ pc = "loop" /\ token \in {None, "high", "eof"} /\ pc' = "done"
    /\ UNCHANGED <<program, src, ptr, token, markFlag, result>>

Over == pc \in {"done", "exit"} /\ UNCHANGED vars

Next == ReadFirst \/ ReadSecond \/ Begin \/ Loop \/ Leave \/ Over

Spec == Init /\ [][Next]_vars

-----------------------------------------------------------------------------
Inside(i) == Cardinality({j \in 1..(i - 1) : src[j] = "quote"}) % 2 = 1

\* The result is the text without the blanks outside of strings, and with all
\* blanks inside of them, but for one at the very beginning, as long as no string
\* holds a quote; and the first byte above 127, wherever it stands, is its last
\* (process).
Compact ==
    pc = "done" =>
        LET end == CHOOSE i \in 1..(Len(src) + 1) :
                       /\ At(i) \in {None, "high", "eof"}
                       /\ \A j \in 1..(i - 1) : src[j] \notin {"high", "eof"}
            kept == {i \in 1..(end - 1) : i = 1 \/ src[i] # "blank" \/ Inside(i)}
            nth(n) == CHOOSE i \in kept : Cardinality({j \in kept : j <= i}) = n
        IN result = [n \in 1..Cardinality(kept) |-> src[nth(n)]] \o <<At(end)>>
=============================================================================
