----------------------------- MODULE JsonWriter -----------------------------
(***************************************************************************)
(* json_writer: a caller writes a JSON text call by call; the writer puts  *)
(* commas, padding and new lines between what it is given, from a stack of *)
(* the containers that are open.                                           *)
(*                                                                         *)
(* The text is a sequence of tokens: brackets, commas and colons, "blank", *)
(* "newline", "scalar" for a number, true, false or null, what operator<<  *)
(* makes of other values, and the pieces of strings.  Callers keep to what *)
(* JSON allows: one value, keys in objects only and each with a value, and *)
(* ends that match; the writer does not check it.                          *)
(*                                                                         *)
(* A definition named X_y is a wrong form of the definition X after it, on *)
(* which the property is seen to fail.                                     *)
(***************************************************************************)
EXTENDS Integers, SequencesExt

CONSTANTS Str,          \* strings: sequences of characters (none is a control character
                        \* that the writer has no name for: it would write it as it is)
          MaxCall,      \* bound: calls
          MaxDepth      \* bound: containers inside each other

Layout == {"inherit", "multi", "single"}
Type == {"array", "object"}

VARIABLES
    out,     \* the text that was written
    depth,   \* the containers that are open, the outermost first
    conf,    \* the writer's settings
    caller,  \* the same containers as the caller sees them; key: a value is due
    calls,
    raw      \* the places in out of the values that were not written as JSON's

vars == <<out, depth, conf, caller, calls, raw>>

Default ==
    [initialIndentDepth |-> 0, indent |-> <<"blank">>, containerPadding |-> <<"blank">>,
     keyPaddingLeft |-> << >>, keyPaddingRight |-> <<"blank">>,
     layout |-> "multi", force |-> FALSE]

Compressed(c) ==
    [initialIndentDepth |-> c.initialIndentDepth, indent |-> << >>, containerPadding |-> << >>,
     keyPaddingLeft |-> << >>, keyPaddingRight |-> << >>,
     layout |-> "single", force |-> TRUE]

Init ==
    /\ out = << >> /\ depth = << >> /\ caller = << >> /\ calls = 0 /\ raw = {}
    /\ conf = Default

Call == calls < MaxCall /\ calls' = calls + 1

\* the set... functions, but for the stream that is written to, and configureCompressedOutput
Configure ==
    /\ Call
    /\ \/ conf' = Compressed(conf)
       \/ \E d \in 0..1 : conf' = [conf EXCEPT !.initialIndentDepth = d]
       \/ \E l \in Layout : conf' = [conf EXCEPT !.layout = l]
       \/ \E f \in BOOLEAN : conf' = [conf EXCEPT !.force = f]
       \/ \E field \in {"indent", "containerPadding", "keyPaddingLeft", "keyPaddingRight"},
             s \in {<< >>, <<"blank">>} : conf' = [conf EXCEPT ![field] = s]
    /\ UNCHANGED <<out, depth, caller, raw>>

Container(t, l) == [type |-> t, layout |-> l, isKey |-> FALSE, childCount |-> 0]

Indent(n) == FlattenSeq([i \in 1..(conf.initialIndentDepth + n) |-> conf.indent])

NewLine(n) == <<"newline">> \o Indent(n)

Comma_kept(c) == c.childCount > 0

\* a comma goes before a child, but not between a key and its value
Comma(c) == c.childCount > 0 /\ (c.type = "array" \/ ~c.isKey)

\* startChild: what is written before a child of the innermost container
Before ==
    LET c == Last(depth) IN
    IF depth = << >> THEN Indent(0)
    ELSE IF Comma(c)
    THEN <<",">> \o IF c.layout = "single" THEN conf.containerPadding ELSE NewLine(Len(depth))
    ELSE IF c.childCount = 0
    THEN conf.containerPadding \o IF c.layout = "multi" THEN NewLine(Len(depth)) ELSE << >>
    ELSE << >>

Child(isKey) ==
    IF depth = << >> THEN depth
    ELSE [depth EXCEPT ![Len(depth)].isKey = isKey, ![Len(depth)].childCount = @ + 1]

\* writeEscapedChar: \b, \f, \r and \t go the way of \n
Escaped(ch) ==
    CASE ch \in {"quote", "backslash"} -> <<"backslash", ch>>
      [] ch = "newline" -> <<"backslash", "n">>
      [] OTHER -> <<ch>>

WriteString(s) == <<"quote">> \o FlattenSeq([i \in DOMAIN s |-> Escaped(s[i])]) \o <<"quote">>

-----------------------------------------------------------------------------
(***************************************************************************)
(* What the caller may do.                                                 *)
(***************************************************************************)
ValueDue ==
    IF caller = << >> THEN out = << >>
    ELSE Last(caller).type = "array" \/ Last(caller).key

KeyDue == caller # << >> /\ Last(caller) = [type |-> "object", key |-> FALSE]

\* the caller's containers after a key, or after a value
KeyIs(b) ==
    IF caller = << >> THEN caller ELSE [caller EXCEPT ![Len(caller)].key = b]

-----------------------------------------------------------------------------
(***************************************************************************)
(* The calls.                                                              *)
(***************************************************************************)
\* an int8_t or uint8_t is written as the character of that number, a quote for 34;
\* a float or double may be no number
Unquoted == {"quote", "nan"}

Value ==
    /\ Call /\ ValueDue
    /\ \/ \E text \in {<<"scalar">>} \cup {WriteString(s) : s \in Str} :
            out' = out \o Before \o text /\ UNCHANGED raw
       \/ \E text \in Unquoted :
            out' = out \o Before \o <<text>> /\ raw' = raw \cup {Len(out')}
    /\ depth' = Child(FALSE) /\ caller' = KeyIs(FALSE)
    /\ UNCHANGED conf

Key ==
    /\ Call /\ KeyDue
    /\ \E s \in Str : out' = out \o Before \o WriteString(s) \o conf.keyPaddingLeft
                                \o <<":">> \o conf.keyPaddingRight
    /\ depth' = Child(TRUE) /\ caller' = KeyIs(TRUE)
    /\ UNCHANGED <<conf, raw>>

\* a container's own layout, the innermost one's, or the default
LayoutOf(l) ==
    IF conf.force THEN conf.layout
    ELSE IF l # "inherit" THEN l
    ELSE IF depth # << >> THEN Last(depth).layout ELSE conf.layout

StartContainer(t, l) ==
    /\ Call /\ ValueDue /\ Len(depth) < MaxDepth
    /\ out' = out \o Before \o <<IF t = "object" THEN "{" ELSE "[">>
    /\ depth' = Append(Child(FALSE), Container(t, LayoutOf(l)))
    /\ caller' = Append(KeyIs(FALSE), [type |-> t, key |-> FALSE])
    /\ UNCHANGED <<conf, raw>>

\* endArray and endObject are the same
EndContainer ==
    /\ Call /\ caller # << >> /\ ~Last(caller).key
    /\ LET c == Last(depth)
           close == IF c.childCount = 0 THEN << >>
                    ELSE IF c.layout = "multi" THEN NewLine(Len(depth) - 1)
                    ELSE conf.containerPadding
       IN out' = out \o close \o <<IF c.type = "object" THEN "}" ELSE "]">>
    /\ depth' = Front(depth) /\ caller' = Front(caller)
    /\ UNCHANGED <<conf, raw>>

Over == calls = MaxCall /\ UNCHANGED vars

Next ==
    \/ Configure \/ Value \/ Key \/ EndContainer \/ Over
    \/ \E t \in Type, l \in Layout : StartContainer(t, l)

-----------------------------------------------------------------------------
(***************************************************************************)
(* JSON's grammar, token by token: what may come next and what is open.    *)
(***************************************************************************)
Start == [open |-> << >>, want |-> {"value"}, text |-> "no", escape |-> FALSE]
Wrong == [Start EXCEPT !.want = {}]

After(p) == [p EXCEPT !.want = {"next"}, !.text = "no"]
Opened(p, t, w) == [p EXCEPT !.open = Append(@, t), !.want = {w, "end"}]
Closes(p, t) == p.open # << >> /\ Last(p.open) = t /\ p.want \cap {"end", "next"} # {}

InString(p, t) ==
    IF p.escape
    THEN IF t \in {"quote", "backslash", "n"} THEN [p EXCEPT !.escape = FALSE] ELSE Wrong
    ELSE IF t = "newline" THEN Wrong
    ELSE IF t = "backslash" THEN [p EXCEPT !.escape = TRUE]
    ELSE IF t # "quote" THEN p
    ELSE IF p.text = "value" THEN After(p) ELSE [p EXCEPT !.want = {"colon"}, !.text = "no"]

Token(p, t) ==
    CASE p.text # "no" -> InString(p, t)
      [] p.text = "no" /\ t \in {"blank", "newline"} -> p
      [] t = "scalar" /\ "value" \in p.want -> After(p)
      [] p.text = "no" /\ t = "quote" /\ p.want \cap {"value", "key"} # {} ->
             [p EXCEPT !.text = IF "key" \in p.want THEN "key" ELSE "value"]
      [] t = "[" /\ "value" \in p.want -> Opened(p, "array", "value")
      [] t = "{" /\ "value" \in p.want -> Opened(p, "object", "key")
      [] t = "]" /\ Closes(p, "array") -> After([p EXCEPT !.open = Front(@)])
      [] t = "}" /\ Closes(p, "object") -> After([p EXCEPT !.open = Front(@)])
      [] t = "," /\ "next" \in p.want /\ p.open # << >> ->
             [p EXCEPT !.want = {IF Last(p.open) = "array" THEN "value" ELSE "key"}]
      [] t = ":" /\ "colon" \in p.want -> [p EXCEPT !.want = {"value"}]
      [] OTHER -> Wrong

\* the text, with a number for each value that was not written as one
Text == [i \in DOMAIN out |-> IF i \in raw THEN "scalar" ELSE out[i]]

Read == FoldLeft(Token, Start, Text)

Spec == Init /\ [][Next]_vars

-----------------------------------------------------------------------------
\* What was written is at any moment the beginning of a JSON text in which those
\* containers are open that the caller thinks are, and all of one when none is:
\* commas, colons and brackets are where they belong, in any nesting, layout and
\* setting, and no string ends before its end (startChild, writeEscapedChar).  Each
\* int8_t, uint8_t, infinity or nan has to be taken for a number for that: what
\* operator<< writes of it is none, and may be a quote (VALUE_DEF).
WellFormed ==
    LET p == Read IN
    /\ p.want # {} /\ p.text = "no"
    /\ p.open = [i \in DOMAIN caller |-> caller[i].type]
    /\ caller = << >> /\ out # << >> => p.want = {"next"}
=============================================================================
