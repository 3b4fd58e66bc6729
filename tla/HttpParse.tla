----------------------------- MODULE HttpParse ------------------------------
(***************************************************************************)
(* What one connection's requests are taken for (http_parse.c, do_request  *)
(* and what it calls in http.c and http_request.c): the bytes come in      *)
(* pieces, two parsers that share rq->state go over them, and each request *)
(* is answered from its headers.  HttpServer has the loop, the timers and  *)
(* the room in the buffer; here bytes are never overwritten.               *)
(*                                                                         *)
(* A character stands for a run of like ones, a name, or a value.          *)
(* A request that is freed is not followed any further.                    *)
(*                                                                         *)
(* A definition named X_y is a wrong form of the definition X after it, on *)
(* which the properties are seen to fail.                                  *)
(***************************************************************************)
EXTENDS Integers, SequencesExt, FiniteSetsExt

CONSTANTS Target,  \* the uris that are asked for, each with what it is like
          Request, \* the requests that clients send
          MaxReq   \* requests of one client

\* a uri, by what parse_uri makes of it: its path, whether it ends in a slash,
\* has a dot behind the last slash, or is too long
Uri(path, slash, dot, long) == [path |-> path, slash |-> slash, dot |-> dot, long |-> long]

\* line: good, ended by LF, with a wrong method, with another error
Ask(u, line, heads) == [uri |-> u, line |-> line, heads |-> heads]
Field(k, v, crlf) == [key |-> k, value |-> v, crlf |-> crlf]

VARIABLES
    asked,   \* the requests of the client
    stream,  \* their characters, sent or not
    last, pos, state, list,  \* of st_http_request_t
    pc,      \* where do_request is: read, line, body, handle, closed
    p, s,    \* the parsers' pos and state
    key, value, \* cur_header_key_start, cur_header_value_start
    answers, \* what was sent back
    uri,     \* the uri of the request
    cut      \* a piece has ended within the headers of a request

rq == <<last, pos, state, list>>
loop == <<p, s, key, value>>
vars == <<asked, stream, rq, pc, loop, answers, uri, cut>>

CR == "CR"
LF == "LF"
Ends == {CR, LF}
Digit == {"1"}
Letter == {"M", "H", "T", "P"}

Version == <<"H", "T", "T", "P", "/", "1", ".", "1">>

\* a character of a uri is the uri, one of a header's name or value the header
Text(r) ==
    (CASE r.line = "good" -> <<"M", " ", "/", r.uri, " ">> \o Version \o <<CR, LF>>
       [] r.line = "lf" -> <<"M", " ", "/", r.uri, " ">> \o Version \o <<LF>>
       [] r.line = "method" -> <<"x", " ", "/", r.uri, " ">> \o Version \o <<CR, LF>>
       [] OTHER -> <<"M", " ", "/", r.uri, " ", "H", "T", "x", CR, LF>>)
    \o FlattenSeq([k \in 1..Len(r.heads) |->
          LET h == r.heads[k] IN
          <<h.key, ":">> \o (IF h.value = "" THEN << >> ELSE <<" ", h.value>>)
                         \o (IF h.crlf THEN <<CR, LF>> ELSE <<LF>>)])
    \o <<CR, LF>>

Init ==
    /\ asked \in UNION {[1..n -> Request] : n \in 1..MaxReq}
    /\ stream = FlattenSeq([k \in DOMAIN asked |-> Text(asked[k])])
    /\ last = 0 /\ pos = 0 /\ state = "start" /\ list = << >>
    /\ pc = "read" /\ p = 0 /\ s = "start" /\ key = "" /\ value = ""
    /\ answers = << >> /\ uri = "" /\ cut = FALSE

-----------------------------------------------------------------------------
(***************************************************************************)
(* The parsers: the state after a character.                               *)
(***************************************************************************)
Method(st, ch) ==
    CASE st = "start" /\ ch \in Ends -> "start"
      [] st = "method" /\ ch = " " -> "before_uri"
      [] ch \in Letter -> "method"
      [] OTHER -> "invalid_method"

UriNext(st, ch) ==
    CASE st = "before_uri" /\ ch = "/" -> "in_uri"
      [] st = "before_uri" -> IF ch = " " THEN st ELSE "invalid_request"
      [] OTHER -> IF ch = " " THEN "http" ELSE "in_uri"

Word == [http |-> <<"H", "http_H">>, http_H |-> <<"T", "http_HT">>, http_HT |-> <<"T", "http_HTT">>,
         http_HTT |-> <<"P", "http_HTTP">>, http_HTTP |-> <<"/", "major">>]

Protocol(st, ch) ==
    IF ch = Word[st][1] THEN Word[st][2]
    ELSE IF st = "http" /\ ch = " " THEN st ELSE "invalid_request"

\* the numbers, and what may follow them
Numbers(st, ch) ==
    CASE st = "major" /\ ch \in Digit -> "majors"
      [] st = "majors" /\ (ch \in Digit \/ ch = ".") -> IF ch = "." THEN "minor" ELSE st
      [] st = "minor" /\ ch \in Digit -> "minors"
      [] st = "minors" /\ ch \in Digit -> st
      [] st \in {"minors", "after"} /\ ch = " " -> "after"
      [] st \in {"minors", "after"} /\ ch = CR -> "almost"
      [] st \in {"minors", "after", "almost"} /\ ch = LF -> "ok"
      [] OTHER -> "invalid_request"

LineNext(st, ch) ==
    IF st \in {"start", "method"} THEN Method(st, ch)
    ELSE IF st \in {"before_uri", "in_uri"} THEN UriNext(st, ch)
    ELSE IF st \in DOMAIN Word THEN Protocol(st, ch)
    ELSE Numbers(st, ch)

Key(st, ch) ==
    CASE st = "start" /\ ch \in Ends -> st
      [] st = "key" /\ ch = " " -> "before_colon"
      [] st \in {"key", "before_colon"} /\ ch = ":" -> "after_colon"
      [] st = "before_colon" -> IF ch = " " THEN st ELSE "invalid_header"
      [] OTHER -> "key"

Value(st, ch) ==
    CASE st = "after_colon" -> IF ch = " " THEN st ELSE "value"
      [] ch = CR -> "cr"
      [] ch = LF -> "crlf"
      [] OTHER -> "value"

HeaderEnd(st, ch) ==
    CASE st = "cr" -> IF ch = LF THEN "crlf" ELSE "invalid_header"
      [] st = "crlf" -> IF ch = CR THEN "crlfcr" ELSE "key"
      [] OTHER -> IF ch = LF THEN "ok" ELSE "invalid_header"

BodyNext(st, ch) ==
    IF st \in {"start", "key", "before_colon"} THEN Key(st, ch)
    ELSE IF st \in {"after_colon", "value"} THEN Value(st, ch)
    ELSE HeaderEnd(st, ch)

\* the states of one parser with the numbers of the other's
Same == [start |-> "start", key |-> "method", before_colon |-> "before_uri",
         after_colon |-> "in_uri", value |-> "http", cr |-> "http_H",
         crlf |-> "http_HT", crlfcr |-> "http_HTT"]

-----------------------------------------------------------------------------
(***************************************************************************)
(* do_request, a character at a time.                                      *)
(***************************************************************************)
\* a piece of the stream arrives and is read
Read ==
    /\ pc = "read" /\ \E n \in last + 1..Len(stream) : last' = n
    /\ pc' = "line" /\ p' = pos /\ s' = state
    /\ UNCHANGED <<asked, stream, pos, state, list, key, value, answers, uri, cut>>

LineByte ==
    LET ch == stream[p + 1]  next == LineNext(s, ch) IN
    /\ pc = "line" /\ p < last
    /\ p' = p + 1
    /\ uri' = IF next = "in_uri" /\ s = "in_uri" THEN ch ELSE uri
    /\ CASE next = "ok" -> /\ pc' = "body" /\ pos' = p + 1 /\ state' = "start" /\ s' = "start"
         [] next = "invalid_method" -> pc' = "closed" /\ UNCHANGED <<pos, state, s>>
         \* the number of ST_AGAIN: as if more had to come, but nothing is noted
         [] next = "invalid_request" -> pc' = "read" /\ UNCHANGED <<pos, state, s>>
         [] OTHER -> s' = next /\ UNCHANGED <<pc, pos, state>>
    /\ UNCHANGED <<asked, stream, last, list, key, value, answers, cut>>

\* where the parser goes on with the next piece
Kept(st) == pos' = p /\ state' = st

LineAgain ==
    /\ pc = "line" /\ p = last /\ Kept(s) /\ pc' = "read"
    /\ UNCHANGED <<asked, stream, last, list, loop, answers, uri, cut>>

\* a header that ends in CR LF is saved, one that ends in LF is not
Saved(st, ch) == st = "cr" /\ ch = LF

BodyByte ==
    LET ch == stream[p + 1]  next == BodyNext(s, ch) IN
    /\ pc = "body" /\ p < last
    /\ p' = p + 1
    /\ key' = IF next = "key" /\ s \in {"start", "crlf"} THEN ch ELSE key
    /\ value' = IF next = "value" /\ s = "after_colon" THEN ch ELSE value
    /\ list' = IF Saved(s, ch) THEN <<[key |-> key, value |-> value]>> \o list ELSE list
    /\ CASE next = "ok" -> /\ pc' = "handle" /\ pos' = p + 1 /\ state' = "start" /\ s' = "start"
         [] next = "invalid_header" -> pc' = "closed" /\ UNCHANGED <<pos, state, s>>
         [] OTHER -> s' = next /\ UNCHANGED <<pc, pos, state>>
    /\ UNCHANGED <<asked, stream, last, answers, uri, cut>>

\* the state is kept for the other parser
BodyAgain ==
    /\ pc = "body" /\ p = last /\ Kept(Same[s]) /\ pc' = "read" /\ cut' = TRUE
    /\ UNCHANGED <<asked, stream, last, list, loop, answers, uri>>

-----------------------------------------------------------------------------
(***************************************************************************)
(* The answer.                                                             *)
(***************************************************************************)
\* parse_uri: the query is no part of the path; a uri without a dot is a directory; of one
\* that is too long the root is left
parse_uri(name) ==
    LET u == Target[name] IN
    CASE u.long -> "root"
      [] u.slash \/ ~u.dot -> u.path \o "/index.html"
      [] OTHER -> u.path

\* stat: a file that can be read, another one, none
Found(name) ==
    CASE name \in {"a", "d/index.html"} -> "file"
      [] name \in {"root", "secret"} -> "forbidden"
      [] OTHER -> "none"

\* the handlers, by a header's name, on all that is in the list
Connection(l) == \E h \in ToSet(l) : h.key = "Connection" /\ h.value = "keep-alive"
NotModified(l) == \E h \in ToSet(l) : h.key = "If-Modified-Since" /\ h.value = "mtime"

Answer(status, keep, body) == [status |-> status, keep |-> keep, body |-> body]

\* server_static: the file, or that it was not modified
server_static(l) ==
    IF NotModified(l) THEN Answer(304, Connection(l), FALSE) ELSE Answer(200, Connection(l), TRUE)

do_error(status) == Answer(status, FALSE, TRUE)

Status(found) == IF found = "none" THEN 404 ELSE 403

Emptied_not(l) == l

\* st_http_handle_header takes every header off the list
Emptied(l) == << >>

\* after an error the connection stays, and so do the headers
Handle ==
    LET found == Found(parse_uri(uri)) IN
    /\ pc = "handle"
    /\ IF found # "file"
       THEN answers' = Append(answers, do_error(Status(found))) /\ pc' = "read" /\ UNCHANGED list
       ELSE /\ answers' = Append(answers, server_static(list))
            /\ pc' = IF Connection(list) THEN "read" ELSE "closed"
            /\ list' = Emptied(list)
    /\ UNCHANGED <<asked, stream, last, pos, state, loop, uri, cut>>

\* the client has nothing more to send
Over == (pc = "closed" \/ (pc = "read" /\ last = Len(stream))) /\ UNCHANGED vars

Next == Read \/ LineByte \/ LineAgain \/ BodyByte \/ BodyAgain \/ Handle \/ Over

Spec == Init /\ [][Next]_vars

-----------------------------------------------------------------------------
(***************************************************************************)
(* What each request should be answered, from its own headers, up to the   *)
(* one that ends the connection.                                           *)
(***************************************************************************)
Due(r) ==
    LET own == SelectSeq(r.heads, LAMBDA h : h.crlf /\ h.value # "")
        found == Found(parse_uri(r.uri))
    IN IF found = "file" THEN server_static(own) ELSE do_error(Status(found))

Sound(r) == r.line \in {"good", "lf"}

Goes(r) == Sound(r) /\ (Due(r).keep \/ Due(r).status \in {403, 404})

\* requests that are served, after which the connection goes on
Reached(k) == \A j \in 1..k - 1 : Goes(asked[j])

\* no request before it was refused
Fresh(k) == \A j \in 1..k - 1 : Due(asked[j]).status \notin {403, 404}

\* However a connection's requests are cut into pieces, the answers are those to
\* the requests, one after the other, each from its own headers: unless a piece
\* has ended within headers, and but for requests after one that was refused.
AnswersOwn ==
    ~cut => \A k \in 1..Len(answers) :
        /\ k <= Len(asked) /\ Reached(k) /\ Sound(asked[k])
        /\ Fresh(k) => answers[k] = Due(asked[k])

\* where the first k requests end
End(k) == Len(FlattenSeq([j \in 1..k |-> Text(asked[j])]))

\* When all was read every request has its answer, unless the next one is
\* malformed, or lies there untouched as it came in one piece with the one
\* before it; and a connection is closed only after its last answer, or for a
\* request that is malformed or has no headers.
AllAnswered ==
    LET n == Len(answers) IN
    /\ pc = "read" /\ last = Len(stream) /\ ~cut =>
          n = Len(asked) \/ ~Sound(asked[n + 1]) \/ pos = End(n)
    /\ pc = "closed" /\ ~cut =>
          \/ n > 0 /\ answers[n].status \in {200, 304} /\ ~answers[n].keep
          \/ ~Sound(asked[n + 1]) \/ asked[n + 1].heads = << >>

\* Every request has its answer, and every answer its request.
AnswersMatch == AnswersOwn /\ AllAnswered
=============================================================================
