# Verification of c_cpp_demo

c_cpp_demo is a collection of network servers, clients, games and small tools in C and C++. This
directory holds TLA+ models of the parts of it where order, failure, timing or concurrency matter,
the TLC configurations that check them on small instances, and theorems about them that TLAPS
proves for every value of their constants.

Paths below are relative to the repository's root (`src/` in `PROJECT.json`).

## 1. Inventory

| part | state it keeps | operations | what is hard |
|---|---|---|---|
| HTTP server `my_server/simple_http_server` | request structures, timer heap with lazy deletion, epoll registrations, request buffers, parser states | start-up, accept loop, `do_request`, timer expiry, parsers, buffered I/O | stale events, descriptor reuse, edge-triggered one-shot readiness, use of freed requests, split input |
| its thread pool (compiled out) | mutex, condition variable, task list, shutdown mode | add, destroy, worker loop | lock discipline, lost wake-ups, shutdown with work queued |
| FTP service `ftp_simple/version_3` | login attempts, control connection, data connection | login, LIST, GET, QUIT | a reply lost or out of step, retries, the fixed client port |
| FTP sample `ftp_client_sample_shiyanlou`, library `ftp_client_sample/THFTPAPI.c` | control and passive data connections | login, transfers, directory commands | replies that carry no mark, time limits, interrupts |
| `chatroom/chat` | linked list of users shared by threads, client queues | one thread per client | unlocked shared list, races on queues |
| `chatroom/shiyanlou_chat` | epoll set, list of clients | accept, broadcast | edge-triggered events, one call for each |
| `chatroom/chat_select` | table of slots and its counter, `fd_set` | accept, relay, close | slot reuse, a loop bounded by a counter that is never lowered |
| `chatroom/linux_client` | slots of users, accounts, mute flags; one global message in the client | login, register, send, kick, mute, file transfer | slot reuse, whose name a message carries |
| 2048 relay server `2048_c_ncurses/version_1_4/src/server.c` | client slots, `fd_set`, highest descriptor | accept, relay, close | slot and descriptor reuse, counters never lowered |
| 2048 game `.../src/game.c`, `client.c` | board, score, best score, win flag; two threads | moves, new number, end of game | a count kept beside the board, two threads that end the game |
| echo servers `my_server/echo_server` | one line buffer for all | read, write, close | short reads, what a line left in the buffer |
| bucket sorts `multi_thread_sort` | splitters, bounds, buckets, threads | read, split, distribute, sort | boundaries, places that do not suffice |
| JSON writer `json_writer/version_1_1` | stack of open containers | begin, end, key, value | commas and keys in any nesting |
| JSON formatter `jsonFormatter` | position, quote state | copy without blanks | escaped quotes, signed characters |
| Snake `smart_snake/version_2`, `flappybird` | body and direction; bird, walls, screen | moves, keys, timer signal | keys between moves, a handler anywhere in main |

How they interact: in the HTTP server one thread runs the event loop; it calls the timers
(`timer.c`) before and after `epoll_wait`, the timers call back into `st_http_close_conn`, and
`do_request` calls the parsers (`http_parse.c`) on the connection's ring buffer. The heap
(`priority_queue.c`) holds the timers' nodes. The thread pool was meant to run `do_request`. The
chat and game servers relay messages among client connections; the FTP client and server talk over
two connections in lock step. The other programs stand alone.

What makes each part correct, in a line each:

- timers' heap: stays a heap inside its array through growth, shrinking and failed allocation; the
  root is a least element.
- event loop: one timer per request and one request per connection, no use of freed memory, no
  lost readiness, every connection closed in the end and none closed on another's account.
- parsers: however the bytes are cut, each request is answered once, from its own headers.
- thread pool: nobody sleeps through a shutdown, workers exclude each other, accepted tasks are run.
- `rio.c`: the bytes the caller gets are the bytes of the stream, once each and in order.
- relay server: the table, the watched descriptors and the loop bounds agree; everybody is read and
  written to; it ends only when all have left.
- FTP: the two ends stay at the same place of the protocol; what is transferred is complete; only a
  client whose last name and password begin those of one account is served; commands and children end.
- chat rooms: what is said reaches those it is meant for, complete and in order, under its speaker's name.
- 2048 game: the count of free cells is right, no number passes the winning one unseen, the best score is kept.
- bucket sorts: the places counted for a bucket are those it fills; what comes out is what went in, sorted.
- JSON: what is written is well formed whatever the nesting; only blanks outside of strings go.
- echo: a client gets its own line. Snake: one piece that does not bite itself. Flappy Bird: the
  bird that flies on is in no wall.

## 2. Modules

| module | models | checked by |
|---|---|---|
| `PriorityQueue` | `priority_queue.c`; implements `OrderedPool`, the abstract queue | `heap` |
| `HttpServer` | `server.c` (main loop), `http.c` (`do_request`), `timer.c`, `http_request.c`, `epoll_wrapper.c`; takes from the heap only what `OrderedPool` promises, from the parsers only their outcomes (`Pieces`) | `http_clients`, `http_ends` |
| `HttpParse` | `http_parse.c`, the headers and answers of `http.c` and `http_request.c` for one connection | `programs` |
| `ServerStart` | `server.c` up to the loop, `util.c` | `programs` |
| `ThreadPool` | `threadpool.c`, `threadpool.h` | `pool`, `pool_wakes` |
| `Rio` | `rio.c` | `rio_calls` |
| `SelectRelay` | 2048's `server.c` | `relay` |
| `FtpService` | `ftp_serve.c`, `ftp_client.c`, `common.c` | `ftp`, `ftp_port` |
| `FtpSample`, `FtpLibrary` | the sample's client and child; `THFTPAPI.c` against its server | `programs` |
| `ThreadChat`, `ChatClient` | server and client of `chatroom/chat` | `chat_rooms` |
| `EpollChat`, `SelectChat`, `LinuxChat` | the other rooms, each with server and client | `chat_rooms`, `epoll_chat` |
| `Game2048` | `game.c` and the threads of `client.c` | `programs` |
| `BucketSort`, `FixedBuckets` | the sort by splitters; the two with fixed buckets | `programs` |
| `JsonWriter`, `JsonFormatter`, `EchoServer`, `SmartSnake`, `FlappyBird` | the programs of those names | `programs` |

`MC_*` modules give the constants values for TLC; `*_proofs` modules hold the theorems.
`MC_ChatRooms` and `MC_Programs` instantiate several specifications on common variables:
`program` says which of them a behaviour belongs to, and never changes. This keeps independent small
state spaces in one run; nothing is composed by it, and each property speaks of one program. Where one specification
has fewer variables than the largest, the rest are 0. Their constants are given in the `.cfg`, so that what is proved of the
programs is proved for every value of them that `RoomsAssumption` and `ProgramsAssumption` allow. `MC_FtpService` extends `FtpService` and adds `program` only to say
how much its clients do in a behaviour: both of them come and give one command each, or one comes and does everything.

## 3. How the modules correspond to the code

`PROJECT.json` maps every definition to its lines. What is common to all modules:

- A C function is one action as long as nobody else can act, or be acted on, in a way that could be
  noticed; it is cut where it may block, where it touches something shared without protection, and
  at each iteration of a loop whose middle can be observed. `pc` says where a thread or a process
  is; its values name the place in the function.
- The kernel is modelled by what the code sees of it: backlog, descriptor table with the lowest free
  number, what `read`, `recv` and `send` return, resets, SIGPIPE, epoll's ready list.
- Undefined behaviour is not given a meaning. `HttpServer` sets `crash` at the first use of freed memory
  and claims nothing afterwards; in `ThreadPool` every access made without the mutex is a step of its
  own, reads apart from writes; in `FtpService` a password read from no memory may be right or wrong.
- What users do and memory offers is bounded by constants: `MaxSend`, `Addr`, and in `HttpServer` also `Node`, the
  timers' nodes, which are allotted as long as some are left (deleted timers keep theirs until they expire).
- A definition `X_y` is a deliberately wrong form of `X`, which stands after it. No specification uses
  it: it is there to see the properties fail on a plausible error.
- Data are reduced to what matters: a request is one of six kinds of bytes, a file is its number of
  blocks, of a word typed at a login only counts which accounts' names and passwords it begins.

`PriorityQueue`. `Insert`, `DelMin` and their loops `Swim`, `Sink`; `Resize` may fail at will. Between calls
`pc` is idle. `OrderedPool` has only `Insert` and `RemoveLeast`; the refinement maps its set to the
cells in use (`Held`), and every step of a loop to a stutter.

`HttpServer`. `pc` walks through `main`: `find` and `wait` (`st_find_timer`, `epoll_wait`), `expire`
(`st_handle_expire_timers`), `events`, `accept`, `request` (`do_request`). Clients connect, send, shut down
or reset and the clock ticks between any two steps. Requests are addresses that `malloc` hands out
again, so that a pointer that outlives its request is visible.

`ThreadPool`. One `pc` per thread. An adder links its task and reads and writes `queue_size` in three steps (`AddMalloc`, `AddLink`, `AddCount`), a worker
takes one in as many (`WorkerTake`, `WorkerUnlink`, `WorkerUncount`). The mutex stays with whoever forgets to release it, also with a
caller that has returned (`threadpool_add_worker`) or a worker that has exited.

`Rio`. `stream` is what the peer will have sent, cut anywhere by `Arrive`; `got` is what the calls have
returned, with the value of each call (`LineValue` is the one that `rio_read_lineb` gives). A read may fail, and
the peer may reset. The socket is blocking or not for the whole of a behaviour.

`SelectRelay`. `Select`, `Accept`, `Terminal`, then one step per descriptor of `handle`. `i` is the loop's
index; the variables with C names are the server's.

`FtpService`. A client and its child are the two ends of a control connection; `in` holds what an
end has not received. `Send` has send's three outcomes after the peer has gone. A data connection is named by the
child that opens it and the number of the command (`Conn`), for a client may still hold one whose child has gone on to the next;
`data` holds the connections, `queue` and `sock` the client's listening and accepted sockets. `tmp` is `tmp.txt`, whose
blocks may be missing where another shell emptied the file below a running `ls`. The server compares as many characters as
the client gave (`strncmp` over the length of the given word): `NameFront` and `PassFront` give the accounts that a word begins, all of them for the empty one.

`ThreadChat` and `ChatClient`. A step reads or writes one pointer of a shared list, and a pointer that the code reads twice in
turn is read twice: a loop sends to `p->next` (`SendNext`) and then follows `p->next` (`MoveOn`); `userlist_del` finds the node
before the user's (`Find`), reads its pointer (`Take`), reads it again and the one behind (`After`), writes (`Cut`) and frees (`Free`). Only the search for
a user reads all it needs at once, and what a listing says is left out. Who is in the server's list is whom the links
lead to from its head (`Behind`). `course` is what the clients will do in one behaviour: who comes, how much is said, how many
leave, and whether that is orderly (all are registered, enter, and leave with a farewell when all have come). It is a bound that varies. A node that is freed may be
read, keep its content, or end the program. `steady` says of a loop that no pointer was written that it had still to follow (`Ahead`).
`crossed` records that a pointer was written from what had changed since it was read, or that main accepted before a thread had copied `client_fd`;
the properties speak of the behaviours before that.

`EpollChat`, `SelectChat`, `LinuxChat`. One event, one slot of the loop or one message is a step. `missed`, `burst`
and `misled` are history variables by which a property excuses what the code is known to do (bursts on an edge-triggered
socket, a quit that hides data, a client that took over another's name). `usage` of `LinuxChat` is a bound that varies, as `course` is.

`HttpParse`. `stream` is what the client has sent, a letter for a run of like characters, and `last` how much of
it has been read: `Read` may take any piece. `cut` is set when a piece ends within headers, after which the parser's
local pointers are lost.

`Game2048`. `board` is moved by a fold over rows and columns; `main` and `thread` are the two threads' places in the
end of the game; SIGINT may come at any place of `main` (`caught`: its handler runs, and does not return), and `fopen` may fail. `BucketSort` and `FixedBuckets` compute what a loop that nobody observes computes in one step,
thread by thread. `JsonWriter`'s text is a sequence of tokens and its property a recogniser of JSON; a value is given with what `operator<<`
makes of it, a number or else a bare character or `nan`.
`EchoServer` keeps the buffer's old content, by which a line without its end is answered. `FlappyBird` has a step for
each call of `main` to curses and one for the handler, which may run between any two; `stray` records that a bird was drawn or erased where it was not. In `FtpSample` and
`FtpLibrary` a reply is only its number, as it is for the code. In `FtpSample` other clients of the host may hold the port or have children that
connect to it (`MaxOther` bounds them). In `FtpLibrary` a reply arrives whole or in two pieces, and a failing `read` or `recv` ends the loop it is in (`short`).

## 4. Runs

| run | instance | shows |
|---|---|---|
| `heap` | 7 items with ties, array from 2 cells to 8 and back | bounds, least root, refinement of `OrderedPool` |
| `http_clients` | 2 connections, 2 numbers, 2 sends each, 3 kinds of request, buffer of 2 | timers, registrations, readiness, buffer, closing on one's own account |
| `http_ends` | 2 connections, 1 number | every accepted connection is closed |
| `pool` | up to 2 workers, 2 callers that both add and destroy, 2 tasks | no sleep after shutdown, exclusion, `queue_size` counts the list and no task runs twice, destroy returns |
| `pool_wakes` | 2 workers, 1 task | violated: an accepted task is never run |
| `rio_calls` | 3 streams, calls of 1 and 4 bytes, buffer of 2, both modes | no byte lost, lines, short counts, the value of each call, calls return |
| `relay` | 3 clients, 2 numbers, 3 slots, 1 message each, operator | table, watched set, relay, everything is read in the end |
| `ftp` | 2 clients of one host with 1 command each; 1 client with 2 attempts, 3 commands, mute words; files of 1, 2 and no blocks | protocol in step, transfers whole, progress |
| `ftp_port` | 2 clients of one host | violated: a client's data come from another's child |
| `chat_rooms` | the chat rooms, 2 or 3 clients each | walks, lists, queues, events, relay, names |
| `epoll_chat` | 2 clients of the epoll room | violated: what is sent is not broadcast |
| `programs` | the other programs, each on all its small inputs | one property for each |

Why the bounds suffice. Seven items fill three levels, so that a sink meets all of: two children,
one child, none; ties are there because `comp` is strict. In `http_clients` each client sends twice, so
that a request is followed by another on the same connection (deletion of one timer, a new one) while the
other client's timer runs out; a buffer of two pieces overflows at the first error of one. Descriptor
and heap addresses are few enough that they are used again. Two workers and two callers make all
pairs of critical sections meet. Streams are longer than the buffer, and the buffer is longer than
the smallest call. Three relay clients are the fewest for which "all the others" differs from "the
other". With four connections for two numbers both numbers and slots are used again. For FTP two
children are what a race on `tmp.txt` and on the port takes, and they may meet at any point of a command; three commands in a row would show a reply
left over from the first; a file of two blocks takes the send loop round again, a listing is one block. In the chat rooms a walk
takes a user before, at and behind it: all three clients come and two leave in good order, or one leaves at any time, or one speaks; or two come,
speak twice and leave. Two deletions and a deletion beside a link need no more. In the linux_client room three clients use all commands, or two mute each other
and send more. Tables of two slots are filled and
overrun. The other programs are small functions of small inputs, and their bounds are those at which every branch
of the code is taken: a 2 by 2 board that wins at 8 and a row of four cells, requests of every line and header outcome cut anywhere, arrays of up to five
numbers over all values and one of nine that fills three threads, texts of five characters, lines up to and past the buffer, a
configuration of up to four lines, a snake of six cells on a 4 by 4 field, three walls. `MaxSend`, `MaxCmd`,
`MaxCall`, `MaxReq` and their like, and the set `Task`, bound what users do; the code itself does not.

`CHECK_DEADLOCK FALSE` is set where the system may really stop: when all clients have left, all threads
have ended, the server has ended or died. The heap never stops, and the small programs end in a step of
their own (`Over`, or the like); both runs are checked for deadlock. Symmetry is
used only in runs without liveness properties, over connections, addresses, workers, tasks or clients,
which the specifications never tell apart.

Fairness is that of the code's scheduler and no more: the event loop's thread runs and time passes
(`HttpServer`), a thread that can run does and one that wants a mutex that is released again and again gets it
(`ThreadPool`, strong fairness of the lock), bytes under way arrive and a peer closes in the end
(`Rio`, needed for calls that would wait for input for ever), the server process runs
(`SelectRelay`), some process of the service runs whenever one can and resets arrive (`FtpService`).
Users and clients are never obliged to do anything. The chat rooms and the small
programs have safety properties only, and no fairness.

## 5. Findings

- `threadpool_add_worker` returns with the mutex held (`threadpool.c:131`), so that no accepted task is ever
  run (run `pool_wakes`). The pool is compiled out of the server.
- With two FTP clients on one host a client may receive another's transfer (`ftp_serve.c:147`, run
  `ftp_port`): both listen on port 30001, the second `bind` fails, and `ftp_client_open_conn` acknowledges all
  the same.
- In the epoll chat room nothing is broadcast (`utility.h:88`, run `epoll_chat`): `clients_list` is never filled.

Seen while modelling, and stated as limits of properties rather than as findings with a run of their own. Of the first
group a comment or the place itself says that it is meant otherwise:

- `rio_read_lineb` returns one more than the bytes of a line that ends without a newline or fills the buffer (`rio.c:171`);
  `LineValue` states the value as it is.
- FTP service: any beginning of a name with any beginning of its password logs in, the empty ones too (`ftp_serve.c:193`).
- FTP sample: as in version 3, the child of another client of the host may connect to this client's port (`ftserve.c:156`), and
  the client takes the foreign file for its own. `TransfersRight` claims the whole file only over the client's own child's connection.
- FTP library: a `read` or `recv` that fails is taken for the end of the data, and a transfer that was cut short returns 0
  (`THFTPAPI.c:382`, `:447`); the rest of a reply that arrived in pieces, a late reply, or two at once, are taken for the answers to later commands.
- JSON writer: `int8_t` and `uint8_t` are written as bare characters, `nan` and infinities as words, so that the text is no
  JSON (`json_writer.hpp:122`, `:136`). `WellFormed` takes each of them for a number.
- Flappy Bird: the bird that meets a wall's last column flies on, as `inch()` after `addch` reads the cell behind (`func.c:38`, `:197`);
  and where the timer's handler runs in between, what is drawn and tested may be the place of another bird (`stray`).
- 2048: a signal between `fopen` and the write leaves an empty best score (`game.c:489`).

The rest no document promises otherwise, or it is outside of what a property claims:

- HTTP server: a reset leaves the connection's timer behind, which may close another client's descriptor
  (`server.c:188`; isolation and `ClosedOnlyWhenIdle` hold only without resets). After an error the headers stay on the
  list (`http.c:119`). The configuration's buffer is never counted down, `server.conf` says `threadnum` where the
  code reads `thread_num`, and `server.c:89` logs an
  error when reading it succeeded; a bad configuration does not keep the server from starting, without a root.
- Thread pool: with two workers `threadpool_destroy` never returns (`threadpool.c:231`; `DestroyReturns` is claimed for
  one); with two refused tasks `queue_size` drifts.
- `rio_write_n` reports failure at EAGAIN after part of the bytes went out, and `http.c:221` ignores it.
- Relay: `currentClients` counts every slot ever filled and is never lowered (`server.c:45`, `167`); a client beyond
  the table's end, in time, ends the server's memory safety.
- Chat rooms: in `chat_select` a write to a client that has ended may end the server (SIGPIPE), as in the other rooms; in
  `linux_client` a muted user's slot stays muted for the next client (`server.c:191`), and a reply that answers no offer
  ends the client that sent it (`tcp_client.c:178`);
  a message for the empty name goes to a client that has not logged in.
- 2048: a win does not save the best score; a key that moves nothing on a full board ends the game though
  a move is left. `moveLeft` joins only neighbours, the other three moves join over free cells (`game.c:269`).
- JSON writer: control characters without an escape of their own are written as they are. JSON formatter: an escaped quote
  ends a string, characters above 127 are dropped or end the text; the second
  version's result buffer has no room for the terminating 0 when nothing is removed (`getStringSecond.c`).
- Echo: the client of version 3 goes on to print its own line once the server has closed; for a line
  without its end `rio_read_lineb` counts one byte too many, which is echoed too.
- Snake: two keys between two moves reverse it into itself. Flappy Bird: after 50 walls the timer's interval is 0.

## 6. Proofs

Each theorem holds for all values of the constants that satisfy the module's named assumptions.

`PriorityQueue_proofs` (assumptions: keys and the initial size are naturals). The inductive invariant is
`TypeOK /\ CurInv /\ InBounds /\ NoDuplicates /\ HeapOrder`, where `HeapOrder` speaks of the loops: during a swim
the order may fail only between `cur` and its parent, during a sink only between `cur` and its children,
and the grandparent bounds the grandchildren. From it follow `TypeCorrect`, `AlwaysInBounds`,
`NeverDuplicated`, `ResizeAlwaysFits`, and, as a root is least in a heap (`HeapRootLeast`), `RootAlwaysLeast` and the
refinement `HeapImplementsPool`. That a root is least needs a least counterexample; it is taken from the
well-ordering of the naturals, without induction over data.

`ThreadPool_proofs` (assumptions: `ThreadAssumption`). `Exclusion` and `NoSleepAfterShutdown` are not
inductive: the first needs that every thread in a critical place holds the mutex (`HoldersHold`),
though others may hold it elsewhere; the second needs the first, as the broadcast and the test are
both made under the mutex. `AlwaysCounted` needs what each thread that works on the list knows of it and of its count (`AddersKnow`, `TakersKnow`,
`ListKnown`), and that no two of them are there at once (`Accepted`: whoever has added a task keeps the mutex). It claims nothing once two tasks were refused, as a
refused task, too, is linked and counted, after the workers were told to end.

`SelectRelay_proofs` (assumptions: `NumbersAssumption`). The table's part of the invariant, `TableInv`, says
that the slots taken are exactly those of open descriptors (`OneSlotEach`), that a number belongs to one client
(`Owners`), that a taken slot's id is at most `clientIndex` and its descriptor at most `maxfd` (`Bounded`), and that both
loops reach every taken slot (`SlotsCounted`, `SlotsScanned`); a free number implies a free slot by
counting (`Room`). `Reading` says what `rset` still promises during `handle`. Together they give `AllAreWritten`,
`AllAreRead`, `TableIsRight`, `NeverTooMany`, their conjunction `TableAlwaysRight`, and `NeverBlocksInRead`.

`ChatRooms_proofs` (assumptions: `RoomsAssumption`: finitely many clients, natural bounds, `Nil` neither a client nor a number,
`Ulist` and `Main` no clients, the listening socket no client's, the administrator and `Nil` no users). Each theorem is about one program of the run; the two steps that no program shares, `Init` and a step of another one, are the
same for all.
- Select room, `EveryoneAlwaysGetsIt`. The older server has no bound on its loops but a count that never falls and the highest
  descriptor so far. `SelectInv` says that slot `i` always holds descriptor `ListenFd + 1 + i` (`SlotsMatch`), as
  the first free slot and the lowest free descriptor are taken together; that used slots lie below both limits
  (`SelectCovered`); that whoever has a descriptor has a slot (`AllHaveSlots`); and that nobody waits to be accepted twice or
  with a descriptor (`Waiting`). `NextBelongs` is the step that needs counting.
  That slots and descriptors match rests on the model's `Fd`: nothing else in the process opens or closes descriptors.
- epoll room, `NothingEverStranded`. `EpollInv`: the server waits only when all reported events are handled, and the listening socket is reported only while a
  connection waits (`Handled`); what can be read has an event that was not reported yet or one that is still to be handled, unless more came
  for an event than the server takes (`Remembered`).
- Client of the threaded room, `AlwaysInOrder`. `ClientInv` gives, for a queue whose threads did not meet in the last node (`Good`), the chain from
  the dummy through the nodes that were linked and not yet taken (`ChainRight`), what the rear pointer is at each place of
  `EnQueue` and `DeQueue` (`RearRight`), which nodes were freed (`GoneRight`), and how many have been entered and
  taken (`Counted`). The threads need no lock because the consumer resets the rear only when it has taken the node the rear was at,
  and the producer reads the rear once; `crossed` is exactly the one interleaving where that fails.
- Server of the threaded room, `AlwaysReachesAll` and `AlwaysKeepsUsers`, from one invariant `ListInv`. The list never has a cycle, freed nodes
  included (`Ranks`): some function to the naturals falls along the links, along those that a `userlist_del` is about to write
  (`Descends`), however old what it has read is, and from what a counting loop has passed to where it is (`Descended`). So what is behind a node is one user and what is
  behind that (`BehindNext`, `NextCount`), two nodes of the list never have the same next one (`OneBefore`), cutting a node out takes just that one from the list (`TakenOut`),
  and linking one in adds just that one (`NewNode`, `OneMore`). Nothing leads to a newcomer until it is linked in (`Newcomers`, `Fresh`).
  A loop that nobody disturbs has counted a first part of the list, with the rest behind it (`Counting`), and then has as many
  sends left as there are users behind it, to whom it owes the data (`Going`; `Moving` between the send and the step that follows). Whoever writes a pointer either writes one that a loop
  has still to follow, and ends its `steady`, or leaves this as it is (`CountsOn`, `GoesOn`, `ListWrite`). While all are there a loop never has more
  sends left than users behind it (`Fits`, `Short`), which with `Calm` (nothing freed, nobody being taken out) is why the server does not end by itself. `Kept` adds to
  `UsersKept` that only threads of clients that are gone take anybody out, and what main knows between linking a user in and starting its thread.

`Programs_proofs` (assumptions: `ProgramsAssumption`: sizes are naturals, lines are sequences, a line that `fgets` returns is shorter than its
buffer and has a newline at most at its end). Five of the small programs, each for every value of its constants:
- Start of the HTTP server, `RootAlwaysKept`. `StartInv`: the last line for root that was read is where `root` points, below `current_pos`,
  behind which later lines go (`Points`). `RootKept` alone does not say where the rest of the buffer begins.
- Snake, `AlwaysOnePiece`. `SnakeInv` adds that the place that eating has added is not yet one of the parts, and that two parts next to
  each other are one place apart; that the new head is on none of the parts is what `BreakGame` tests before the next move.
- FTP sample, `AlwaysTransfersRight`. `FtpInv` says of every place of the client where the child can be and what is under way between them, or,
  when the child was killed, what it may have said before (`FtpLogin`, `FtpAsking`, `FtpReplies`), and that the blocks received and those still in the connection are
  the first of the file, all of them when 226 is said (`FtpBlocks`), unless another client's child is at this one's port. Nothing is claimed of a client that is gone.
- FTP library, `AlwaysTellsTrue`. `LibInv`: as long as no reply was lost and the server is there, one command or the answer to
  it is under way, and what was written and read of the data fits the replies (`LibPlaces`, `LibMoved`). A transfer's two replies
  carry the command they answer only in the model. A reply that is late, left over or taken in pieces ends the claim, and so does, for the data, a loop that an error ended (`short`), as in the property.
- Echo server, `AlwaysEchoesOwn`. `EchoInv` follows each client from its first line to the answer: before the server has read, the line is as it was
  sent; while it is served the buffer's front is that line as far as it will be echoed; afterwards nothing touches either
  (`EchoClientInv`); a connection waits once and only while it has not been served (`EchoListen`). In version 1 this needs that the buffer is all 0 between two clients.

`HttpServer_proofs` (assumptions: `BoundsAssumption`). The inductive invariant has two parts, since after the first use of freed
memory the model claims nothing: `TypeOK`, `BufferFits` and `TimersFindLive` always hold, `Sound` until `crash` is
set. `Sound` says that a live request has a number and a timer and a freed one nothing (`HeapRight`), that
what epoll holds for a number belongs to an open connection and to the request of that number (`RegMatches`), that a number is one connection's
(`TableMatches`), that a round takes all its events (`EventsTaken`), and that a number the loop will not come to by itself is armed
with nothing to read (`InputSeen`), which is why one-shot, edge-triggered interest loses nothing. `Paired`, requests and open
connections one to one, holds until a client resets. From it follow `RecordsAlwaysAgree`, `NothingEverLost`, `BufferAlwaysFits`, and
the action property `OnlyIdleClosed`. `NoLostConnection` has the hypothesis `NumbersSuffice`: with fewer numbers than clients
`accept` fails with EMFILE, the loop goes back to sleep, and the edge has passed. `RecordsAgree` includes the type invariant.

`Rio_proofs` (assumptions: `SizeAssumption`). `ReadsRight` is almost inductive; added are what a call in progress has of its own: how
many bytes of a line it has copied and that none of them was a newline (`LineSoFar`), and that `rio_read_n`, which bypasses the buffer, begins at an empty one
(`PlainAtEmpty`). Each action keeps the concatenation of what was returned, what the call holds, what is in the buffer and
what is in the socket; the lemmas before the actions regroup it. The value of a line call is that of `LineValue` over what was copied, and
an error or a reset ends a call where it is, with the bytes it holds. The theorem is `ReadsAlwaysRight`.

`SelectRelay_proofs`, second half: `Relays`. A message that a client was written is found at the place that the number of the others'
messages since it was accepted gives (`Written`), so that order and completeness are one equation; `Records` adds that an open
client has a number, by which the table's part of the proof shows that the writing loop comes to it. The theorem is `RelaysForEver`.

`FtpService_proofs` (assumptions: `BoundsAssumption`). `Synchronised` is a conjunction of three things that no step
keeps by itself. The invariant `SyncInv` names, for a client and a child that are both alive, the pairs of places they can be at
with what is then on its way between them (`Together`: the login, a refusal, and, once logged in, each place of a command), what a client may
find whose child has died (`ClientLeft`) and a child whose client has ended (`ChildLeft`), and that a reset is known only to an end
whose peer is gone. The lemmas `EndHears`, `EndSays` and `EndAnswers` say once what a step does to both ends. The theorem is `AlwaysSynchronised`.

Its second part, on top of this: `GotWhole`. `TransferInv` follows a command's data connection. Before the child connects it was never
used (`NewLinks`); then it waits at, or is held by, exactly the client it leads to, at most once (`Linked`); and if that is the child's own
client, the blocks received and those still in the connection are together the first blocks of the file, as many as the child has sent
(`Sent`, `Carried`). Here the client is the one that gave the command because of `SyncInv`, and a child cannot be killed by a connection whose
client is alive and has not closed it, so that a file's end is read only when all was sent. For listings `TmpRight` says that `tmp.txt` holds what `ls` has written so far and no
other `ls` runs, as long as the child is `alone`. What a step leaves to the other clients is stated once (`Elsewhere`, `OthersKept`). The theorem is `AlwaysGotWhole`.

The invariants that only serve the proofs (`HeapOrder`, `NoDuplicates`, `HoldersHold`, `TableInv`, `Records`, `Sound`, `LineSoFar`, `SyncInv`, `TransferInv`, and the
`Inv`s of `ChatRooms_proofs` and `Programs_proofs`) are not
checked again by runs. Type correctness is checked for the heap, the event loop and `Rio`, and proved, as part of
the inductive invariants, for these, the program counters of the pool and the relay server.

Only model-checked:
- liveness (`CommandEnds`, `ChildEnds`, those of the HTTP server, the pool, `Rio` and the relay), which needs fairness and ENABLED;
- properties of what folds or recursive functions compute, whose proof is an induction over data: the sorts (`SortsAll`, `KeepsAll`),
  JSON (`WellFormed`, `Compact`), 2048's moves (`GameSound`), and what the parser makes of a request (`AnswersMatch`);
- `RightNames` of the linux_client room, whose proof has not been written: it needs an invariant over every kind of message and each place of a client;
- `FliesFree` of Flappy Bird, which depends on what the screen keeps of characters written while the bird was outside of it.

`DataIsOwn` of the FTP service is false, as the run `ftp_port` shows.

## 7. What is not modelled

The components of `PROJECT.json` name the parts, with a reason for each group that is left out. In short: third-party code (`webbench`), trivial samples,
earlier versions of programs whose last version is modelled, and the interpreter (expression semantics, poorly
suited to TLC). Inside the modelled parts: `HttpServer` leaves out a failing `malloc` in the accept loop, and follows
an execution up to the first use of freed memory; the contents of responses are only their status and whether the connection is kept.
`SelectRelay` assumes that the descriptor limit is at most `FD_SETSIZE` and that writes find room; `FtpService`
receives and sends messages whole. Drawing, sound and wording are left out everywhere.
