# StiBel: a verification development

StiBel is a C++ code base of small network programs under `myprj/` (an epoll web
server with a thread pool and timers, a REST application built from the same
skeleton, a web server that answers through a ZeroMQ message bus, a FastCGI
application) and of study programs under `examples/`. This directory holds TLA+
models of that code, the TLC runs that check them and the TLAPS proofs about them.

Contents: 1 inventory, 2 plan, 3 the modules, 4 the runs, 5 fairness, 6 proofs,
7 what the code does not do, 8 only model-checked, 9 not modelled.

## 1. Inventory

### The web server (`myprj/webServer`), the core

| part | state | operations | talks to | correct when |
|---|---|---|---|---|
| `ThreadPool` | ring `queue`/`head`/`tail`/`count`, one mutex, one condition variable, `shutdown`, `started`, `thread_count` | `threadpool_create`, `threadpool_add`, worker loop `threadpool_thread`, `threadpool_destroy`, `threadpool_free` | the main loop adds requests; workers run `myHandler` on them | every accepted task runs exactly once, in order, no wakeup is lost, a shutdown ends |
| `Epoll` | `fd2req[]` (descriptor to request), the kernel's interest list | `epoll_add/mod/del`, `my_epoll_wait`, `getEventsRequest`, `acceptConnection` | main thread; workers call `epoll_mod` and `add_timer` | one thread handles a connection at a time, no descriptor leaks, no event is lost |
| `Timer` | a heap of `TimerNode`s (deadline, deleted flag, request), one mutex | `addTimer`, `handleExpiredEvent`, `seperateTimer`/`clearReq`, the node's destructor | main thread and workers | a connection is closed at its own deadline, neither earlier nor never |
| `RequestData` | the parser state (`state`, `h_state`, `inBuffer`, `now_read_pos`), `events`, `keep_alive`, `error`, weak pointer to its timer | `handleRead`, `handleWrite`, `handleConn`, `reset`, the parsers | `Epoll`, `Timer`, sockets | a request is parsed as sent, wherever TCP cuts it, and answered at its last byte |
| `Server`/`main` | start-up | constructor aborts on any failure, loops on `my_epoll_wait(-1)` | everything | |
| `CGImysql/sign.cpp` | the MySQL table `user` | register, log in, one process per request | spawned by `RequestData` | a name is registered once, who is let in has an account |

The hard parts: one request is referenced by `fd2req`, by its timer, by the pool's
queue, by the main thread's event vector and by a worker, and lives exactly as
long as one of them keeps it; workers re-arm descriptors while the main thread
expires timers of the same connection; the pool refuses work when it is full; the
kernel may refuse an `epoll_ctl`; TCP cuts the request wherever it likes, and the
parser must resume in the middle.

### The other programs

* `myprj/restfulApp`: the same skeleton (`Epoll`, `ThreadPool`, `Server` and `MyUtil`
  are byte-identical, `Timer` differs in layout) with another `RequestData`. It keeps
  JSON resources in the static map `rest_uri` that all workers share without a lock,
  and passes every answer through one file per method. A connection keeps the members
  of its last form (`m_paramsMap`) beside the parser's state. Correct when a collection
  behaves like items by id, a request is carried out as it was sent, and a client gets
  its own answer.
* `myprj/webServerTest`: the skeleton with log lines added. Its `RequestData` asks
  every url of a database service: `ZeroMqUtil` opens a REQ socket for one question,
  the proxy `rrBroker` (ROUTER in front, DEALER behind) passes it to one of the services
  `rrServer` (REP), which looks it up in MySQL. Correct when each client gets the answer
  to its own request, and when a service that is missing, late or dead stops nobody else.
* `myprj/webServerDemo`: an earlier state of the same, with printed messages.
* `myprj/fastcgiApp`: ten threads that accept FastCGI requests under one mutex,
  handlers for log-in, log-out, registration, upload and token on shared MySQL and Redis
  connections. Correct when the outcome of a query is read by the thread that made it.
* `examples/`: data structures (skip list, random array, sorts), design patterns,
  a finite state machine, library studies. Sequential but for the singletons.
* `DockerBuild`, `conf`, `cmake`, `guide`: no behaviour of the program.

`PROJECT.json` lists every component with its sources and status, and every hazard
at its line with the properties that cover it.

## 2. Plan

Done, in this order:

1. `TaskQueue` (abstract) and `ThreadPool` (detailed), with the refinement and the
   proofs: everything else runs on it.
2. `Timer`: the lazily deleting heap, with proofs.
3. `Reactor`: the event loop, composed with `TaskQueue` by INSTANCE and with the
   timers as `Timer` justifies them, with proofs.
4. `HttpRequest`: what a worker does with the bytes, with proofs.
5. `RestCollection` (abstract), `RestStore` (detailed) and `RestFront`, which composes
   the resources with the connections in front of them, with proofs.
6. `RequestReply` (abstract), `MessageBus` (detailed), and `FrontEnd`, which composes
   the abstract bus with connections, event loop, pool and parser; both with proofs.
7. `Accounts`: the two programs that keep accounts, with proofs.
8. `Singleton`, `Observer`, `UrlCodec`, `Sorts` and `SkipList`, with proofs.

Every invariant, action property and refinement the passing runs check has a theorem;
what is left to TLC is liveness (section 8).

## 3. The modules

In every module a definition `X_Y` that stands before a definition `X` is a wrong
version of `X`, the bug a property is expected to notice; `PROJECT.json` pairs them
under "mutants". No specification uses them. `TypeOK`, where no run or theorem names
it, documents what the variables hold.

### TaskQueue and ThreadPool

`ThreadPool` has the pool's variables under their own names (`queue`, `head`, `tail`,
`count`, `shutdown`, `started`, `thread_count`), a program counter per worker
(`none`, `lock`, `wait`, `run`, `exited`), and `caller`, the place of the
thread that owns the pool. What runs between locking and unlocking the mutex is one
action; waiting for the mutex, sleeping and running a task are states. So
`Add` is `threadpool_add`, `Wait`/`TakeTask`/`Exit` are the three ways through the
critical section of `threadpool_thread`, `SpuriousWakeup` is what
`pthread_cond_wait` may do, `Destroy`, `Join`, `Free` are the parts of
`threadpool_destroy` and `threadpool_free`, and `DestroyAgain` is the second
`threadpool_destroy`, which returns with the mutex held. `outstanding` is a history
variable: tasks accepted whose handler has not returned.

`TaskQueue` is what users of the pool rely on: a bounded FIFO of tasks, workers that
run one at a time, two kinds of shutdown. `Reactor` uses its `Submit`, `Take`,
`Finish`.

### Timer

A node is an element of `Node`; `heap`, `left` (time until the deadline),
`deleted` and `req` are its fields, `link` is the request's weak pointer, `held`
the local `shared_ptr` of `addTimer` between its push (under the mutex) and its link
(after it). A sweep is `StartSweep`, `Pop`s, `EndSweep`; pushes wait for it, links do
not. `stage` reduces a connection to what timers depend on: closed, watched, served.

### Reactor

One record of state per descriptor: `open`, `slot` (`fd2req[fd]` is set), `node`
and `expired` (its timer), `interest` (the kernel's entry: absent, off after
ONESHOT, in, out), `flags` (RequestData's `events` and `keep_alive`), `conn` (what
the client did). The main thread's `mpc` goes wait, events, submit, expire (and
reset, inside a node's destructor); a worker's `wpc` goes handle, push, link, store,
ctl, undo, free, each step being one access to something shared. The last reference
to go closes the descriptor (`Held`, `Release`): `fd2req`, the timer, the event
vector, the queue, a worker. Timers keep one node per connection because `Timer`
proves (`LinkedNodeIsTheOnlyOne`) that no other counts. The pool is `TaskQueue`,
which `ThreadPool` is proved to implement.

### HttpRequest

One connection: the client sends requests, TCP delivers segments, `Read` is
`handleRead` with its stages falling through in one call, `Step` is one turn of
`parseHeaders`' loop and `Scanned[buf][i]` its state after `i` of them, `Write` is
`handleWrite`. A token stands for a piece of text the parser never looks into;
separators are tokens of their own, and what a client may send is `Wellformed`: at
least one header line, names and values that are no separators, a Content-Length that
is a number and, for a form, the length of its body. Positions that
`parseHeaders` declares anew in every call are 0 (unset) at its start, and a text that
begins at an unset position gets the byte before the buffer (`"?"`).

### RestCollection, RestStore and RestFront

`RestStore` has `rest_uri`, one entry per answer file and a program counter per
worker. A step is one scan of the map, one change of it, or one use of the file:
`Get`, `Scan`, `Post`, `Put`, `Copy`, `Store` are the parts of the four
`analysis...Request` functions, `OpenFile`, `WriteFile`, `Reply` what every answer goes
through. `RestCollection` is the promise: items by id, each request one operation on
one item.

`RestFront` extends it with the connections. A request travels as its line, its
header and the members of its form; `coming` is what is on its way, and a segment may
end after any part but the header (`MayEnd`). `conn[w]` is the connection's `RequestData`: the parser's
`state`, `inBuffer`, what it has read of the request, `m_paramsMap`, `keep_alive`, and
`out` (EPOLLOUT is armed). `analysisRequest` begins the work of `RestStore` with what
the parser read, and `GivenIsAsked` compares that with what the client sent.

### RequestReply, MessageBus and FrontEnd

`RequestReply` is what a worker sees of `ZeroMqUtil::sendZeroMqMessage`: it asks, it is
served, it receives. `MessageBus` is what is behind: a message, with the worker its
identity frame names, goes from place to place. `Poll`, `FrontRecv`, `BackSend`,
`BackForward` are the proxy's loop, where `BackSend` blocks while no service is
connected; `Connect`, `ConnMySql`, `Recv`, `Reply`, `NullMySql` are a service from
`init()` to the null pointer that a failed `connMySql` leaves; `Crash` is its end at any
moment, after which it may start again.

`FrontEnd` is the web server in front of it, composed with `RequestReply` (never with
`MessageBus`: that one implements the other is checked and proved apart). A handler
from one read to its `handleConn` is one step except where it blocks on the bus:
`Analyse` asks, `Return` comes back with the answer. The event loop is one event and
the timers due per turn, the pool a bounded queue that refuses. What these leave out
is what `Reactor`, `ThreadPool`, `Timer` and `HttpRequest` take apart.

### Accounts

`program` says which of the two programs runs; both keep accounts in a table `user`
that has no key. A CGI process copies the whole table (`Select`) and decides
(`CgiLogin`, `CgiRegister`) from its copy. A FastCGI thread takes the accept mutex
(`Lock`, `Accept`), sets the token (`SetToken`), makes its query on the connection all
threads share (`QueryInsert`, `QuerySelect`) and reads the outcome back from that
connection in a step of its own (`Registered`, `LoggedIn`): `rows` is the outcome of
the last query, whose ever it was. Redis forgets tokens (`Expire`).

### The examples

`Loops` is the one operator `After(a, k, step)`: what k turns of a loop make of a.
`SkipList`: the levels from the bottom, a tower's nodes joined by an id, the coin any
height; the walks of `insert` and `searchNode` are loops over the levels, `Right` as far
as a level goes and `Down` one level, and `remove` is the loop of `delNode` down a tower.
`Sorts`: the seven sorts as loops on arrays indexed from 0, as the code does, against
"sorted, and the same elements"; `mergeSort` and `quickSort` are recursive functions, and
the latter gives every outcome the drawn pivots allow. `UrlCodec`: `UrlEncode` and
`UrlDecode` as their loops, a turn after the other. `Singleton`: the two looks of
double-checked locking as steps of any number of callers. `Observer`: attach, tell,
detach, and the destructor that deletes the subject. `MCExamples` runs them side by
side: one behaviour is one program.

## 4. The runs

| run | instance | what it shows |
|---|---|---|
| `thread_pool` | 4 tasks, rings of 1 to 3 slots, 1 to 3 threads, arguments out of range, thread creation may fail; 15940 states | the ring is one window of tasks and empty elsewhere; tasks run exactly once; no wakeup is lost; joins leave no thread; a graceful shutdown drains; the pool implements `TaskQueue`; accepted tasks are served and shutdowns end |
| `timer` | 2 connections, 3 nodes, 3 timeouts; 30016 states | only the linked node can close a connection, only at its deadline, a sweep skips no expired node, deleted nodes leave, expired connections are closed |
| `reactor` | 2 descriptors, 1 worker, queue of 1, `epoll_ctl` may refuse; 2.2 million states | no timer on a served connection; what is armed is in `fd2req` and has a timer |
| `reactor_live` | 1 descriptor, 2 workers; 70683 states | one owner, no leaked descriptor, received data is read, a reset connection is closed |
| `http` | up to 3 requests of 10 kinds, good and bad; 1483 states | parsed as sent, answered at the last byte, refused only for cause, nothing left over from the previous request |
| `rest` | 2 connections, 2 ids, 2 values, every verb, refused requests, careful clients; 259854 states | ids are unique, a POST stores its item, what is carried out is what was asked, a request read to its end is served, and the map implements `RestCollection` |
| `message_bus` | 2 workers, 2 services, 2 kinds of url, 1 crash; 19418 states | no message is lost or doubled by the bus, it implements `RequestReply`, and with one service that stays everybody gets an answer |
| `front_end` | 2 connections with up to 2 requests, 2 workers, queue of 1; 34893 states | a client gets the answers to its own requests in their order; every request is answered or its connection closed |
| `accounts` | 2 threads or processes, 1 name and a bad one, 2 passwords and a bad one, 2 rows, careful clients; 487620 states | who is let in has an account, and who has one is let in; the CGI program registers a name once |
| `examples` | skip list of 3 keys, 4 nodes, 3 levels; arrays of up to 4 of 3 values; texts of up to 3 of 7 bytes; 3 callers; 2 observers; 39528 states | search finds what is there; every sort sorts; decoding undoes encoding; one instance; every observer is told |
| `reactor_idle`, `rest_reply` | the smallest instance each | section 7 |

Why the bounds are enough. Three slots and four tasks let the ring wrap, fill and
refuse; ring sizes one and two are the edge cases of `head = tail`; three threads let
one sleep, one take and one finish. Three nodes let two connections have a linked,
a deleted and a fresh node at once; three timeouts keep the order of the program's
three constants. Two descriptors are the least with which one connection's event can
meet another's expiry, and descriptors are re-used; a queue of one is full with one
task and fails the rest of a batch. Two workers on one connection are the least that
could both own it; one descriptor is enough for the liveness properties because they
speak of one connection, but that a busy neighbour cannot starve it is not checked.
What `reactor` and `reactor_live` check in small is proved for any number. Three
requests let a long connection go through every pair of successive requests. Two ids
let an item be changed, deleted and posted again beside another. Two workers and two
services let an answer overtake another and a question wait for a service that is down
while another is up; one crash hits a message in each of the three places of a service,
and a service with a null `_mySql` dies without counting. Two requests on a long
connection are the least with which the first could leave something to the second.
Two threads let one's query fall between the other's query and its outcome. Four
elements are the least with which merging, partitioning and the heap have inner ends;
the seven bytes are the space, the plus, the percent sign, a digit, a letter of each
half of the hexadecimal ones and of none, and a byte above 127.

`Careful`, `Cuts`, `LastOnly`, `Pipelining`, `AddMayFail` and `MaxCrashes` choose what the
environment does. The passing runs give it the freedom the code copes with, section 7
says what happens beyond.

| constant | in | passing run | what it excludes there |
|---|---|---|---|
| `Cuts` | `HttpRequest` | `"safe"` | segments that end inside the header lines, or with the blank line |
| `Careful` | `RestStore`, `RestFront` | `TRUE` | a change beside another request, deleting the last item, a PUT in two segments |
| `Careful` | `Accounts` | `TRUE` | CGI: two registrations at once; FastCGI: two queries at once |
| `Pipelining` | `FrontEnd` | `FALSE` | a request sent before the previous one is answered |
| `LastOnly` | `Observer` | `TRUE` | destroying an observer while another lives |
| `AddMayFail` | `Reactor` | `TRUE`; `FALSE` for `NoLeak` | `epoll_add` failing |
| `MaxCrashes` | `MessageBus` | 1 | bounds the model only |

`CHECK_DEADLOCK FALSE` stands where the system ends or waits for nobody: a freed pool,
a closed connection, clients that have made all their requests, a program of the
examples that is done, a bus whose services nobody starts.

## 5. Fairness

* `ThreadPool`: while threads are ready, one of them gets the mutex (no thread in
  particular), a handler returns, the owner goes on with a creation or shutdown it
  began. Nothing obliges clients to add.
* `Timer`: the main loop comes back to the sweep (true while events arrive, see
  section 7), a sweep goes on, time passes.
* `Reactor`: the main thread runs; a queued task is taken by some worker; a handler
  goes on. Two strong assumptions: a worker that waits for the timer mutex gets it
  although the main thread takes it in every turn, and clients do not connect so fast
  that `accept` never reaches the end of the backlog. Nothing is assumed of clients
  or of time.
* `MessageBus`: processes that run go on, and ZeroMQ carries messages over. The strong
  assumptions say that a socket serves its peers in turn (ZeroMQ's fair queueing): no
  worker's message waits at the ROUTER, the DEALER or a REP socket while others pass it
  for ever. Nobody is obliged to start a service; `AnswerComes` assumes one that stays.
* `FrontEnd`: the network delivers, the loop turns, threads run, the bus answers (which
  `AnswerComes` justifies while a service stays). One strong assumption: a socket whose
  client reads takes all of an answer some time, so that `writen` does not stop short for
  ever. Nobody must send, hang up or let a timer run out.

## 6. Proofs

The proofs assume the `ASSUME`s of the modules only: tasks, requests, nodes, callers
and connections differ from the "none" value, sizes are natural numbers, defaults are in
range, timeouts are positive; in `RestStore` different ids print as different texts and
clients write an id as it is printed (`TextAssumption`); in `HttpRequest` what clients
send is `Wellformed`; the elements sorted are naturals and the keys of the skip list
integers above `INT_MIN`. Conditions on the environment, the passing runs' values of the
constants in the table of section 4, stand in the theorems that need them:
`~AddMayFail` in `NothingLeaks`, `~Pipelining` in `InOrder`, `Cuts = "safe"` in those of
`HttpProofs`, `Careful` in those of `RestProofs`, `NamesStayUnique` and
`LoginsAreRight`, `LastOnly` in `EveryoneStaysTold`.

`ThreadPoolProofs` proves for every number of threads, queue size and task set the
safety invariants of the run `thread_pool`. `IInv` is their inductive strengthening:
`RingConsistent` (head, tail and count describe one window, all other slots empty) and
`ExactlyOnce` need the types and each other; the joins need `WorkersConsistent` (what
each program counter says of `running`, `started` and the shutdown) and
`OwnerConsistent` (what the owner's place says of both). `NoLostWakeup` is a second
induction on top: every action that queues a task or takes a contender away keeps
as many contenders as queued tasks while anybody sleeps. It rests on the cardinality
lemmas `ContendingFinite` and `MoreContenders`.

The second half of `ThreadPoolProofs` proves that the pool implements `TaskQueue`:
`pending` is the ring read from `head`; `AddAppends` and `TakeHeads` say what the two
index updates do to that sequence, and every other action leaves it.

`TimerProofs` proves for every number of connections, nodes and timeouts that only the
linked node counts, that no sweep closes a connection early, and that a sweep leaves no
expired node. The strengthening adds `HeldConsistent` (a node `addTimer` still holds
keeps its busy request although a sweep has taken it from the heap) and
`DeletedIsEmpty` (a node marked deleted in the heap holds no request).

`ReactorProofs` proves for every number of descriptors and workers and every queue size
the four safety invariants of the two reactor runs. The inductive invariant has a
global part, `Typed`, `Phases` (what the main thread's place says of its variables) and
`WaitsOnce` (no descriptor is twice in the batch and the queue together), and a part
per descriptor, `Fine(f)`: who refers to an open descriptor and that a closed one is
referred to by nobody (`OpenHeld`), one owner and nothing armed beside it (`Owned`), where
its timer may be (`TimerOf`), what is armed has both `fd2req` and a timer (`Watched`), and
`fd2req` alone keeps nothing while adds succeed (`SlotBacked`). Each action touches one
or few descriptors; `SameView` and `SameIsFine` carry all the others at once, because
`Fine(f)` reads only what `SameView` lists, and `ReleaseSame` does so for the releases
that end a batch. What a worker does is one lemma, `WorkerKeeps`: its step ends in a
place (`Goes`) that suits what it has done so far (`Suits`).

`MessageBusProofs` proves that the bus implements `RequestReply` for every number of
workers, services and crashes. `MessageInOnePlace` alone is not inductive: that an
answer is right needs `Honest` (a message is its worker's question, or the answer to
it), and that the loss of a message is recorded needs `LostWaits` (who lost one still
waits). Every action but `Ask`, the last step to the worker and `Receive` is a stutter
of `RequestReply`: `FirstReply` and `SameReplies` say so of the mapping, which reads the
answer out of the set of messages.

`FrontEndProofs` proves `AnswersInOrder` for every number of clients, workers and
requests and any queue size. The inductive invariant has `Places` (a connection is with
one worker or once in the queue) and a part per connection, `Fine(c)`: what was said
agrees so far (`History`), and while the client is there its last request is in one of
four stages, `Idle`, `Parsing`, `AtBus`, `Answered`. `Parsing` is the heart of it: what
the parser has read, what is in the socket and what is on its way are three successive
pieces of one request (`Piece`). `ParsedOutcome` says what `handleRead` makes of such a
piece: it waits with all of it read, refuses what is due to be refused, or has the whole
request. A step ends with a worker letting go of one connection (`EndsKeeps`), a client
acting on its own (`ClientKeeps`), or a turn of the loop that closes some connections
and leaves the others as they are (`TurnsKeep`).

`HttpProofs` proves the four invariants of the run `http` for any number of requests,
header lines and tokens and bodies of any length. Its inductive invariant `HttpInv` says
that every answer given is `Right` and that the connection is in one `Stage`: k tokens
of the last request are taken and they end in its line, right behind it, or in the body
of a form, with the rest of what was taken in `inBuffer`; or it is between two requests
with a parser as new, or at its end. That a call of `handleRead` leads from one stage to
another rests on three kinds of lemmas. `WireSpelt` says which token stands where in a
request. `Scanned` is a recursion over the buffer: `OneField` takes the scanner through
the six tokens of one header line, `LinesScanned` is the induction over the lines (after
n of them the header map is `MapOf(r, n)`), `HeadScanned` adds the blank line and what
is behind it. `PieceIs` and its companions say that what a call reads, joined to what the
last call left, is again one contiguous piece of the request. With `Cuts = "any"` the
invariant fails at `AtHeaders`: the scanner is left inside a line.

`RestProofs` proves what the run `rest` checks for any number of connections, ids,
values and messages. `StoreInv` has the shape of the resources (`Resources`: an array of
items with different ids, a profile object), `Alone` (a request that changes something is
the only one under way but for GETs; `Careful` gives it) and per worker what it has
seen of the collection before its next step: a POST about to append found its id free
(`AtAppend`), a DELETE about to store holds exactly the `Remaining` items (`AtStore`).
`RemainingItems` says what a DELETE leaves, each once and in order. The refinement maps
the items to what is `Held` under each id; one lemma per kind of change says it is one
step of `RestCollection`, and GETs are answered with what is held. `FrontInv` gives every
connection a stage: at rest, `Awaits` (how many parts of the request the parser has, and
that they are that request's), `Serves`, `Answered`. `FrontImplementsStore` then shows that
the connections only ever start requests `RestStore` knows, so that all of its theorems
hold behind them (`FrontKeepsCollection`).

`ProgramProofs` is about programs beside the servers. `NamesStayUnique`: while at most one
registration is under way, the copy of a process that registers has the names of the
whole table (`CgiInv`). `LoginsAreRight`: who is known when its request begins stays in
the table (`Knows`), the copy of a CGI process is no older than its request (`Copies`), and
with one query at a time on the connection the outcome a FastCGI thread reads is its own
(`Queries`). `OnlyOne`: in getInstance, who is past the second look with a null pointer
holds the mutex and is alone there. `EveryoneStaysTold`: the list has each living observer
once (`ObserverInv`). `DecodingUndoes`: the n-th byte's code stands in the coded text where
the codes of the bytes before it end (`CodeAt`), a turn of the decoder that begins there
appends that byte and stops at the end of its code (`TurnReads`), so after n turns it has
the first n bytes (`DecodesBack`). For texts of any length.

`EverySortSorts` (`ProgramProofs`): for arrays of any length over any set of naturals
each sort's result ascends and has each value as often as its input, whatever the pivots.
`Same`, what every swap, shift and merge keeps, is proved through bijections of positions
and so through cardinalities. Each loop has the invariant of its textbook: what lies high
is done (`bubbleSort`), what lies low is done (`selectionSort`), the first elements
ascend (`insertionSort`), every element is at most its parent but one (`heapInsert`, `heapify`), how often each value was
taken (`merge`), what lies before the pivot and from `more` on (`partition`). The
bucket sort's is that the slots filled so far hold each value below j as often as it
was counted.

`SearchIsRight` (`ProgramProofs`): for any keys, sizes and heights the list keeps its
`Shape`, and in a list of that shape `searchNode` finds a key exactly if the bottom level
has it. `Shape` says more than `SearchFindsWhatIsThere`: ids are `Distinct` on a level and
each level is `Above` the next one, its nodes a part of that level's in the same order, which
among equal keys the keys do not tell. `IsLast` is what a walk finds on a level, the last
node whose key is not larger; `DownKeeps` carries it down, `UpFromIsLast` up again through
the towers, so that `insert` has the right place on every level (`PlacesAreLast`). A removal
takes the tower from where the key was found; that this is its top (no level above has
the key) is what keeps the upper levels above the lower ones (`IdNotAbove`).

What a recursion computes is an induction over data, and the library's induction
theorems take an operator as a parameter, which the provers cannot instantiate. For the
recursive functions of `HttpRequest` and `UrlCodec` the set of the numbers for which the
claim holds takes the operator's place: `Induction` of `HttpProofs` and `ProgramProofs`,
from the well-foundedness of `<` on the naturals. `LoopExists` and `TurnsExist` build the
function a loop's recursive definition chooses; `AfterKeeps` is the rule for loops that
rests on it: what each turn leads from `Inv[i]` to `Inv[i + 1]` leads from `Inv[0]` to
`Inv[k]`. `RecursionExists` does the same for a recursive function whose calls are less
deep (`Recursive`): it exists, with values in a set each call keeps, and `mergeSort` and
`quickSort` are two instances.

## 7. What the code does not do

Two disagreements with the repository's own text are violation runs and findings in
`PROJECT.json`, with the lines they contradict:

* `reactor_idle`: the timers are swept only after `epoll_wait(-1)` returns; without
  traffic a timed-out connection stays for ever.
* `rest_reply`: two GETs share `get.json`.

The others follow from giving a constant its other value in a passing run's cfg:

| change | violated | what happens |
|---|---|---|
| `Cuts = "any"` | `HeadersKept` | a segment that ends inside the header lines corrupts the header map: `parseHeaders` keeps its state between calls and not its positions |
| `Cuts = "head"` | `BodyKept` | a segment that ends with the blank line leaves separators in front of the body |
| `Careful = FALSE` (rest) | `UniqueIds` | two POSTs of one id both find it free |
| `Careful = FALSE` (rest) | `GivenIsAsked` | a PUT in two segments is carried out with what the first one held, or with the members of the connection's previous request |
| `Careful = FALSE` (rest) | `PostedIsThere` | deleting the last item leaves `null`, and a POST to it stores nothing and answers 200 |
| `Careful = FALSE` (accounts) | `NamesAreUnique` | two CGI processes both find a name free |
| `Careful = FALSE` (accounts) | `LoginIsRight` | a FastCGI thread reads the outcome of another's query: a wrong password is let in, a right one refused |
| `Pipelining = TRUE` | `AnswersInOrder` | `reset()` empties `inBuffer`; what had arrived of the next request is lost |
| `LastOnly = FALSE` | `EveryoneIsTold` | an observer's destructor deletes the subject under the others |
| `AddMayFail = TRUE` | `NoLeak` | after a failed `epoll_add` the timer's `epoll_del` fails too and `fd2req` keeps the connection |

`SlotWritersExclude` of `Reactor`, which no run checks, is false as well: a worker's
`epoll_mod` and the destructor of the timer it has just added assign `fd2req[fd]` at the
same time, without a lock.

Met while modelling and kept as hazards or as comments: a request without header lines
is never answered; an unknown form falls out of `analysisRequest` without a return
value; the comment at `Timer.cpp:78` underestimates how long a deleted node stays; a
second `threadpool_destroy` returns with the mutex held; an upload by POST that
succeeds answers "fd open error"; a service whose MySQL connection failed takes
questions and dies of the first one it must look up, and its worker waits for ever;
`TrimRight` (`util.cpp:225`) drops the last character of what it keeps.

## 8. Only model-checked

Liveness (`AcceptedIsServed`, `ShutdownEnds`, `DeletedNodeGoes`, `ExpiredIsReaped`,
`DataIsRead`, `ResetIsClosed`, `AnswerComes`, `AnsweredOrClosed`): out of the prover's
reach. Everything else the passing runs check is also proved.

## 9. Not modelled

* Start-up: `Server`'s constructor, socket options, daemon mode; any failure aborts.
* Contents: files, MIME types, the favicon, the CGI's output, the JSON text; requests
  whose lengths are not numbers (`stoi` throws).
* `setSocketNonBlocking` failing on a fresh descriptor, descriptor exhaustion (`EMFILE`).
* `TimerNode::update`, which nothing calls.
* In `RestStore`: what a race inside jsoncpp does beyond reordering whole scans and
  changes; ids left out or written with leading zeros. In `RestFront`: where the parser
  goes inside a header line, which `HttpRequest` models for the code this is a copy of.
* In `MessageBus`: ZeroMQ's high-water marks, a proxy that crashes (nothing starts it
  again), a time-out other than 0 (the only caller passes 0).
* In `Accounts`: the parsing of arguments and of the configuration, the printing of
  responses, failing Redis commands.
* `webServerDemo` apart from what it shares: it is an earlier state of `webServerTest`.
* The singleton made for one thread and the one that is a static local; the factories,
  the strategy and template classes, which keep no state; the state machine, a table of
  seven transitions driven round by one loop; the random array's distribution; the
  library studies other than the URL codec, which call library functions with fixed
  arguments.
* `DockerBuild`, `conf`, `cmake`, `guide`: no behaviour.
