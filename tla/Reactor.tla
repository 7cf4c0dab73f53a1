------------------------------ MODULE Reactor ------------------------------
(***************************************************************************)
(* The event loop of myprj/webServer: the main thread (Epoll, Server), the *)
(* workers (RequestData's handlers), the thread pool between them (as the  *)
(* abstract TaskQueue it implements), the connections' timers and the      *)
(* kernel's view of each descriptor.                                       *)
(*                                                                         *)
(* A connection is a descriptor and the RequestData that owns it, which    *)
(* lives as long as something refers to it: fd2req, its timer node, the    *)
(* event vector of the main loop, the pool's queue, a worker.  The last    *)
(* reference to go closes the descriptor.  Timers are reduced to the node  *)
(* that still holds the request; Timer.tla has the heap and the emptied    *)
(* nodes, and shows that only that node can close a connection.            *)
(***************************************************************************)
EXTENDS Integers, Sequences, FiniteSets

CONSTANTS FD,           \* the descriptors below MAXFDS
          Worker, None,
          QueueSize,    \* of the thread pool
          MaxBacklog,   \* bounds the connections waiting for accept
          AddMayFail    \* whether epoll_ctl(EPOLL_CTL_ADD) may fail

ASSUME ReactorAssumption ==
    /\ None \notin FD
    /\ QueueSize \in Nat \ {0} /\ MaxBacklog \in Nat
    /\ AddMayFail \in BOOLEAN

VARIABLES
    \* the main thread
    mpc, batch, listening, todo, vec, dying,
    \* the pool and its workers
    pending, running, wpc, wev,
    \* one connection per open descriptor
    open, slot, node, expired, flags,
    \* the kernel and the clients
    interest, conn, backlog, lready

main   == <<mpc, batch, listening, todo, vec, dying>>
pool   == <<pending, running>>
worker == <<wpc, wev>>
timers == <<node, expired>>
net    == <<backlog, lready>>
vars   == <<main, pool, worker, open, slot, timers, flags, interest, conn, net>>

TQ == INSTANCE TaskQueue WITH Task <- FD, NoTask <- None,
                              Capacity <- {QueueSize}, capacity <- QueueSize,
                              mode <- "open"

\* The fields of RequestData the loop depends on, as the constructor sets them
NewFlags == [read |-> TRUE, write |-> FALSE, keep |-> FALSE]

\* What the client did that the server has not yet seen
NewConn == [data |-> FALSE, eof |-> FALSE, dead |-> FALSE, room |-> TRUE]

Init ==
    /\ mpc = "wait" /\ batch = [f \in FD |-> "none"] /\ listening = FALSE
    /\ todo = <<>> /\ vec = {} /\ dying = None
    /\ pending = <<>> /\ running = [w \in Worker |-> None]
    /\ wpc = [w \in Worker |-> "idle"] /\ wev = [w \in Worker |-> "none"]
    /\ open = {}
    /\ slot = [f \in FD |-> FALSE]
    /\ node = [f \in FD |-> "none"] /\ expired = [f \in FD |-> FALSE]
    /\ flags = [f \in FD |-> NewFlags]
    /\ interest = [f \in FD |-> "absent"]
    /\ conn = [f \in FD |-> NewConn]
    /\ backlog = 0 /\ lready = FALSE

-----------------------------------------------------------------------------
(* Shared pointers.                                                         *)

\* Something refers to the RequestData of f.
Held(f) ==
    \/ slot[f]
    \/ node[f] # "none"
    \/ f \in vec
    \/ f = dying
    \/ \E i \in 1..Len(pending) : pending[i] = f
    \/ \E w \in Worker : running[w] = f

\* The last part of every step that drops or adds references: requests nothing
\* refers to are deleted, ~RequestData closes the descriptor, and the kernel
\* forgets it.  The arguments are what the step itself makes of the state.
Release(opened, armed, state, traffic) ==
    /\ open' = {f \in opened : Held(f)'}
    /\ interest' = [f \in FD |-> IF f \in open' THEN armed[f] ELSE "absent"]
    /\ flags' = [f \in FD |-> IF f \in open' THEN state[f] ELSE NewFlags]
    /\ conn' = [f \in FD |-> IF f \in open' THEN traffic[f] ELSE NewConn]

\* fd2req[f].reset()
Forget_Not(f) == slot' = slot
Forget(f) == slot' = [slot EXCEPT ![f] = FALSE]

Kept == UNCHANGED <<open, interest, flags, conn>>

\* seperateTimer: a node that is alive and linked lets go of the request.
Seperate_Nothing(f) == UNCHANGED timers
Seperate(f) ==
    /\ node' = [node EXCEPT ![f] = IF @ = "linked" THEN "none" ELSE @]
    /\ expired' = [expired EXCEPT ![f] = @ /\ node[f] # "linked"]

-----------------------------------------------------------------------------
(* The clients and the clock.                                               *)

Client == UNCHANGED <<main, pool, worker, open, slot, timers, flags, interest>>

\* A new connection makes the edge-triggered listening descriptor ready.
Connect ==
    /\ backlog < MaxBacklog
    /\ backlog' = backlog + 1 /\ lready' = TRUE
    /\ Client /\ UNCHANGED conn

Send(f) ==
    /\ f \in open /\ ~conn[f].data /\ ~conn[f].eof /\ ~conn[f].dead
    /\ conn' = [conn EXCEPT ![f].data = TRUE]
    /\ Client /\ UNCHANGED net

Shutdown(f) ==
    /\ f \in open /\ ~conn[f].eof /\ ~conn[f].dead
    /\ conn' = [conn EXCEPT ![f].eof = TRUE]
    /\ Client /\ UNCHANGED net

\* The connection is reset: EPOLLERR and EPOLLHUP, and what was received is lost.
Reset(f) ==
    /\ f \in open /\ ~conn[f].dead
    /\ conn' = [conn EXCEPT ![f] = [NewConn EXCEPT !.dead = TRUE]]
    /\ Client /\ UNCHANGED net

\* The client reads: the socket can be written again.
Drain(f) ==
    /\ f \in open /\ ~conn[f].room
    /\ conn' = [conn EXCEPT ![f].room = TRUE]
    /\ Client /\ UNCHANGED net

InHeap(f) == node[f] \in {"fresh", "linked"}

\* The deadline of a node passes: two seconds or five minutes, in any order.
Deadline(f) ==
    /\ InHeap(f) /\ ~expired[f]
    /\ expired' = [expired EXCEPT ![f] = TRUE]
    /\ UNCHANGED <<main, pool, worker, open, slot, node, flags, interest, conn, net>>

-----------------------------------------------------------------------------
(* my_epoll_wait, getEventsRequest, acceptConnection: the main thread.      *)

\* What epoll_wait reports of f: errors whatever f is armed for, else the one
\* direction it is armed for.  Reading is also possible at end of file.
Reported(f) ==
    IF interest[f] \notin {"in", "out"} THEN "none"
    ELSE IF conn[f].dead THEN "err"
    ELSE IF interest[f] = "in" /\ (conn[f].data \/ conn[f].eof) THEN "in"
    ELSE IF interest[f] = "out" /\ conn[f].room THEN "out"
    ELSE "none"

\* epoll_wait with timeout -1 sleeps until something is ready, and disarms what
\* it reports: EPOLLONESHOT.
Disarm_Never(f) == interest[f]
Disarm(f) == IF Reported(f) # "none" THEN "off" ELSE interest[f]

EpollWait ==
    /\ mpc = "wait"
    /\ lready \/ \E f \in FD : Reported(f) # "none"
    /\ batch' = [f \in FD |-> Reported(f)]
    /\ interest' = [f \in FD |-> Disarm(f)]
    /\ listening' = lready /\ lready' = FALSE
    /\ mpc' = "events"
    /\ UNCHANGED <<todo, vec, dying, pool, worker, open, slot, timers, flags,
                   conn, backlog>>

\* An error or hang-up: the timer lets go of the request, and so does fd2req.
ErrorEvent(f) ==
    /\ mpc = "events" /\ batch[f] = "err"
    /\ batch' = [batch EXCEPT ![f] = "none"]
    /\ IF slot[f] THEN Seperate(f) ELSE UNCHANGED timers
    /\ Forget(f)
    /\ UNCHANGED <<mpc, listening, todo, vec, dying, pool, worker, net>>
    /\ Release(open, interest, flags, conn)

\* A readable or writable descriptor: its request leaves fd2req for the vector
\* of requests to serve.  A descriptor without a request is skipped.
ReadyEvent(f) ==
    /\ mpc = "events" /\ batch[f] \in {"in", "out"}
    /\ batch' = [batch EXCEPT ![f] = "none"]
    /\ IF slot[f]
       THEN /\ Seperate(f)
            /\ vec' = vec \cup {f} /\ todo' = Append(todo, f)
       ELSE UNCHANGED <<timers, vec, todo>>
    /\ Forget(f)
    /\ UNCHANGED <<mpc, listening, dying, pool, worker, net>>
    /\ Release(open, interest,
               IF ~slot[f] THEN flags
               ELSE IF batch[f] = "in" THEN [flags EXCEPT ![f].read = TRUE]
               ELSE [flags EXCEPT ![f].write = TRUE],
               conn)

\* One turn of the accept loop: the request, fd2req, the interest list and the
\* first timer.  The failure of epoll_add is ignored.
Accept ==
    /\ mpc = "events" /\ listening /\ backlog > 0
    /\ backlog' = backlog - 1
    /\ \E f \in FD \ open :
          /\ slot' = [slot EXCEPT ![f] = TRUE]
          /\ node' = [node EXCEPT ![f] = "linked"]
          /\ expired' = [expired EXCEPT ![f] = FALSE]
          /\ UNCHANGED <<main, pool, worker, lready>>
          /\ \E added \in IF AddMayFail THEN {"in", "absent"} ELSE {"in"} :
                Release(open \cup {f}, [interest EXCEPT ![f] = added], flags, conn)

\* The descriptor would be MAXFDS or more: closed at once.
AcceptTooMany ==
    /\ mpc = "events" /\ listening /\ backlog > 0 /\ open = FD
    /\ backlog' = backlog - 1
    /\ UNCHANGED <<main, pool, worker, slot, timers, lready>> /\ Kept

AcceptEnds ==
    /\ mpc = "events" /\ listening /\ backlog = 0
    /\ listening' = FALSE
    /\ UNCHANGED <<mpc, batch, todo, vec, dying, pool, worker, slot, timers, net>>
    /\ Kept

EventsEnd ==
    /\ mpc = "events" /\ ~listening /\ \A f \in FD : batch[f] = "none"
    /\ mpc' = "submit"
    /\ UNCHANGED <<batch, listening, todo, vec, dying, pool, worker, slot,
                   timers, net>>
    /\ Kept

Submit ==
    /\ mpc = "submit" /\ todo # <<>>
    /\ TQ!Submit(Head(todo))
    /\ todo' = Tail(todo)
    /\ UNCHANGED <<mpc, batch, listening, vec, dying, worker, slot, timers, net>>
    /\ Kept

\* threadpool_add fails: the rest of this batch is abandoned.
SubmitFails ==
    /\ mpc = "submit" /\ todo # <<>>
    /\ Len(pending) = QueueSize
    /\ todo' = <<>>
    /\ UNCHANGED <<mpc, batch, listening, vec, dying, pool, worker, slot, timers,
                   net>>
    /\ Kept

SubmitEnds ==
    /\ mpc = "submit" /\ todo = <<>>
    /\ mpc' = "expire"
    /\ UNCHANGED <<batch, listening, todo, vec, dying, pool, worker, slot, timers,
                   net>>
    /\ Kept

\* handleExpiredEvent takes an expired node out of the heap.  If a worker still
\* holds it in addTimer it lives on there; else its destructor begins, with
\* EPOLL_CTL_DEL, and goes on to fd2req only if that succeeded.
Expire(f) ==
    /\ mpc = "expire" /\ InHeap(f) /\ expired[f]
    /\ node' = [node EXCEPT ![f] = IF @ = "fresh" THEN "taken" ELSE "none"]
    /\ expired' = [expired EXCEPT ![f] = FALSE]
    /\ UNCHANGED <<batch, listening, todo, vec, pool, worker, slot, net>>
    /\ IF node[f] = "linked" /\ interest[f] # "absent"
       THEN /\ mpc' = "reset" /\ dying' = f
            /\ interest' = [interest EXCEPT ![f] = "absent"]
            /\ UNCHANGED <<open, flags, conn>>
       ELSE /\ UNCHANGED <<mpc, dying>>
            /\ Release(open, interest, flags, conn)

\* The rest of the destructor: fd2req[fd].reset(), then the node's own pointer.
ExpireReset ==
    /\ mpc = "reset"
    /\ Forget(dying)
    /\ dying' = None /\ mpc' = "expire"
    /\ UNCHANGED <<batch, listening, todo, vec, pool, worker, timers, net>>
    /\ Release(open, interest, flags, conn)

\* No expired node is left; the vector of requests goes out of scope.
ExpireEnds ==
    /\ mpc = "expire"
    /\ \A f \in FD : InHeap(f) => ~expired[f]
    /\ mpc' = "wait" /\ vec' = {}
    /\ UNCHANGED <<batch, listening, todo, dying, pool, worker, slot, timers, net>>
    /\ Release(open, interest, flags, conn)

Main == \/ EpollWait \/ (\E f \in FD : ErrorEvent(f) \/ ReadyEvent(f) \/ Expire(f))
        \/ Accept \/ AcceptTooMany \/ AcceptEnds \/ EventsEnd
        \/ Submit \/ SubmitFails \/ SubmitEnds
        \/ ExpireReset \/ ExpireEnds

-----------------------------------------------------------------------------
(* myHandler: a worker.                                                     *)

Goto(w, label) == wpc' = [wpc EXCEPT ![w] = label]

Take(w) ==
    /\ wpc[w] = "idle"
    /\ TQ!Take(w)
    /\ Goto(w, "handle")
    /\ UNCHANGED <<main, wev, slot, timers, net>> /\ Kept

\* The rest of handleConn: watch the connection again for ev, or let it go.
Rearm(w, f, ev, q, traffic) ==
    /\ Goto(w, IF ev = "none" THEN "free" ELSE "push")
    /\ wev' = [wev EXCEPT ![w] = ev]
    /\ flags' = [flags EXCEPT ![f] =
                    IF ev = "none" THEN q
                    ELSE [q EXCEPT !.read = FALSE, !.write = FALSE]]
    /\ conn' = [conn EXCEPT ![f] = traffic]
    /\ UNCHANGED <<main, pool, open, slot, timers, interest, net>>

\* handleRead, then the choice of handleConn: nothing to read or an error ends
\* the connection; a partial request is waited for; a complete one is answered,
\* or refused and the connection ended.  keep_alive is never taken back.
HandleRead(w, f) ==
    LET q == flags[f]  c == conn[f]  seen == [c EXCEPT !.data = FALSE] IN
    /\ ~q.write /\ q.read
    /\ \/ /\ c.dead \/ ~c.data
          /\ Rearm(w, f, "none", q, c)
       \/ /\ ~c.dead /\ c.data
          /\ \/ Rearm(w, f, "none", q, seen)
             \/ Rearm(w, f, "in", q, seen)
             \/ \E header \in BOOLEAN :
                   Rearm(w, f, "out",
                         [q EXCEPT !.keep = @ \/ header], seen)

\* handleWrite, then the choice of handleConn.
HandleWrite(w, f) ==
    LET q == flags[f]  c == conn[f] IN
    /\ q.write
    /\ \/ /\ c.dead
          /\ Rearm(w, f, "none", q, c)
       \/ /\ ~c.dead
          /\ Rearm(w, f, "out", q, [c EXCEPT !.room = FALSE])
       \/ /\ ~c.dead /\ c.room
          /\ Rearm(w, f, IF q.keep THEN "in" ELSE "none", q, c)

Handle(w) ==
    /\ wpc[w] = "handle"
    /\ HandleRead(w, running[w]) \/ HandleWrite(w, running[w])

\* addTimer: the node enters the heap under the timer mutex, which the main
\* thread holds while it expires nodes ...
PushTimer_Skipped(w) ==
    /\ wpc[w] = "push" /\ Goto(w, "store")
    /\ UNCHANGED <<main, pool, wev, slot, timers, net>> /\ Kept
PushTimer(w) ==
    /\ wpc[w] = "push" /\ mpc \notin {"expire", "reset"}
    /\ node' = [node EXCEPT ![running[w]] = "fresh"]
    /\ expired' = [expired EXCEPT ![running[w]] = FALSE]
    /\ Goto(w, "link")
    /\ UNCHANGED <<main, pool, wev, slot, net>> /\ Kept

\* ... and is linked after that.  A node taken out meanwhile dies here.
LinkTimer(w) ==
    /\ wpc[w] = "link"
    /\ Goto(w, "store")
    /\ UNCHANGED <<main, pool, wev, expired, net>>
    /\ LET f == running[w]  gone == node[f] = "taken" IN
          /\ node' = [node EXCEPT ![f] = IF gone THEN "none" ELSE "linked"]
          /\ slot' = [slot EXCEPT ![f] = @ /\ ~(gone /\ interest[f] # "absent")]
          /\ Release(open, IF gone THEN [interest EXCEPT ![f] = "absent"]
                           ELSE interest, flags, conn)

\* epoll_mod: fd2req first, then the kernel, then fd2req again if it refused.
StoreRequest(w) ==
    /\ wpc[w] = "store"
    /\ slot' = [slot EXCEPT ![running[w]] = TRUE]
    /\ Goto(w, "ctl")
    /\ UNCHANGED <<main, pool, wev, timers, net>> /\ Kept

Wanted_Disarmed(w) == "off"
Wanted(w) == wev[w]

ModifyInterest(w) ==
    /\ wpc[w] = "ctl"
    /\ LET f == running[w] IN
       IF interest[f] = "absent"
       THEN Goto(w, "undo") /\ UNCHANGED interest
       ELSE Goto(w, "free") /\ interest' = [interest EXCEPT ![f] = Wanted(w)]
    /\ UNCHANGED <<main, pool, wev, slot, timers, net, open, flags, conn>>

UndoStore(w) ==
    /\ wpc[w] = "undo"
    /\ Forget(running[w])
    /\ Goto(w, "free")
    /\ UNCHANGED <<main, pool, wev, timers, net>> /\ Kept

\* The handler returns and the task's reference goes.
Return(w) ==
    /\ wpc[w] = "free"
    /\ TQ!Finish(w)
    /\ Goto(w, "idle")
    /\ wev' = [wev EXCEPT ![w] = "none"]
    /\ UNCHANGED <<main, slot, timers, net>>
    /\ Release(open, interest, flags, conn)

Step(w) == \/ Handle(w) \/ LinkTimer(w) \/ StoreRequest(w) \/ ModifyInterest(w)
           \/ UndoStore(w) \/ Return(w)

Next ==
    \/ Connect \/ Main
    \/ \E f \in FD : Deadline(f) \/ Send(f) \/ Shutdown(f) \/ Reset(f) \/ Drain(f)
    \/ \E w \in Worker : Take(w) \/ PushTimer(w) \/ Step(w)

Spec == Init /\ [][Next]_vars

\* The main thread runs, a queued task finds some worker, handlers run to their
\* end, and a worker that waits for the timer mutex gets it although the main
\* thread takes it again and again.  Clients do not connect so fast that accept
\* never comes to the end of the backlog; nothing else is assumed of them.
Fairness ==
    /\ WF_vars(Main) /\ SF_vars(AcceptEnds)
    /\ WF_vars(\E w \in Worker : Take(w))
    /\ \A w \in Worker : WF_vars(Step(w)) /\ SF_vars(PushTimer(w))

FairSpec == Spec /\ Fairness

-----------------------------------------------------------------------------

TypeOK ==
    /\ mpc \in {"wait", "events", "submit", "expire", "reset"}
    /\ batch \in [FD -> {"none", "in", "out", "err"}]
    /\ listening \in BOOLEAN /\ lready \in BOOLEAN
    /\ todo \in Seq(FD) /\ vec \subseteq FD /\ dying \in FD \cup {None}
    /\ pending \in Seq(FD) /\ Len(pending) <= QueueSize
    /\ running \in [Worker -> FD \cup {None}]
    /\ wpc \in [Worker -> {"idle", "handle", "push", "link", "store", "ctl",
                            "undo", "free"}]
    /\ wev \in [Worker -> {"none", "in", "out"}]
    /\ open \subseteq FD /\ slot \in [FD -> BOOLEAN]
    /\ node \in [FD -> {"none", "fresh", "linked", "taken"}]
    /\ expired \in [FD -> BOOLEAN]
    /\ flags \in [FD -> [read : BOOLEAN, write : BOOLEAN, keep : BOOLEAN]]
    /\ interest \in [FD -> {"absent", "off", "in", "out"}]
    /\ conn \in [FD -> [data : BOOLEAN, eof : BOOLEAN, dead : BOOLEAN,
                         room : BOOLEAN]]
    /\ backlog \in 0..MaxBacklog

Armed(f)   == interest[f] \in {"in", "out"}
\* Worker w may still read or write the request of f.
Serves(w, f) == running[w] = f /\ wpc[w] \notin {"idle", "free"}
Queued(f)  == \E i \in 1..Len(pending) : pending[i] = f
\* The request of f waits to be served: it is in the vector's unsubmitted part
\* or in the pool's queue.
Waiting(f) == f \in {todo[i] : i \in 1..Len(todo)} \/ Queued(f)

\* A connection is handled by one thread at a time (the purpose of ONESHOT,
\* Epoll.cpp:137): it is never served by two workers, nor waiting while served
\* or armed, nor waiting twice.
OneOwner ==
    \A f \in FD :
       /\ \A v, w \in Worker : Serves(v, f) /\ Serves(w, f) => v = w
       /\ (\E w \in Worker : Serves(w, f)) => ~Waiting(f) /\ ~Armed(f)
                                               /\ batch[f] = "none"
       /\ Waiting(f) => ~Armed(f) /\ batch[f] = "none"
       /\ \A i, j \in 1..Len(pending) : pending[i] = f /\ pending[j] = f => i = j

\* No timer holds a request that waits or that a worker handles: expiry cannot
\* take the descriptor from the epoll set under it (Epoll.cpp:179, 191).
NoTimerWhileServed ==
    \A f \in FD :
       (Waiting(f) \/ \E w \in Worker : running[w] = f /\ wpc[w] \in {"handle", "push"})
          => node[f] = "none"

\* Every armed connection can be found by the next event and will be found by
\* the sweep: it is in fd2req and a linked node holds it, or that node's
\* destructor is about to finish (the order of RequestData.cpp:330-350).
ArmedIsWatched ==
    \A f \in FD : Armed(f) \/ batch[f] # "none" => slot[f] /\ node[f] = "linked"

\* No descriptor leaks: whatever order events, timers, workers and abandoned
\* batches come in, an open connection is either on its way through the loop or
\* watched by a timer; fd2req alone never keeps one alive.
NoLeak ==
    \A f \in open :
       \/ node[f] # "none" \/ f \in vec \/ Queued(f) \/ dying = f
       \/ \E w \in Worker : running[w] = f

\* A worker re-arming a connection and the main thread finishing the destructor
\* of that connection's timer assign the same shared pointer, fd2req[fd].
\* They must not do so at the same time.
SlotWritersExclude ==
    \A w \in Worker :
       ~(mpc = "reset" /\ running[w] = dying /\ wpc[w] \in {"store", "undo"})

\* Received bytes are read, or the connection is closed, or its client does not
\* take the answer to what it sent before.
DataIsRead ==
    \A f \in FD : (f \in open /\ conn[f].data)
                     ~> (f \notin open \/ ~conn[f].data \/ ~conn[f].room)

\* A reset connection is always closed, wherever the reset finds it.
ResetIsClosed == \A f \in FD : (f \in open /\ conn[f].dead) ~> f \notin open

\* What guide/webServer.md:7 promises: requests that time out are removed in time.
TimedOutIsRemoved ==
    \A f \in FD : (node[f] = "linked" /\ expired[f]) ~> node[f] # "linked"
=============================================================================
