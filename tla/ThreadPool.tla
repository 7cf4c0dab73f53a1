----------------------------- MODULE ThreadPool -----------------------------
(***************************************************************************)
(* ThreadPool of myprj/webServer: a ring buffer of tasks guarded by one    *)
(* mutex, workers asleep on one condition variable, a shutdown that joins  *)
(* them.  What runs between taking and releasing the mutex is one action;  *)
(* waiting for the mutex, sleeping on the condition and running a task are *)
(* states of a worker, so everything that threads can interleave is        *)
(* interleaved.  The early returns of threadpool_add change nothing: they  *)
(* are stuttering steps.  A definition X_Y before a definition X is a      *)
(* wrong version of it, the bug a property is expected to notice.          *)
(***************************************************************************)
EXTENDS Integers, FiniteSets, Sequences

CONSTANTS Task,            \* calls of threadpool_add, a handler and a request each
          NoTask,          \* an empty slot: fun == NULL, args reset
          MAX_THREADS, MAX_QUEUE,
          DefaultThreads, DefaultQueue,   \* the literals 4 and 1024
          CreateArgs,      \* the (threadCount, queueSize) passed to create
          CreateMayFail    \* whether pthread_create may fail

ASSUME PoolAssumption ==
    /\ NoTask \notin Task
    /\ MAX_THREADS \in Nat /\ MAX_QUEUE \in Nat
    /\ DefaultThreads \in 1..MAX_THREADS /\ DefaultQueue \in 1..MAX_QUEUE
    /\ CreateArgs \subseteq Int \X Int
    /\ CreateMayFail \in BOOLEAN

VARIABLES queue, head, tail, count,   \* the ring
          queue_size,
          threadCount,                \* how many threads create must start
          thread_count, started,      \* started so far; not yet finished
          shutdown,                   \* "no", "graceful", "immediate"
          lock,                       \* "free", "kept", "destroyed"
          caller,                     \* where the owner of the pool is
          joined,                     \* threads joined by destroy
          pc, running,                \* per worker
          outstanding                 \* tasks accepted, handler not returned

ring    == <<queue, head, tail, count, queue_size>>
owner   == <<threadCount, thread_count, caller, joined>>
vars    == <<ring, owner, started, shutdown, lock, pc, running, outstanding>>

Worker == 1..MAX_THREADS

\* The first lines of threadpool_create: arguments out of range are replaced
\* together, also when only one of them is out of range.
Normalise(args) ==
    IF \/ args[1] <= 0 \/ args[1] > MAX_THREADS
       \/ args[2] <= 0 \/ args[2] > MAX_QUEUE
    THEN <<DefaultThreads, DefaultQueue>>
    ELSE args

\* (i + 1) % queue_size, for a slot i
Succ(i) == IF i + 1 = queue_size THEN 0 ELSE i + 1

Init ==
    /\ \E args \in CreateArgs :
          /\ threadCount = Normalise(args)[1]
          /\ queue_size  = Normalise(args)[2]
    /\ queue = [i \in 0..(queue_size - 1) |-> NoTask]
    /\ head = 0 /\ tail = 0 /\ count = 0
    /\ thread_count = 0 /\ started = 0
    /\ shutdown = "no"
    /\ lock = "free"
    /\ caller = "create"
    /\ joined = 0
    /\ pc = [w \in Worker |-> "none"]
    /\ running = [w \in Worker |-> NoTask]
    /\ outstanding = {}

-----------------------------------------------------------------------------
(* The owner: threadpool_create, threadpool_destroy and threadpool_free.   *)

\* One turn of the creation loop.  The new thread runs at once: it may go to
\* sleep before the next one exists.
CreateThread ==
    /\ caller = "create"
    /\ thread_count < threadCount
    /\ pc' = [pc EXCEPT ![thread_count + 1] = "lock"]
    /\ thread_count' = thread_count + 1
    /\ started' = started + 1
    /\ UNCHANGED <<ring, threadCount, caller, joined, shutdown, lock, running,
                   outstanding>>

\* pthread_create fails: create returns -1 and the server aborts.
CreateFails ==
    /\ CreateMayFail
    /\ caller = "create"
    /\ thread_count < threadCount
    /\ caller' = "aborted"
    /\ UNCHANGED <<ring, threadCount, thread_count, joined, started, shutdown,
                   lock, pc, running, outstanding>>

CreateReturns ==
    /\ caller = "create"
    /\ thread_count = threadCount
    /\ caller' = "up"
    /\ UNCHANGED <<ring, threadCount, thread_count, joined, started, shutdown,
                   lock, pc, running, outstanding>>

Asleep == {w \in Worker : pc[w] = "wait"}

\* pthread_cond_signal: one sleeper, if there is one, contends for the mutex.
Signal_Dropped == pc' = pc
Signal ==
    \/ Asleep = {} /\ pc' = pc
    \/ \E w \in Asleep : pc' = [pc EXCEPT ![w] = "lock"]

\* pthread_cond_broadcast: every sleeper does.
Broadcast_One == Signal
Broadcast == pc' = [w \in Worker |-> IF w \in Asleep THEN "lock" ELSE pc[w]]

\* threadpool_destroy sets the flag, wakes every sleeper and starts joining.
Destroy(option) ==
    /\ caller = "up"
    /\ lock = "free"
    /\ shutdown' = option
    /\ Broadcast
    /\ caller' = "join"
    /\ UNCHANGED <<ring, threadCount, thread_count, joined, started, lock,
                   running, outstanding>>

\* A second call finds shutdown set and leaves the loop before the unlock: it
\* returns THREADPOOL_SHUTDOWN with the mutex still locked.
DestroyAgain ==
    /\ shutdown # "no"
    /\ lock = "free"
    /\ lock' = "kept"
    /\ UNCHANGED <<ring, owner, started, shutdown, pc, running, outstanding>>

\* pthread_join on the next thread returns once it has exited.
Join_NoWait ==
    /\ caller = "join" /\ joined < thread_count /\ joined' = joined + 1
    /\ UNCHANGED <<ring, threadCount, thread_count, caller, started, shutdown,
                   lock, pc, running, outstanding>>
Join ==
    /\ caller = "join"
    /\ joined < thread_count
    /\ pc[joined + 1] = "exited"
    /\ joined' = joined + 1
    /\ UNCHANGED <<ring, threadCount, thread_count, caller, started, shutdown,
                   lock, pc, running, outstanding>>

\* threadpool_free changes nothing when a thread is left, else it locks the
\* mutex and destroys it.
Free ==
    /\ caller = "join"
    /\ joined = thread_count
    /\ started <= 0
    /\ lock = "free"
    /\ caller' = "freed"
    /\ lock' = "destroyed"
    /\ UNCHANGED <<ring, threadCount, thread_count, joined, started, shutdown,
                   pc, running, outstanding>>

-----------------------------------------------------------------------------
(* threadpool_add, called by any thread while the pool exists.  A task      *)
(* stands for one call, until its handler has returned.                     *)

Full_OffByOne == count > queue_size
Full == count = queue_size

Add(t) ==
    /\ caller \in {"up", "join"}
    /\ t \notin outstanding
    /\ lock = "free"
    /\ ~Full
    /\ shutdown = "no"
    /\ queue' = [queue EXCEPT ![tail] = t]
    /\ tail' = Succ(tail)
    /\ count' = count + 1
    /\ Signal
    /\ outstanding' = outstanding \cup {t}
    /\ UNCHANGED <<head, queue_size, owner, started, shutdown, lock, running>>

-----------------------------------------------------------------------------
(* threadpool_thread.                                                       *)

\* The owner's failure to create the pool ends the process.
Alive == caller # "aborted"

\* The thread has the mutex and nothing to do: pthread_cond_wait.
Wait(w) ==
    /\ Alive
    /\ pc[w] = "lock" /\ lock = "free"
    /\ count = 0 /\ shutdown = "no"
    /\ pc' = [pc EXCEPT ![w] = "wait"]
    /\ UNCHANGED <<ring, owner, started, shutdown, lock, running, outstanding>>

\* pthread_cond_wait may return without a signal; the loop tests again.
SpuriousWakeup(w) ==
    /\ Alive
    /\ pc[w] = "wait"
    /\ pc' = [pc EXCEPT ![w] = "lock"]
    /\ UNCHANGED <<ring, owner, started, shutdown, lock, running, outstanding>>

Exiting_LeavesQueue == shutdown # "no"
Exiting_DrainsAlways == shutdown # "no" /\ count = 0
Exiting == shutdown = "immediate" \/ (shutdown = "graceful" /\ count = 0)

\* The slot a task was copied from lets go of it: fun = NULL, args.reset().
Vacate_Keeps(i) == queue' = queue
Vacate(i) == queue' = [queue EXCEPT ![i] = NoTask]

TakeTask(w) ==
    /\ Alive
    /\ pc[w] = "lock" /\ lock = "free"
    /\ count # 0 \/ shutdown # "no"
    /\ ~Exiting
    /\ running' = [running EXCEPT ![w] = queue[head]]
    /\ Vacate(head)
    /\ head' = Succ(head)
    /\ count' = count - 1
    /\ pc' = [pc EXCEPT ![w] = "run"]
    /\ UNCHANGED <<tail, queue_size, owner, started, shutdown, lock,
                   outstanding>>

\* (task.fun)(task.args) returns, and the thread asks for the mutex again.
FinishTask(w) ==
    /\ Alive
    /\ pc[w] = "run"
    /\ outstanding' = outstanding \ {running[w]}
    /\ running' = [running EXCEPT ![w] = NoTask]
    /\ pc' = [pc EXCEPT ![w] = "lock"]
    /\ UNCHANGED <<ring, owner, started, shutdown, lock>>

Exit(w) ==
    /\ Alive
    /\ pc[w] = "lock" /\ lock = "free"
    /\ Exiting
    /\ started' = started - 1
    /\ pc' = [pc EXCEPT ![w] = "exited"]
    /\ UNCHANGED <<ring, owner, shutdown, lock, running, outstanding>>

\* What a thread does with the mutex in hand.
Turn(w) == Wait(w) \/ TakeTask(w) \/ Exit(w)

Next ==
    \/ CreateThread \/ CreateFails \/ CreateReturns
    \/ \E option \in {"graceful", "immediate"} : Destroy(option)
    \/ DestroyAgain \/ Join \/ Free
    \/ \E t \in Task : Add(t)
    \/ \E w \in Worker : Turn(w) \/ SpuriousWakeup(w) \/ FinishTask(w)

Spec == Init /\ [][Next]_vars

\* The mutex goes to some thread that asks for it, not to each in turn: a
\* pthread mutex promises no order.  Handlers return, and create and destroy
\* do not stop half way.
Fairness ==
    /\ WF_vars(\E w \in Worker : Turn(w))
    /\ \A w \in Worker : WF_vars(FinishTask(w))
    /\ WF_vars(CreateThread \/ CreateReturns)
    /\ WF_vars(Join \/ Free)

FairSpec == Spec /\ Fairness

-----------------------------------------------------------------------------
(* Invariants.                                                              *)

TypeOK ==
    /\ threadCount \in 1..MAX_THREADS /\ queue_size \in 1..MAX_QUEUE
    /\ queue \in [0..(queue_size - 1) -> Task \cup {NoTask}]
    /\ head \in 0..(queue_size - 1) /\ tail \in 0..(queue_size - 1)
    /\ count \in 0..queue_size
    /\ thread_count \in 0..threadCount /\ started \in Int
    /\ joined \in 0..thread_count
    /\ shutdown \in {"no", "graceful", "immediate"}
    /\ lock \in {"free", "kept", "destroyed"}
    /\ caller \in {"create", "aborted", "up", "join", "freed"}
    /\ pc \in [Worker -> {"none", "lock", "wait", "run", "exited"}]
    /\ running \in [Worker -> Task \cup {NoTask}]
    /\ outstanding \subseteq Task

\* The slot i places after head, i < queue_size
Slot(i) == IF head + i < queue_size THEN head + i ELSE head + i - queue_size

\* One of the count slots from head on, wrapping at the end of the ring
InWindow(s) == \/ head <= s /\ s < head + count
               \/ s + queue_size < head + count

\* Head, tail and count describe one window of the ring: tail is count places
\* after head, every slot of the window holds a task and no other slot does.
\* A vacated slot that kept its args would keep a request, and with it a
\* connection, alive until the slot is used again (ThreadPool.cpp:174-177).
RingConsistent ==
    /\ tail = IF head + count < queue_size THEN head + count
                                          ELSE head + count - queue_size
    /\ \A s \in 0..(queue_size - 1) : queue[s] # NoTask <=> InWindow(s)

Queued == {queue[s] : s \in 0..(queue_size - 1)} \ {NoTask}
Served == {running[w] : w \in Worker} \ {NoTask}

\* Every accepted task whose handler has not returned is in exactly one place,
\* one slot of the ring or one worker: none is lost at the wrap of the ring
\* and none is handed to two threads.
ExactlyOnce ==
    /\ outstanding = Queued \cup Served
    /\ Queued \cap Served = {}
    /\ \A r, s \in 0..(queue_size - 1) :
          queue[r] = queue[s] /\ queue[r] # NoTask => r = s
    /\ \A v, w \in Worker :
          running[v] = running[w] /\ running[v] # NoTask => v = w

Contending == {w \in Worker : pc[w] = "lock"}

\* threadpool_add signals one thread per task.  That is enough: as long as a
\* thread sleeps there is, for every queued task, another one on its way to
\* the mutex.
NoSleeperNeeded ==
    Asleep # {} => count <= Cardinality(Contending)

\* threadpool_free destroys the mutex only after the last thread is done with
\* it: joining every started thread leaves started at zero, so the early
\* return of threadpool_free is never taken after the joins.
JoinedAllStopped ==
    /\ caller = "join" /\ joined = thread_count => started = 0
    /\ lock = "destroyed" => \A w \in Worker : pc[w] \in {"none", "exited"}

\* A pool freed after a graceful shutdown has run everything it accepted.
DrainedWhenFreed == caller = "freed" /\ shutdown = "graceful" => outstanding = {}

(* What makes them inductive: what the program counters say of the counters *)
(* and of the running tasks, and what the stages of the owner imply.        *)

Working == {w \in Worker : pc[w] \notin {"none", "exited"}}

WorkersConsistent ==
    /\ \A w \in Worker : pc[w] = "none" <=> w > thread_count
    /\ \A w \in Worker : pc[w] = "run" <=> running[w] # NoTask
    /\ \A w \in Worker : pc[w] = "exited" =>
          /\ shutdown # "no"
          /\ shutdown = "graceful" => count = 0
    /\ \A w \in Worker : pc[w] = "wait" => shutdown = "no"
    /\ started = Cardinality(Working)

OwnerConsistent ==
    /\ shutdown # "no" <=> caller \in {"join", "freed"}
    /\ caller \in {"up", "join", "freed"} => thread_count = threadCount
    /\ joined > 0 => caller \in {"join", "freed"}
    /\ \A w \in 1..joined : pc[w] = "exited"
    /\ lock = "destroyed" <=> caller = "freed"
    /\ caller = "freed" => joined = thread_count

IInv ==
    /\ TypeOK
    /\ RingConsistent
    /\ ExactlyOnce
    /\ WorkersConsistent
    /\ OwnerConsistent

-----------------------------------------------------------------------------
(* The abstract queue, and liveness.                                        *)

\* The tasks in the ring, oldest first
Pending == [i \in 1..count |-> queue[Slot(i - 1)]]

Mode == IF caller = "freed" THEN "closed"
        ELSE IF shutdown = "no" THEN "open" ELSE shutdown

TQ == INSTANCE TaskQueue WITH pending <- Pending, capacity <- queue_size,
                              mode <- Mode, Capacity <- 1..MAX_QUEUE

\* The pool implements the bounded first-in first-out queue of TaskQueue.tla.
ImplementsTaskQueue == TQ!TQSpec

\* The two ends of the story that exempt the pool from its promises: an
\* immediate shutdown, and the second destroy that keeps the mutex.
GivenUp == shutdown = "immediate" \/ lock = "kept"

\* Every accepted task is run to its end: no wakeup is lost.
AcceptedIsServed ==
    \A t \in Task : t \in outstanding ~> (t \notin outstanding \/ GivenUp)

\* A shutdown ends: all threads notice it, drain what must be drained, exit
\* and are joined, unless destroy was called a second time meanwhile.
ShutdownEnds == (shutdown # "no") ~> (caller = "freed" \/ lock = "kept")
=============================================================================
