----------------------------- MODULE TaskQueue -----------------------------
(***************************************************************************)
(* What the thread pool of myprj/webServer promises to its users: a       *)
(* bounded first-in first-out queue of tasks, served by workers that each  *)
(* run one task at a time, closed by a shutdown that either drains the     *)
(* queue or abandons it.  No lock, no ring buffer and no sleeping worker   *)
(* appears here: ThreadPool.tla is shown to implement this module.         *)
(***************************************************************************)
EXTENDS Naturals, Sequences

CONSTANTS Task,       \* what is queued: a handler and a request
          Worker,     \* the worker threads
          Capacity,   \* the queue sizes a pool may be given
          NoTask      \* "runs nothing"

VARIABLES pending,    \* the accepted tasks no worker has taken, oldest first
          running,    \* the task each worker runs
          capacity,   \* the size of the queue
          mode        \* "open", the two shutdowns, "closed"

tqVars == <<pending, running, capacity, mode>>

TQInit ==
    /\ pending = <<>>
    /\ running = [w \in Worker |-> NoTask]
    /\ capacity \in Capacity
    /\ mode = "open"

\* A task enters at the back, while there is room and the queue is open.
HasRoom == Len(pending) < capacity

Submit(t) ==
    /\ mode = "open"
    /\ HasRoom
    /\ pending' = Append(pending, t)
    /\ running' = running /\ capacity' = capacity /\ mode' = mode

\* An idle worker takes the oldest task; an immediate shutdown forbids it.
Take(w) ==
    /\ mode \in {"open", "graceful"}
    /\ pending # <<>>
    /\ running[w] = NoTask
    /\ running' = [running EXCEPT ![w] = Head(pending)]
    /\ pending' = Tail(pending)
    /\ capacity' = capacity /\ mode' = mode

Finish(w) ==
    /\ running[w] # NoTask
    /\ running' = [running EXCEPT ![w] = NoTask]
    /\ pending' = pending /\ capacity' = capacity /\ mode' = mode

Shut(option) ==
    /\ mode = "open"
    /\ mode' = option
    /\ UNCHANGED <<pending, running, capacity>>

\* The shutdown is over only when nothing runs, and a graceful one only when
\* nothing waits either.
Close ==
    /\ mode \in {"graceful", "immediate"}
    /\ mode = "graceful" => pending = <<>>
    /\ \A w \in Worker : running[w] = NoTask
    /\ mode' = "closed"
    /\ UNCHANGED <<pending, running, capacity>>

TQNext ==
    \/ \E t \in Task : Submit(t)
    \/ \E w \in Worker : Take(w) \/ Finish(w)
    \/ \E option \in {"graceful", "immediate"} : Shut(option)
    \/ Close

TQSpec == TQInit /\ [][TQNext]_tqVars
=============================================================================
