-------------------------- MODULE ThreadPoolProofs --------------------------
(***************************************************************************)
(* Proofs about ThreadPool.tla, for every number of threads, every queue   *)
(* size and every set of tasks.  IInv is inductive; the invariants the     *)
(* runs check follow from it, and the pool implements the first-in          *)
(* first-out queue of TaskQueue: Pending reads the ring from head on.      *)
(***************************************************************************)
EXTENDS ThreadPool, FiniteSetTheorems, TLAPS

USE PoolAssumption DEF Worker

\* The arguments create works with are in range whatever it was given.
LEMMA NormaliseInRange ==
    ASSUME NEW args \in CreateArgs
    PROVE  Normalise(args) \in (1..MAX_THREADS) \X (1..MAX_QUEUE)
  BY DEF Normalise

\* A place that is emptied takes its task, which is nowhere else, out of the places.
LEMMA OneLeaves ==
    ASSUME NEW f, NEW g, NEW S, NEW w \in S, NEW t, f[w] = t, t # NoTask,
           \A v \in S : f[v] = t => v = w,
           \A v \in S : g[v] = IF v = w THEN NoTask ELSE f[v]
    PROVE  {g[v] : v \in S} \ {NoTask} = ({f[v] : v \in S} \ {NoTask}) \ {t}
  <1>1. ASSUME NEW v \in S, g[v] # NoTask PROVE g[v] = f[v] /\ f[v] # t
    BY <1>1
  <1>2. ASSUME NEW v \in S, f[v] # t PROVE g[v] = f[v]
    BY <1>2
  <1> QED
    BY <1>1, <1>2

LEMMA WorkerFinite == IsFiniteSet(Worker)
  BY FS_Interval

LEMMA WorkingFinite == IsFiniteSet(Working) /\ Cardinality(Working) \in Nat
  <1>1. Working \subseteq Worker
    BY DEF Working
  <1> QED
    BY <1>1, WorkerFinite, FS_Subset, FS_CardinalityType

\* The pool starts in the invariant.
LEMMA InitIInv == Init => IInv
  <1> SUFFICES ASSUME Init PROVE IInv
    OBVIOUS
  <1> PICK args \in CreateArgs : /\ threadCount = Normalise(args)[1]
                                 /\ queue_size  = Normalise(args)[2]
    BY DEF Init
  <1>1. threadCount \in 1..MAX_THREADS /\ queue_size \in 1..MAX_QUEUE
    BY NormaliseInRange
  <1>2. TypeOK
    <2>1. queue \in [0..(queue_size - 1) -> Task \cup {NoTask}]
      BY DEF Init
    <2>2. /\ head \in 0..(queue_size - 1) /\ tail \in 0..(queue_size - 1)
          /\ count \in 0..queue_size /\ thread_count \in 0..threadCount
          /\ joined \in 0..thread_count /\ started \in Int
      <3>1. /\ head = 0 /\ tail = 0 /\ count = 0
            /\ thread_count = 0 /\ started = 0 /\ joined = 0
        BY DEF Init
      <3> QED
        BY <1>1, <3>1
    <2>3. /\ pc \in [Worker -> {"none", "lock", "wait", "run", "exited"}]
          /\ running \in [Worker -> Task \cup {NoTask}]
          /\ outstanding \subseteq Task
      BY DEF Init
    <2> QED
      BY <1>1, <2>1, <2>2, <2>3 DEF Init, TypeOK
  <1>3. RingConsistent
    <2>1. head = 0 /\ tail = 0 /\ count = 0 /\ queue_size \in Nat \ {0}
      BY <1>1 DEF Init
    <2>2. \A s \in 0..(queue_size - 1) : queue[s] = NoTask
      BY DEF Init
    <2>3. \A s \in 0..(queue_size - 1) : ~InWindow(s)
      BY <2>1 DEF InWindow
    <2> QED
      BY <2>1, <2>2, <2>3 DEF RingConsistent
  <1>4. ExactlyOnce
    BY <1>1 DEF Init, ExactlyOnce, Queued, Served
  <1>5. WorkersConsistent
    <2>1. Working = {}
      BY DEF Init, Working
    <2> QED
      BY <2>1, FS_EmptySet DEF Init, WorkersConsistent
  <1>6. OwnerConsistent
    BY <1>1 DEF Init, OwnerConsistent
  <1> QED
    BY <1>2, <1>3, <1>4, <1>5, <1>6 DEF IInv

-----------------------------------------------------------------------------
(* Every step keeps each conjunct of IInv.                                  *)

LEMMA TypeStep == IInv /\ [Next]_vars => TypeOK'
  <1> SUFFICES ASSUME IInv, [Next]_vars PROVE TypeOK'
    OBVIOUS
  <1> USE DEF IInv, TypeOK
  <1>1. CASE CreateThread
    BY <1>1 DEF CreateThread, ring
  <1>2. CASE CreateFails \/ CreateReturns
    BY <1>2 DEF CreateFails, CreateReturns, ring
  <1>3. ASSUME NEW option \in {"graceful", "immediate"}, Destroy(option)
        PROVE  TypeOK'
    BY <1>3 DEF Destroy, ring, Asleep, Broadcast
  <1>4. CASE DestroyAgain \/ Join \/ Free
    <2>1. CASE DestroyAgain
      BY <2>1 DEF DestroyAgain, ring, owner
    <2>2. CASE Join
      BY <2>2 DEF Join, ring
    <2>3. CASE Free
      BY <2>3 DEF Free, ring
    <2> QED
      BY <1>4, <2>1, <2>2, <2>3
  <1>5. ASSUME NEW t \in Task, Add(t) PROVE TypeOK'
    <2>1. pc' \in [Worker -> {"none", "lock", "wait", "run", "exited"}]
      BY <1>5 DEF Add, Signal, Asleep, Full
    <2> QED
      BY <2>1, <1>5 DEF Add, Succ, owner, Full
  <1>6. ASSUME NEW w \in Worker, Turn(w) \/ SpuriousWakeup(w) \/ FinishTask(w)
        PROVE  TypeOK'
    <2>1. CASE Wait(w) \/ SpuriousWakeup(w)
      BY <2>1 DEF Wait, SpuriousWakeup, ring, owner
    <2>2. CASE TakeTask(w)
      BY <2>2 DEF TakeTask, Exiting, Succ, owner, Vacate
    <2>3. CASE FinishTask(w)
      BY <2>3 DEF FinishTask, ring, owner
    <2>4. CASE Exit(w)
      BY <2>4 DEF Exit, ring, owner
    <2> QED
      BY <1>6, <2>1, <2>2, <2>3, <2>4 DEF Turn
  <1>7. CASE UNCHANGED vars
    BY <1>7 DEF vars, ring, owner
  <1> QED
    BY <1>1, <1>2, <1>3, <1>4, <1>5, <1>6, <1>7 DEF Next

LEMMA RingStep == IInv /\ [Next]_vars => RingConsistent'
  <1> SUFFICES ASSUME IInv, [Next]_vars PROVE RingConsistent'
    OBVIOUS
  <1> USE DEF IInv, TypeOK, RingConsistent, InWindow
  <1>1. CASE UNCHANGED ring
    BY <1>1 DEF ring
  <1>2. ASSUME NEW t \in Task, Add(t) PROVE RingConsistent'
    <2>1. tail' = IF head + count + 1 < queue_size THEN head + count + 1
                  ELSE head + count + 1 - queue_size
      BY <1>2 DEF Add, Succ, Full
    <2>2. ASSUME NEW s \in 0..(queue_size - 1)
          PROVE  queue'[s] # NoTask <=> InWindow(s)'
      BY <1>2, <2>2 DEF Add, Succ, Full
    <2> QED
      BY <1>2, <2>1, <2>2 DEF Add, Full
  <1>3. ASSUME NEW w \in Worker, TakeTask(w) PROVE RingConsistent'
    <2>1. count > 0 /\ head' = Succ(head) /\ count' = count - 1
      BY <1>3 DEF TakeTask, Exiting, Vacate
    <2>2. ASSUME NEW s \in 0..(queue_size - 1)
          PROVE  queue'[s] # NoTask <=> InWindow(s)'
      BY <1>3, <2>1, <2>2 DEF TakeTask, Succ, Vacate
    <2> QED
      BY <1>3, <2>1, <2>2 DEF TakeTask, Succ, Vacate
  <1>4. (\A t \in Task : ~Add(t)) /\ (\A w \in Worker : ~TakeTask(w))
        => UNCHANGED ring
    BY DEF Next, CreateThread, CreateFails, CreateReturns, Destroy,
           DestroyAgain, Join, Free, Turn, Wait, Exit, SpuriousWakeup,
           FinishTask, vars, Broadcast
  <1> QED
    BY <1>1, <1>2, <1>3, <1>4

\* The slot threadpool_add writes is empty.
LEMMA TailIsFree ==
    ASSUME TypeOK, RingConsistent, count # queue_size
    PROVE  queue[tail] = NoTask
  <1>1. ~InWindow(tail)
    BY DEF TypeOK, RingConsistent, InWindow
  <1> QED
    BY <1>1 DEF TypeOK, RingConsistent

\* The slot a worker empties holds a task.
LEMMA HeadIsTask ==
    ASSUME TypeOK, RingConsistent, count # 0
    PROVE  queue[head] \in Task
  <1>1. InWindow(head)
    BY DEF TypeOK, InWindow
  <1> QED
    BY <1>1 DEF TypeOK, RingConsistent

LEMMA ExactlyOnceStep == IInv /\ [Next]_vars => ExactlyOnce'
  <1> SUFFICES ASSUME IInv, [Next]_vars PROVE ExactlyOnce'
    OBVIOUS
  <1> USE DEF IInv, TypeOK
  <1>1. CASE UNCHANGED <<queue, queue_size, running, outstanding>>
    <2>1. Queued' = Queued /\ Served' = Served
      BY <1>1 DEF Queued, Served
    <2> QED
      BY <1>1, <2>1 DEF ExactlyOnce
  <1>2. ASSUME NEW t \in Task, Add(t) PROVE ExactlyOnce'
    <2>1. queue[tail] = NoTask /\ queue' = [queue EXCEPT ![tail] = t]
      BY <1>2, TailIsFree DEF Add, Full
    <2>2. queue_size' = queue_size /\ running' = running
          /\ outstanding' = outstanding \cup {t} /\ t \notin outstanding
      BY <1>2 DEF Add, Full
    <2>3. Queued' = Queued \cup {t}
      BY <2>1, <2>2 DEF Queued
    <2>4. Served' = Served
      BY <2>2 DEF Served
    <2>5. \A s \in 0..(queue_size - 1) : queue[s] # t
      BY <2>2 DEF ExactlyOnce, Queued
    <2> QED
      BY <2>1, <2>2, <2>3, <2>4, <2>5 DEF ExactlyOnce
  <1>3. ASSUME NEW w \in Worker, TakeTask(w) PROVE ExactlyOnce'
    <2> DEFINE t == queue[head]
    <2>1. count # 0 /\ pc[w] = "lock"
      BY <1>3 DEF TakeTask, Exiting, Vacate
    <2>2. t \in Task /\ running[w] = NoTask
      BY <2>1, HeadIsTask DEF WorkersConsistent
    <2>3. /\ queue' = [queue EXCEPT ![head] = NoTask]
          /\ running' = [running EXCEPT ![w] = t]
          /\ UNCHANGED <<queue_size, outstanding>>
      BY <1>3 DEF TakeTask, Vacate
    <2>4. t \in Queued /\ t \notin Served
      BY <2>2 DEF ExactlyOnce, Queued
    <2> HIDE DEF t
    <2>5. Queued' = Queued \ {t}
      <3>1. head \in 0..(queue_size - 1) /\ queue \in [0..(queue_size - 1) -> Task \cup {NoTask}]
        BY DEF TypeOK
      <3>2. \A s \in 0..(queue_size - 1) : queue[s] = t => s = head
        BY <2>2, <3>1 DEF ExactlyOnce, t
      <3>3. \A s \in 0..(queue_size - 1) :
               queue'[s] = IF s = head THEN NoTask ELSE queue[s]
        BY <2>3, <3>1
      <3>4. queue[head] = t /\ t # NoTask /\ queue_size' = queue_size
        BY <2>2, <2>3 DEF t
      <3> HIDE DEF IInv, TypeOK, RingConsistent, ExactlyOnce, WorkersConsistent
      <3> QED
        BY <3>1, <3>2, <3>3, <3>4, OneLeaves DEF Queued
    <2>6. Served' = Served \cup {t}
      BY <2>2, <2>3 DEF Served
    <2>7. \A v \in Worker : running[v] # t
      BY <2>2, <2>4 DEF Served
    <2> QED
      BY <2>2, <2>3, <2>4, <2>5, <2>6, <2>7 DEF ExactlyOnce
  <1>4. ASSUME NEW w \in Worker, FinishTask(w) PROVE ExactlyOnce'
    <2> DEFINE t == running[w]
    <2>1. t \in Task
      BY <1>4 DEF FinishTask, WorkersConsistent
    <2>2. /\ running' = [running EXCEPT ![w] = NoTask]
          /\ outstanding' = outstanding \ {t}
          /\ UNCHANGED <<queue, queue_size>>
      BY <1>4 DEF FinishTask, ring
    <2>3. t \in Served /\ t \notin Queued
      BY <2>1, SMTT(30) DEF ExactlyOnce, Served
    <2>4. Queued' = Queued
      BY <2>2 DEF Queued
    <2>5. Served' = Served \ {t}
      <3>1. \A v \in Worker : running[v] = t => v = w
        BY <2>1 DEF ExactlyOnce
      <3>2. \A v \in Worker : running'[v] = IF v = w THEN NoTask ELSE running[v]
        BY <2>2 DEF TypeOK
      <3>3. running[w] = t /\ t # NoTask
        BY <2>1
      <3> HIDE DEF IInv, TypeOK, WorkersConsistent, ExactlyOnce, t
      <3> QED
        BY <3>1, <3>2, <3>3, OneLeaves DEF Served
    <2> QED
      BY <2>1, <2>2, <2>3, <2>4, <2>5 DEF ExactlyOnce
  <1>5. \/ \E t \in Task : Add(t)
        \/ \E w \in Worker : TakeTask(w) \/ FinishTask(w)
        \/ UNCHANGED <<queue, queue_size, running, outstanding>>
    BY DEF Next, CreateThread, CreateFails, CreateReturns, Destroy, ring,
           DestroyAgain, Join, Free, Turn, Wait, Exit, SpuriousWakeup, vars, Broadcast
  <1> QED
    BY <1>1, <1>2, <1>3, <1>4, <1>5

\* One step of one worker, or none, moves in or out of Working.
LEMMA StartedStep ==
    IInv /\ [Next]_vars => started' = Cardinality(Working)'
  <1> SUFFICES ASSUME IInv, [Next]_vars PROVE started' = Cardinality(Working')
    OBVIOUS
  <1> USE DEF IInv, TypeOK
  <1>0. started = Cardinality(Working) /\ IsFiniteSet(Working)
        /\ Cardinality(Working) \in Nat
    BY WorkingFinite DEF WorkersConsistent
  <1>1. CASE CreateThread
    <2> DEFINE new == thread_count + 1
    <2>1. new \in Worker /\ pc[new] = "none"
      BY <1>1 DEF CreateThread, WorkersConsistent
    <2>2. new \notin Working /\ Working' = Working \cup {new}
      BY <1>1, <2>1 DEF CreateThread, Working
    <2>3. Cardinality(Working') = Cardinality(Working) + 1
      BY <1>0, <2>2, FS_AddElement
    <2> QED
      BY <1>0, <1>1, <2>3 DEF CreateThread
  <1>2. ASSUME NEW w \in Worker, Exit(w) PROVE started' = Cardinality(Working')
    <2>1. w \in Working /\ Working' = Working \ {w}
      BY <1>2 DEF Exit, Working
    <2>2. Cardinality(Working') = Cardinality(Working) - 1
      BY <1>0, <2>1, FS_RemoveElement
    <2> QED
      BY <1>0, <1>2, <2>2 DEF Exit
  <1>3. CASE Working' = Working /\ started' = started
    BY <1>0, <1>3
  <1>4. ASSUME NEW t \in Task, Add(t) PROVE Working' = Working /\ started' = started
    BY <1>4 DEF Add, Signal, Asleep, Working, Full
  <1>5. ASSUME NEW option \in {"graceful", "immediate"}, Destroy(option)
        PROVE  Working' = Working /\ started' = started
    BY <1>5 DEF Destroy, Asleep, Working, Broadcast
  <1>6. ASSUME NEW w \in Worker,
               Wait(w) \/ TakeTask(w) \/ SpuriousWakeup(w) \/ FinishTask(w)
        PROVE  Working' = Working /\ started' = started
    BY <1>6 DEF Wait, TakeTask, SpuriousWakeup, FinishTask, Working, Vacate
  <1>7. ASSUME CreateFails \/ CreateReturns \/ DestroyAgain \/ Join \/ Free
               \/ UNCHANGED vars
        PROVE  Working' = Working /\ started' = started
    BY <1>7 DEF CreateFails, CreateReturns, DestroyAgain, Join, Free, vars,
                Working
  <1> QED
    BY <1>1, <1>2, <1>3, <1>4, <1>5, <1>6, <1>7 DEF Next, Turn

LEMMA WorkersStep == IInv /\ [Next]_vars => WorkersConsistent'
  <1> SUFFICES ASSUME IInv, [Next]_vars PROVE WorkersConsistent'
    OBVIOUS
  <1> USE DEF IInv, TypeOK, WorkersConsistent
  <1>0. started' = Cardinality(Working)'
    BY StartedStep
  <1>1. CASE CreateThread
    BY <1>0, <1>1 DEF CreateThread, ring, OwnerConsistent
  <1>2. ASSUME NEW option \in {"graceful", "immediate"}, Destroy(option)
        PROVE  WorkersConsistent'
    <2>1. \A w \in Worker : pc[w] # "exited"
      BY <1>2 DEF Destroy, OwnerConsistent, Broadcast
    <2> QED
      BY <1>0, <1>2, <2>1 DEF Destroy, Asleep, Broadcast
  <1>3. ASSUME NEW t \in Task, Add(t) PROVE WorkersConsistent'
    <2>1. \A w \in Worker : pc[w] # "exited"
      BY <1>3 DEF Add, Full
    <2>2. UNCHANGED <<running, thread_count, shutdown>> /\ shutdown = "no"
      BY <1>3 DEF Add, owner, Full
    <2>3. CASE Asleep = {} /\ pc' = pc
      BY <1>0, <2>1, <2>2, <2>3
    <2>4. ASSUME NEW v \in Asleep, pc' = [pc EXCEPT ![v] = "lock"]
          PROVE  WorkersConsistent'
      BY <1>0, <2>1, <2>2, <2>4 DEF Asleep
    <2> QED
      BY <1>3, <2>3, <2>4 DEF Add, Signal, Full
  <1>4. ASSUME NEW v \in Worker, Turn(v) PROVE WorkersConsistent'
    <2>1. CASE Wait(v)
      BY <1>0, <2>1 DEF Wait, ring, owner
    <2>2. CASE TakeTask(v)
      <3>1. running'[v] # NoTask
        BY <2>2, HeadIsTask DEF TakeTask, Exiting, Vacate
      <3>2. UNCHANGED <<thread_count, shutdown>>
            /\ pc' = [pc EXCEPT ![v] = "run"] /\ pc[v] = "lock"
            /\ running' = [running EXCEPT ![v] = queue[head]]
        BY <2>2 DEF TakeTask, owner, Vacate
      <3>3. count # 0
        BY <2>2 DEF TakeTask, Exiting, Vacate
      <3>4. \A w \in Worker : pc'[w] = "exited" =>
               /\ shutdown' # "no"
               /\ shutdown' = "graceful" => count' = 0
        BY <3>2, <3>3
      <3> QED
        BY <1>0, <3>1, <3>2, <3>4
    <2>3. CASE Exit(v)
      BY <1>0, <2>3 DEF Exit, Exiting, ring, owner
    <2> QED
      BY <1>4, <2>1, <2>2, <2>3 DEF Turn
  <1>5. ASSUME NEW v \in Worker, SpuriousWakeup(v) \/ FinishTask(v)
        PROVE  WorkersConsistent'
    <2>1. CASE SpuriousWakeup(v)
      BY <1>0, <2>1 DEF SpuriousWakeup, ring, owner
    <2>2. CASE FinishTask(v)
      BY <1>0, <2>2 DEF FinishTask, ring, owner
    <2> QED
      BY <1>5, <2>1, <2>2
  <1>6. ASSUME CreateFails \/ CreateReturns \/ DestroyAgain \/ Join \/ Free
               \/ UNCHANGED vars
        PROVE  WorkersConsistent'
    <2>1. UNCHANGED <<pc, running, thread_count, shutdown, count>>
      BY <1>6 DEF CreateFails, CreateReturns, DestroyAgain, Join, Free, vars,
                  owner, ring
    <2> QED
      BY <1>0, <2>1
  <1> QED
    BY <1>1, <1>2, <1>3, <1>4, <1>5, <1>6 DEF Next

LEMMA OwnerStep == IInv /\ [Next]_vars => OwnerConsistent'
  <1> SUFFICES ASSUME IInv, [Next]_vars PROVE OwnerConsistent'
    OBVIOUS
  <1> USE DEF IInv, TypeOK, OwnerConsistent
  <1>1. CASE CreateThread
    BY <1>1 DEF CreateThread
  <1>2. CASE CreateFails \/ CreateReturns
    BY <1>2 DEF CreateFails, CreateReturns
  <1>3. ASSUME NEW option \in {"graceful", "immediate"}, Destroy(option)
        PROVE  OwnerConsistent'
    BY <1>3 DEF Destroy, Asleep, Broadcast
  <1>4. CASE DestroyAgain
    BY <1>4 DEF DestroyAgain, owner
  <1>5. CASE Join
    BY <1>5 DEF Join
  <1>6. CASE Free
    BY <1>6 DEF Free
  <1>7. ASSUME NEW t \in Task, Add(t) PROVE OwnerConsistent'
    <2>1. joined = 0
      BY <1>7 DEF Add, Full
    <2> QED
      BY <1>7, <2>1 DEF Add, owner, Full
  <1>8. ASSUME NEW v \in Worker, Turn(v) \/ SpuriousWakeup(v) \/ FinishTask(v)
        PROVE  OwnerConsistent'
    <2>1. UNCHANGED <<owner, shutdown, lock>>
      BY <1>8 DEF Turn, Wait, TakeTask, Exit, SpuriousWakeup, FinishTask, Vacate
    <2>2. \A w \in Worker : pc[w] = "exited" => pc'[w] = "exited"
      BY <1>8 DEF Turn, Wait, TakeTask, Exit, SpuriousWakeup, FinishTask, Vacate
    <2> QED
      BY <2>1, <2>2 DEF owner
  <1>9. CASE UNCHANGED vars
    BY <1>9 DEF vars, owner
  <1> QED
    BY <1>1, <1>2, <1>3, <1>4, <1>5, <1>6, <1>7, <1>8, <1>9 DEF Next

THEOREM IInvInvariant == Spec => []IInv
  <1>1. Init => IInv
    BY InitIInv
  <1>2. IInv /\ [Next]_vars => IInv'
    BY TypeStep, RingStep, ExactlyOnceStep, WorkersStep, OwnerStep DEF IInv
  <1> QED
    BY <1>1, <1>2, PTL DEF Spec

-----------------------------------------------------------------------------
(* The invariants of the runs.                                              *)

\* Every variable keeps its type: the indexes stay inside the ring, the counts
\* inside their bounds.
THEOREM TypeCorrect == Spec => []TypeOK
  BY IInvInvariant, PTL DEF IInv

\* The ring is one window of tasks and every other slot is empty, whatever the
\* size of the queue (ThreadPool.cpp:66-102, 174-180).
THEOREM RingIsConsistent == Spec => []RingConsistent
  BY IInvInvariant, PTL DEF IInv

\* No accepted task is lost or handed to two threads.
THEOREM TasksExactlyOnce == Spec => []ExactlyOnce
  BY IInvInvariant, PTL DEF IInv

\* After the joins no started thread is left, and none touches the mutex once
\* threadpool_free has destroyed it.
THEOREM JoinStopsAll == Spec => []JoinedAllStopped
  <1>1. IInv => JoinedAllStopped
    <2> SUFFICES ASSUME IInv PROVE JoinedAllStopped
      OBVIOUS
    <2> USE DEF IInv, TypeOK, OwnerConsistent, WorkersConsistent
    <2>1. joined = thread_count => Working = {}
      BY DEF Working
    <2>2. caller = "join" /\ joined = thread_count => started = 0
      BY <2>1, FS_EmptySet
    <2>3. lock = "destroyed" => \A w \in Worker : pc[w] \in {"none", "exited"}
      BY <2>1 DEF Working
    <2> QED
      BY <2>2, <2>3 DEF JoinedAllStopped
  <1> QED
    BY <1>1, IInvInvariant, PTL

\* Nothing accepted is left when a gracefully shut down pool is freed.
THEOREM GracefulDrains == Spec => []DrainedWhenFreed
  <1>1. IInv => DrainedWhenFreed
    <2> SUFFICES ASSUME IInv, caller = "freed", shutdown = "graceful"
                 PROVE  outstanding = {}
      BY DEF DrainedWhenFreed
    <2> USE DEF IInv, TypeOK, OwnerConsistent, WorkersConsistent
    <2>1. 1 \in Worker /\ pc[1] = "exited"
      OBVIOUS
    <2>2. count = 0
      BY <2>1
    <2>3. Queued = {}
      BY <2>2 DEF Queued, RingConsistent, InWindow
    <2>4. \A w \in Worker : pc[w] # "run"
      OBVIOUS
    <2>5. Served = {}
      BY <2>4 DEF Served
    <2> QED
      BY <2>3, <2>5 DEF ExactlyOnce
  <1> QED
    BY <1>1, IInvInvariant, PTL

LEMMA ContendingFinite ==
    IsFiniteSet(Contending) /\ Cardinality(Contending) \in Nat
  <1>1. Contending \subseteq Worker
    BY DEF Contending
  <1> QED
    BY <1>1, WorkerFinite, FS_Subset, FS_CardinalityType

\* More threads on their way to the mutex serve as many tasks as before.
LEMMA MoreContenders ==
    ASSUME IInv, NoSleeperNeeded, IInv',
           Contending \subseteq Contending', count' = count,
           Asleep' \subseteq Asleep
    PROVE  NoSleeperNeeded'
  <1>1. IsFiniteSet(Contending')
    <2>1. IsFiniteSet(Worker)
      BY WorkerFinite
    <2>2. Contending' \subseteq Worker
      BY DEF Contending
    <2> QED
      BY <2>1, <2>2, FS_Subset
  <1>2. Cardinality(Contending) <= Cardinality(Contending')
    BY <1>1, FS_Subset
  <1>3. Cardinality(Contending) \in Nat /\ Cardinality(Contending') \in Nat
    BY <1>1, ContendingFinite, FS_CardinalityType
  <1>4. count \in Nat
    BY DEF IInv, TypeOK
  <1>5. ASSUME Asleep' # {} PROVE count' <= Cardinality(Contending')
    <2>1. Asleep # {}
      BY <1>5
    <2>2. count <= Cardinality(Contending)
      BY <2>1 DEF NoSleeperNeeded
    <2> QED
      BY <1>2, <1>3, <1>4, <2>2
  <1> QED
    BY <1>5 DEF NoSleeperNeeded

LEMMA SleeperStep ==
    ASSUME IInv, IInv', NoSleeperNeeded, [Next]_vars
    PROVE  NoSleeperNeeded'
  <1> USE DEF IInv, TypeOK
  <1>0. IsFiniteSet(Contending) /\ Cardinality(Contending) \in Nat
    BY ContendingFinite
  <1>1. CASE CreateThread
    <2>1. pc[thread_count + 1] = "none"
      BY <1>1 DEF CreateThread, WorkersConsistent
    <2> QED
      BY <1>1, <2>1, MoreContenders DEF CreateThread, ring, Contending, Asleep
  <1>2. ASSUME NEW option \in {"graceful", "immediate"}, Destroy(option)
        PROVE  NoSleeperNeeded'
    BY <1>2 DEF Destroy, NoSleeperNeeded, Asleep, Broadcast
  <1>3. ASSUME NEW t \in Task, Add(t) PROVE NoSleeperNeeded'
    <2>1. CASE Asleep = {} /\ pc' = pc
      BY <2>1 DEF NoSleeperNeeded, Asleep
    <2>2. ASSUME NEW v \in Asleep, pc' = [pc EXCEPT ![v] = "lock"]
          PROVE  NoSleeperNeeded'
      <3>1. v \notin Contending /\ Contending' = Contending \cup {v}
        BY <2>2 DEF Contending, Asleep
      <3>2. Cardinality(Contending') = Cardinality(Contending) + 1
        BY <1>0, <3>1, FS_AddElement
      <3>3. count <= Cardinality(Contending) /\ count' = count + 1
            /\ count \in Nat
        BY <1>3, <2>2 DEF NoSleeperNeeded, Add, Full
      <3> HIDE DEF IInv, TypeOK
      <3>4. count' <= Cardinality(Contending')
        BY <1>0, <3>2, <3>3
      <3> QED
        BY <3>4 DEF NoSleeperNeeded
    <2> QED
      BY <1>3, <2>1, <2>2 DEF Add, Signal, Full
  <1>4. ASSUME NEW w \in Worker, Wait(w) PROVE NoSleeperNeeded'
    <2>1. count' = 0
      BY <1>4 DEF Wait, ring
    <2>2. IsFiniteSet(Contending')
      <3>1. IsFiniteSet(Worker)
        BY WorkerFinite
      <3>2. Contending' \subseteq Worker
        BY DEF Contending
      <3> QED
        BY <3>1, <3>2, FS_Subset
    <2>3. Cardinality(Contending') \in Nat
      BY <2>2, FS_CardinalityType
    <2> QED
      BY <2>1, <2>3 DEF NoSleeperNeeded
  <1>5. ASSUME NEW w \in Worker, TakeTask(w) PROVE NoSleeperNeeded'
    <2>1. w \in Contending /\ Contending' = Contending \ {w} /\ Asleep' = Asleep
      BY <1>5 DEF TakeTask, Contending, Asleep, Vacate
    <2>2. Cardinality(Contending') = Cardinality(Contending) - 1
      BY <1>0, <2>1, FS_RemoveElement
    <2>3. count' = count - 1
      BY <1>5 DEF TakeTask, Vacate
    <2>4. Asleep' # {} => count <= Cardinality(Contending)
      BY <2>1 DEF NoSleeperNeeded
    <2>5. ASSUME Asleep' # {} PROVE count' <= Cardinality(Contending')
      <3>1. count <= Cardinality(Contending) /\ count \in Nat
        BY <2>4, <2>5
      <3> HIDE DEF IInv, TypeOK
      <3> QED
        BY <1>0, <2>2, <2>3, <3>1
    <2> QED
      BY <2>5 DEF NoSleeperNeeded
  <1>6. ASSUME NEW w \in Worker, Exit(w) PROVE NoSleeperNeeded'
    <2>1. shutdown' # "no"
      BY <1>6 DEF Exit, Exiting
    <2> QED
      BY <2>1 DEF WorkersConsistent, NoSleeperNeeded, Asleep
  <1>7. ASSUME NEW w \in Worker, SpuriousWakeup(w) \/ FinishTask(w)
        PROVE  NoSleeperNeeded'
    <2>1. count' = count
      BY <1>7 DEF SpuriousWakeup, FinishTask, ring
    <2>2. Contending \subseteq Contending' /\ Asleep' \subseteq Asleep
      BY <1>7 DEF SpuriousWakeup, FinishTask, Contending, Asleep
    <2> QED
      BY <2>1, <2>2, MoreContenders
  <1>8. ASSUME CreateFails \/ CreateReturns \/ DestroyAgain \/ Join \/ Free
               \/ UNCHANGED vars
        PROVE  NoSleeperNeeded'
    <2>1. UNCHANGED <<pc, count>>
      BY <1>8 DEF CreateFails, CreateReturns, DestroyAgain, Join, Free, vars,
                  ring
    <2> QED
      BY <2>1 DEF NoSleeperNeeded, Contending, Asleep
  <1> QED
    BY <1>1, <1>2, <1>3, <1>4, <1>5, <1>6, <1>7, <1>8 DEF Next, Turn

\* One signal per task is enough: while a thread sleeps, every queued task has
\* a thread on its way to the mutex (ThreadPool.cpp:92, 161-164).
THEOREM NoLostWakeup == Spec => []NoSleeperNeeded
  <1>1. Init => NoSleeperNeeded
    BY DEF Init, NoSleeperNeeded, Asleep
  <1>2. IInv /\ IInv' /\ NoSleeperNeeded /\ [Next]_vars => NoSleeperNeeded'
    BY SleeperStep
  <1> QED
    BY <1>1, <1>2, IInvInvariant, PTL DEF Spec

-----------------------------------------------------------------------------
(* The queue that the pool implements.                                      *)

PendingReadsRing ==
    /\ Pending \in Seq(Task)
    /\ Len(Pending) = count
    /\ \A i \in 1..count : Pending[i] = queue[Slot(i - 1)]

LEMMA PendingType == TypeOK /\ RingConsistent => PendingReadsRing
  <1> SUFFICES ASSUME TypeOK, RingConsistent PROVE PendingReadsRing
    OBVIOUS
  <1>1. ASSUME NEW i \in 1..count PROVE queue[Slot(i - 1)] \in Task
    <2>1. Slot(i - 1) \in 0..(queue_size - 1) /\ InWindow(Slot(i - 1))
      BY DEF TypeOK, Slot, InWindow
    <2> QED
      BY <2>1 DEF TypeOK, RingConsistent
  <1>2. count \in Nat
    BY DEF TypeOK
  <1> QED
    BY <1>1, <1>2 DEF Pending, PendingReadsRing

\* A task added at tail is the last of the sequence.
LEMMA AddAppends ==
    ASSUME IInv, PendingReadsRing, PendingReadsRing', NEW t \in Task, Add(t)
    PROVE  Pending' = Append(Pending, t)
  <1> USE DEF IInv
  <1> PICK n \in Nat : n = count
    BY DEF TypeOK
  <1>1. count' = n + 1
    BY DEF Add, Full
  <1>2. ASSUME NEW i \in 1..n PROVE Pending'[i] = Pending[i]
    <2>1. Slot(i - 1)' = Slot(i - 1) /\ Slot(i - 1) # tail
          /\ Slot(i - 1) \in 0..(queue_size - 1)
      BY DEF Add, Slot, TypeOK, RingConsistent, Full
    <2>2. queue'[Slot(i - 1)] = queue[Slot(i - 1)]
      BY <2>1 DEF Add, TypeOK, Full
    <2> QED
      BY <1>1, <2>1, <2>2 DEF PendingReadsRing
  <1>3. Pending'[n + 1] = t
    <2>1. Slot(n)' = tail
      BY DEF Add, Slot, TypeOK, RingConsistent, Full
    <2>2. queue'[tail] = t
      BY DEF Add, TypeOK, Full
    <2> QED
      BY <1>1, <2>1, <2>2 DEF PendingReadsRing
  <1> QED
    BY <1>1, <1>2, <1>3 DEF PendingReadsRing

\* The task a worker takes at head is the first of the sequence.
LEMMA TakeHeads ==
    ASSUME IInv, PendingReadsRing, PendingReadsRing', NEW w \in Worker,
           TakeTask(w)
    PROVE  /\ Pending # <<>> /\ Head(Pending) = queue[head]
           /\ Pending' = Tail(Pending)
  <1> USE DEF IInv
  <1> PICK n \in Nat : n = count
    BY DEF TypeOK
  <1>1. n > 0 /\ count' = n - 1
    BY DEF TakeTask, Exiting, TypeOK, Vacate
  <1>2. Pending[1] = queue[head]
    BY <1>1 DEF PendingReadsRing, Slot, TypeOK
  <1>3. ASSUME NEW i \in 1..(n - 1) PROVE Pending'[i] = Pending[i + 1]
    <2>1. Slot(i - 1)' = Slot(i) /\ Slot(i) # head
          /\ Slot(i) \in 0..(queue_size - 1)
      BY DEF TakeTask, Succ, Slot, TypeOK, Vacate
    <2>2. queue'[Slot(i)] = queue[Slot(i)]
      BY <2>1 DEF TakeTask, TypeOK, Vacate
    <2>3. Pending'[i] = queue'[Slot(i - 1)']
      BY <1>1 DEF PendingReadsRing
    <2>4. Pending[i + 1] = queue[Slot(i)]
      BY <1>1 DEF PendingReadsRing
    <2> QED
      BY <2>1, <2>2, <2>3, <2>4
  <1> QED
    BY <1>1, <1>2, <1>3 DEF PendingReadsRing

-----------------------------------------------------------------------------

LEMMA InitMapsToInit == Init => TQ!TQInit
  <1> SUFFICES ASSUME Init PROVE TQ!TQInit
    OBVIOUS
  <1>1. Pending = <<>>
    BY DEF Init, Pending
  <1>2. queue_size \in 1..MAX_QUEUE
    BY NormaliseInRange DEF Init
  <1> QED
    BY <1>1, <1>2 DEF Init, Mode, TQ!TQInit

\* Every step is a step of the abstract queue or leaves it as it is.
LEMMA StepMapsToStep ==
    ASSUME IInv, JoinedAllStopped', PendingReadsRing, PendingReadsRing', [Next]_vars
    PROVE  [TQ!TQNext]_(TQ!tqVars)
  <1> USE DEF IInv
  <1>1. ASSUME NEW t \in Task, Add(t) PROVE TQ!Submit(t)
    <2>1. Mode = "open" /\ Mode' = "open"
      BY <1>1 DEF Add, Mode, owner, Full
    <2>2. Len(Pending) < queue_size
      BY <1>1 DEF Add, PendingReadsRing, TypeOK, Full
    <2>3. Pending' = Append(Pending, t)
      BY <1>1, AddAppends
    <2> QED
      BY <1>1, <2>1, <2>2, <2>3 DEF TQ!Submit, TQ!HasRoom, Add, Full
  <1>2. ASSUME NEW w \in Worker, TakeTask(w) PROVE TQ!Take(w)
    <2>1. Mode \in {"open", "graceful"} /\ Mode' = Mode
      BY <1>2 DEF TakeTask, Exiting, Mode, owner, TypeOK, OwnerConsistent,
                  WorkersConsistent, JoinedAllStopped, Vacate
    <2>2. running[w] = NoTask
      BY <1>2 DEF TakeTask, WorkersConsistent, Vacate
    <2>3. Pending # <<>> /\ Head(Pending) = queue[head]
          /\ Pending' = Tail(Pending)
      BY <1>2, TakeHeads
    <2> QED
      BY <1>2, <2>1, <2>2, <2>3 DEF TQ!Take, TakeTask, Vacate
  <1>3. ASSUME NEW w \in Worker, FinishTask(w) PROVE TQ!Finish(w)
    BY <1>3 DEF FinishTask, TQ!Finish, WorkersConsistent, Mode, Pending, Slot,
                ring, owner
  <1>4. ASSUME NEW option \in {"graceful", "immediate"}, Destroy(option)
        PROVE  TQ!Shut(option)
    BY <1>4 DEF Destroy, TQ!Shut, Mode, Pending, Slot, ring, OwnerConsistent, Broadcast
  <1>5. ASSUME Free PROVE TQ!Close
    <2>1. /\ Mode \in {"graceful", "immediate"} /\ Mode' = "closed"
          /\ UNCHANGED <<Pending, running, queue_size, outstanding, shutdown>>
      BY <1>5 DEF Free, Mode, Pending, Slot, ring, TypeOK, OwnerConsistent
    <2>2. \A w \in Worker : running[w] = NoTask
      BY <1>5 DEF Free, JoinedAllStopped, WorkersConsistent
    <2>3. Mode = "graceful" => Pending = <<>>
      <3>1. Mode = "graceful" => shutdown = "graceful" /\ pc[1] = "exited"
        BY <1>5 DEF Free, Mode, TypeOK, OwnerConsistent
      <3>2. 1 \in Worker
        BY PoolAssumption DEF Worker
      <3>3. Mode = "graceful" => count = 0
        BY <3>1, <3>2 DEF WorkersConsistent
      <3> QED
        BY <3>3 DEF PendingReadsRing
    <2> QED
      BY <2>1, <2>2, <2>3 DEF TQ!Close
  <1>6. ASSUME \/ CreateThread \/ CreateFails \/ CreateReturns
               \/ DestroyAgain \/ Join \/ UNCHANGED vars
               \/ \E w \in Worker : Wait(w) \/ Exit(w) \/ SpuriousWakeup(w)
        PROVE  UNCHANGED TQ!tqVars
    <2>1. UNCHANGED <<ring, running, shutdown>>
          /\ (caller' = "freed" <=> caller = "freed")
      BY <1>6 DEF CreateThread, CreateFails, CreateReturns, DestroyAgain, Join,
                  vars, Wait, Exit, SpuriousWakeup, owner
    <2> QED
      BY <2>1 DEF TQ!tqVars, Mode, Pending, Slot, ring
  <1>7. CASE \E t \in Task : Add(t)
    BY <1>7, <1>1 DEF TQ!TQNext
  <1>8. CASE \E w \in Worker : TakeTask(w) \/ FinishTask(w)
    BY <1>8, <1>2, <1>3 DEF TQ!TQNext
  <1>9. CASE \E option \in {"graceful", "immediate"} : Destroy(option)
    BY <1>9, <1>4 DEF TQ!TQNext
  <1>10. CASE Free
    BY <1>10, <1>5 DEF TQ!TQNext
  <1> QED
    BY <1>6, <1>7, <1>8, <1>9, <1>10 DEF Next, Turn

\* The ring, the mutex and the sleeping threads together are a bounded first-in
\* first-out queue whose graceful shutdown closes it empty.
THEOREM RefinesTaskQueue == Spec => ImplementsTaskQueue
  <1>1. Spec => []PendingReadsRing
    BY PendingType, IInvInvariant, PTL DEF IInv
  <1>2. IInv /\ JoinedAllStopped' /\ PendingReadsRing
        /\ PendingReadsRing' /\ [Next]_vars => [TQ!TQNext]_(TQ!tqVars)
    BY StepMapsToStep
  <1> QED
    BY <1>1, <1>2, InitMapsToInit, IInvInvariant, JoinStopsAll, PTL
       DEF Spec, ImplementsTaskQueue, TQ!TQSpec
=============================================================================
