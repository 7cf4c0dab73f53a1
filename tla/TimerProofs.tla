----------------------------- MODULE TimerProofs -----------------------------
(***************************************************************************)
(* Proofs about Timer.tla, for every number of connections, nodes and      *)
(* timeouts: whatever the events, the workers and the sweep interleave, a  *)
(* timer closes no connection but the one it was added for, and that one   *)
(* only when its deadline has passed.                                      *)
(***************************************************************************)
EXTENDS Timer, TLAPS

USE TimerAssumption

LEMMA InitIInv == Init => IInv
  <1> SUFFICES ASSUME Init PROVE IInv
    OBVIOUS
  <1>1. TypeOK
    BY DEF Init, TypeOK
  <1>2. OnlyLinkedNodeCounts
    BY DEF Init, OnlyLinkedNodeCounts
  <1>3. HeldConsistent /\ DeletedIsEmpty
    BY DEF Init, HeldConsistent, DeletedIsEmpty
  <1> QED
    BY <1>1, <1>2, <1>3 DEF IInv

-----------------------------------------------------------------------------
(* Every step keeps IInv: one lemma per action.                             *)

\* addTimer takes a node nobody holds, for a request no node has.
LEMMA PushStep ==
    ASSUME IInv, NEW r \in Request, NEW t \in Timeouts, Push(r, t)
    PROVE  IInv'
  <1> PICK n \in Unused : /\ heap' = heap \cup {n}
                          /\ left' = [left EXCEPT ![n] = t]
                          /\ deleted' = [deleted EXCEPT ![n] = FALSE]
                          /\ req' = [req EXCEPT ![n] = r]
                          /\ held' = [held EXCEPT ![r] = n]
    BY DEF Push
  <1> USE DEF IInv, TypeOK
  <1>1. n \in Node /\ n \notin heap /\ n # None /\ \A q \in Request : held[q] # n
    BY DEF Unused
  <1>2. TypeOK'
    BY <1>1 DEF Push
  <1>3. OnlyLinkedNodeCounts'
    BY <1>1 DEF Push, OnlyLinkedNodeCounts, HeldConsistent
  <1>4. HeldConsistent'
    BY <1>1 DEF Push, HeldConsistent
  <1>5. DeletedIsEmpty'
    BY <1>1 DEF Push, DeletedIsEmpty
  <1> QED
    BY <1>2, <1>3, <1>4, <1>5 DEF IInv

LEMMA LinkStep ==
    ASSUME IInv, NEW r \in Request, Link(r)
    PROVE  IInv'
  <1> USE DEF IInv, TypeOK
  <1>1. TypeOK'
    BY DEF Link
  <1>2. OnlyLinkedNodeCounts'
    BY DEF Link, OnlyLinkedNodeCounts, HeldConsistent
  <1>3. HeldConsistent'
    BY DEF Link, HeldConsistent
  <1>4. DeletedIsEmpty'
    BY DEF Link, DeletedIsEmpty
  <1> QED
    BY <1>1, <1>2, <1>3, <1>4 DEF IInv

LEMMA AcceptStep ==
    ASSUME IInv, NEW r \in Request, Accept(r)
    PROVE  IInv'
  <1> PICK n \in Unused : /\ heap' = heap \cup {n}
                          /\ left' = [left EXCEPT ![n] = TIMER_TIME_OUT]
                          /\ deleted' = [deleted EXCEPT ![n] = FALSE]
                          /\ req' = [req EXCEPT ![n] = r]
                          /\ link' = [link EXCEPT ![r] = n]
    BY DEF Accept
  <1> USE DEF IInv, TypeOK
  <1>1. n \in Node /\ n \notin heap /\ n # None /\ \A q \in Request : held[q] # n
    BY DEF Unused
  <1>2. TypeOK'
    BY <1>1 DEF Accept
  <1>3. OnlyLinkedNodeCounts'
    BY <1>1 DEF Accept, OnlyLinkedNodeCounts, HeldConsistent
  <1>4. HeldConsistent'
    BY <1>1 DEF Accept, HeldConsistent
  <1>5. DeletedIsEmpty'
    BY <1>1 DEF Accept, DeletedIsEmpty
  <1> QED
    BY <1>2, <1>3, <1>4, <1>5 DEF IInv

\* An event empties the one node of its connection.
LEMMA EventStep ==
    ASSUME IInv, NEW r \in Request, Event(r)
    PROVE  IInv'
  <1> USE DEF IInv, TypeOK
  <1>1. TypeOK'
    BY DEF Event, Seperate
  <1>2. OnlyLinkedNodeCounts'
    BY DEF Event, Seperate, OnlyLinkedNodeCounts, HeldConsistent
  <1>3. HeldConsistent'
    BY DEF Event, Seperate, OnlyLinkedNodeCounts, HeldConsistent
  <1>4. DeletedIsEmpty'
    BY DEF Event, Seperate, DeletedIsEmpty
  <1> QED
    BY <1>1, <1>2, <1>3, <1>4 DEF IInv

LEMMA DropStep ==
    ASSUME IInv, NEW r \in Request, Drop(r)
    PROVE  IInv'
  BY DEF Drop, IInv, TypeOK, OnlyLinkedNodeCounts, HeldConsistent, DeletedIsEmpty

\* A node that dies held the request linked to it, or none.
LEMMA PopStep ==
    ASSUME IInv, NEW n \in Node, Pop(n)
    PROVE  IInv'
  <1> USE DEF IInv, TypeOK
  <1>1. n \in heap
    BY DEF Pop, Top
  <1>2. TypeOK'
    <2>1. heap' \subseteq Node /\ left' = left /\ held' = held /\ sweeping' = sweeping
      BY DEF Pop
    <2>2. CASE \E r \in Request : held[r] = n
      BY <2>1, <2>2 DEF Pop
    <2>3. CASE ~\E r \in Request : held[r] = n
      <3>1. link' \in [Request -> Node \cup {None}]
        BY <2>3 DEF Pop
      <3>2. stage' \in [Request -> {"closed", "idle", "busy"}]
        BY <2>3 DEF Pop
      <3>3. req' \in [Node -> Request \cup {None}] /\ deleted' = deleted
        BY <2>3 DEF Pop
      <3> QED
        BY <2>1, <3>1, <3>2, <3>3
    <2> QED
      BY <2>2, <2>3
  <1>3. OnlyLinkedNodeCounts'
    <2>1. CASE \E r \in Request : held[r] = n
      <3>1. heap' = heap \ {n} /\ req' = req /\ link' = link /\ stage' = stage
            /\ held' = held
        BY <2>1 DEF Pop
      <3>2. ASSUME NEW r \in Request, stage[r] = "idle" PROVE link[r] # n
        BY <2>1, <3>2 DEF OnlyLinkedNodeCounts, HeldConsistent
      <3> QED
        BY <3>1, <3>2 DEF OnlyLinkedNodeCounts
    <2>2. CASE ~\E r \in Request : held[r] = n
      BY <1>1, <2>2 DEF Pop, OnlyLinkedNodeCounts, HeldConsistent
    <2> QED
      BY <2>1, <2>2
  <1>4. HeldConsistent'
    BY <1>1 DEF Pop, HeldConsistent, OnlyLinkedNodeCounts
  <1>5. DeletedIsEmpty'
    BY DEF Pop, DeletedIsEmpty
  <1> QED
    BY <1>2, <1>3, <1>4, <1>5 DEF IInv

LEMMA OtherStep ==
    ASSUME IInv, StartSweep \/ EndSweep \/ Tick \/ UNCHANGED vars
    PROVE  IInv'
  <1>1. UNCHANGED <<heap, deleted, req, link, held, stage>>
    BY DEF StartSweep, EndSweep, Tick, vars
  <1>2. TypeOK'
    <2>1. CASE StartSweep \/ EndSweep \/ UNCHANGED vars
      <3>1. left' = left /\ sweeping' \in {TRUE, FALSE, sweeping}
        BY <2>1 DEF StartSweep, EndSweep, vars
      <3> QED
        BY <1>1, <3>1 DEF IInv, TypeOK
    <2>2. CASE Tick
      <3>1. left \in [Node -> Nat]
        BY DEF IInv, TypeOK
      <3>2. left' \in [Node -> Nat] /\ sweeping' = sweeping
        BY <2>2, <3>1 DEF Tick, Elapse
      <3> QED
        BY <1>1, <3>2 DEF IInv, TypeOK
    <2> QED
      BY <2>1, <2>2
  <1>3. OnlyLinkedNodeCounts'
    BY <1>1 DEF IInv, OnlyLinkedNodeCounts
  <1>4. HeldConsistent' /\ DeletedIsEmpty'
    BY <1>1 DEF IInv, HeldConsistent, DeletedIsEmpty
  <1> QED
    BY <1>2, <1>3, <1>4 DEF IInv

THEOREM IInvInvariant == Spec => []IInv
  <1>1. IInv /\ [Next]_vars => IInv'
    BY PushStep, LinkStep, AcceptStep, EventStep, DropStep, PopStep, OtherStep
       DEF Next
  <1> QED
    BY InitIInv, <1>1, PTL DEF Spec

-----------------------------------------------------------------------------

\* The state of the heap and of the requests stays well formed.
THEOREM TypeCorrect == Spec => []TypeOK
  BY IInvInvariant, PTL DEF IInv

\* A connection can only be closed by the node it is linked to (or is just being
\* given): emptying that node is enough to protect a served connection.
THEOREM LinkedNodeIsTheOnlyOne == Spec => []OnlyLinkedNodeCounts
  BY IInvInvariant, PTL DEF IInv

\* No sweep closes a connection before its deadline.
THEOREM NeverClosedEarly == Spec => ClosedOnlyWhenExpired
  <1>1. ASSUME IInv, [Next]_vars, NEW r \in Request,
               heap' # heap, heap' \subseteq heap, stage'[r] # stage[r]
        PROVE  stage[r] = "idle" /\ left[link[r]] = 0
    <2>1. PICK n \in Node : Pop(n)
      BY <1>1 DEF Next, Push, Link, Accept, Event, Seperate, Drop, StartSweep,
                  EndSweep, Tick, vars, Unused
    <2>2. n \in heap /\ Due(n) /\ req[n] = r /\ held[r] # n
      BY <1>1, <2>1 DEF Pop, Top, IInv, TypeOK
    <2> QED
      BY <2>2, <1>1 DEF IInv, TypeOK, OnlyLinkedNodeCounts, DeletedIsEmpty, Due
  <1>2. IInv /\ [Next]_vars => [\A r \in Request :
          heap' # heap /\ heap' \subseteq heap /\ stage'[r] # stage[r] =>
             stage[r] = "idle" /\ left[link[r]] = 0]_vars
    BY <1>1
  <1> QED
    BY <1>2, IInvInvariant, PTL DEF Spec, ClosedOnlyWhenExpired

\* A sweep that stops leaves no expired node behind.
THEOREM SweepIsComplete == Spec => SweepTakesAllExpired
  <1>1. ASSUME IInv, [Next]_vars, sweeping, ~sweeping', NEW n \in heap
        PROVE  left[n] > 0
    <2>1. EndSweep
      BY <1>1 DEF Next, Push, Link, Accept, Event, Seperate, Drop, StartSweep,
                  Pop, Tick, vars
    <2>2. PICK m \in Top : ~Due(m)
      BY <1>1, <2>1 DEF EndSweep
    <2>3. left[m] \in Nat /\ left[n] \in Nat /\ left[m] # 0 /\ left[m] <= left[n]
      BY <2>2, <1>1 DEF Top, Due, IInv, TypeOK
    <2> QED
      BY <2>3
  <1>2. IInv /\ [Next]_vars =>
          [sweeping /\ ~sweeping' => \A n \in heap : left[n] > 0]_vars
    BY <1>1
  <1> QED
    BY <1>2, IInvInvariant, PTL DEF Spec, SweepTakesAllExpired
=============================================================================
