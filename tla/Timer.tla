------------------------------- MODULE Timer -------------------------------
(***************************************************************************)
(* TimerManager and TimerNode of myprj/webServer: a heap of nodes ordered  *)
(* by deadline, each holding the request it times out.  The main thread    *)
(* separates a request from its node when an event arrives and sweeps the  *)
(* heap at the end of every iteration; the thread that serves a request    *)
(* adds a node when it is done.  Deleted nodes stay in the heap until they *)
(* come to its top.  Deadlines are kept as the time left, lowered by Tick. *)
(***************************************************************************)
EXTENDS Integers, FiniteSets

CONSTANTS Request,          \* connections
          Node,             \* bounds the nodes alive at once
          None,
          Timeouts,         \* the timeouts addTimer is called with
          TIMER_TIME_OUT    \* the one of a new connection

ASSUME TimerAssumption ==
    /\ None \notin Request \cup Node
    /\ Timeouts \subseteq Nat \ {0}
    /\ TIMER_TIME_OUT \in Timeouts

VARIABLES heap,      \* the nodes in _timerNodeQueue
          left,      \* per node: time left, 0 = getCurTime() >= _expiredTime
          deleted,   \* per node: _deleted
          req,       \* per node: _requestData
          link,      \* per request: timer, the weak pointer to its node
          held,      \* per request: the node addTimer holds between push and return
          stage,     \* per request: "closed", "idle" (watched), "busy" (served)
          sweeping   \* the main thread is inside handleExpiredEvent

vars == <<heap, left, deleted, req, link, held, stage, sweeping>>

Init ==
    /\ heap = {}
    /\ left = [n \in Node |-> 0]
    /\ deleted = [n \in Node |-> FALSE]
    /\ req = [n \in Node |-> None]
    /\ link = [r \in Request |-> None]
    /\ held = [r \in Request |-> None]
    /\ stage = [r \in Request |-> "closed"]
    /\ sweeping = FALSE

\* Nodes nobody holds: their memory is free.
Unused == {n \in Node : n \notin heap /\ \A r \in Request : held[r] # n}

-----------------------------------------------------------------------------
(* addTimer: the node is pushed under the mutex and linked after it.  The   *)
(* mutex is held for the whole sweep, so a push waits for its end; the link *)
(* does not.                                                                *)

Push(r, timeout) ==
    /\ ~sweeping
    /\ stage[r] = "busy" /\ held[r] = None
    /\ \E n \in Unused :
          /\ heap' = heap \cup {n}
          /\ left' = [left EXCEPT ![n] = timeout]
          /\ deleted' = [deleted EXCEPT ![n] = FALSE]
          /\ req' = [req EXCEPT ![n] = r]
          /\ held' = [held EXCEPT ![r] = n]
    /\ UNCHANGED <<link, stage, sweeping>>

\* linkTimer, and the return: a node the sweep took meanwhile dies here, and
\* its destructor takes the connection with it.
Link(r) ==
    /\ held[r] # None
    /\ held' = [held EXCEPT ![r] = None]
    /\ IF held[r] \in heap
       THEN /\ link' = [link EXCEPT ![r] = held[r]]
            /\ stage' = [stage EXCEPT ![r] = "idle"]
            /\ UNCHANGED req
       ELSE /\ link' = [link EXCEPT ![r] = None]
            /\ stage' = [stage EXCEPT ![r] = "closed"]
            /\ req' = [req EXCEPT ![held[r]] = None]
    /\ UNCHANGED <<heap, left, deleted, sweeping>>

-----------------------------------------------------------------------------
(* The main thread.                                                         *)

\* A new connection: addTimer by the accepting thread itself.
Accept(r) ==
    /\ ~sweeping
    /\ stage[r] = "closed" /\ held[r] = None
    /\ \E n \in Unused :
          /\ heap' = heap \cup {n}
          /\ left' = [left EXCEPT ![n] = TIMER_TIME_OUT]
          /\ deleted' = [deleted EXCEPT ![n] = FALSE]
          /\ req' = [req EXCEPT ![n] = r]
          /\ link' = [link EXCEPT ![r] = n]
    /\ stage' = [stage EXCEPT ![r] = "idle"]
    /\ UNCHANGED <<held, sweeping>>

\* seperateTimer: if the node is alive, clearReq empties it and marks it.
Seperate_KeepsReq(r) ==
    /\ deleted' = [n \in Node |-> deleted[n] \/ n = link[r]]
    /\ link' = [link EXCEPT ![r] = None]
    /\ UNCHANGED <<heap, left, req, held, sweeping>>
Seperate(r) ==
    /\ deleted' = [n \in Node |-> deleted[n] \/ n = link[r]]
    /\ req' = [n \in Node |-> IF n = link[r] THEN None ELSE req[n]]
    /\ link' = [link EXCEPT ![r] = None]
    /\ UNCHANGED <<heap, left, held, sweeping>>

\* An event: the request is served, or dropped when it is an error.
Event(r) ==
    /\ ~sweeping
    /\ stage[r] = "idle"
    /\ Seperate(r)
    /\ \E s \in {"busy", "closed"} : stage' = [stage EXCEPT ![r] = s]

\* A served request is not watched again: its connection closes.
Drop(r) ==
    /\ stage[r] = "busy" /\ held[r] = None
    /\ stage' = [stage EXCEPT ![r] = "closed"]
    /\ UNCHANGED <<heap, left, deleted, req, link, held, sweeping>>

StartSweep ==
    /\ ~sweeping
    /\ sweeping' = TRUE
    /\ UNCHANGED <<heap, left, deleted, req, link, held, stage>>

\* What _timerNodeQueue.top() may return: TimerCmp puts the nearest deadline
\* first, in any order among equals.
Top_Farthest == {n \in heap : \A m \in heap : left[m] <= left[n]}
Top == {n \in heap : \A m \in heap : left[n] <= left[m]}

\* A node goes when it is deleted or no longer valid.
Due_DeletedOnly(n) == deleted[n]
Due(n) == deleted[n] \/ left[n] = 0

\* It is popped when it is the top.  Unless addTimer
\* still holds it, it dies, and a request in it loses its connection.
Pop(n) ==
    /\ sweeping
    /\ n \in Top
    /\ Due(n)
    /\ heap' = heap \ {n}
    /\ IF \E r \in Request : held[r] = n
       THEN /\ deleted' = [deleted EXCEPT ![n] = TRUE]
            /\ UNCHANGED <<req, link, stage>>
       ELSE /\ link' = [r \in Request |-> IF link[r] = n THEN None ELSE link[r]]
            /\ stage' = [r \in Request |-> IF req[n] = r THEN "closed" ELSE stage[r]]
            /\ req' = [req EXCEPT ![n] = None]
            /\ UNCHANGED deleted
    /\ UNCHANGED <<left, held, sweeping>>

\* The first valid node, or the end of the heap, ends the sweep.
EndSweep ==
    /\ sweeping
    /\ heap # {} => \E n \in Top : ~Due(n)
    /\ sweeping' = FALSE
    /\ UNCHANGED <<heap, left, deleted, req, link, held, stage>>

\* A deadline that has passed stays passed.
Elapse(n) == IF left[n] > 0 THEN left[n] - 1 ELSE 0

Tick ==
    /\ left' = [n \in Node |-> Elapse(n)]
    /\ UNCHANGED <<heap, deleted, req, link, held, stage, sweeping>>

Next ==
    \/ \E r \in Request, t \in Timeouts : Push(r, t)
    \/ \E r \in Request : Link(r) \/ Accept(r) \/ Event(r) \/ Drop(r)
    \/ StartSweep \/ (\E n \in Node : Pop(n)) \/ EndSweep
    \/ Tick

Spec == Init /\ [][Next]_vars

\* The main loop comes back to the sweep as long as events arrive, and time
\* passes.
Fairness ==
    /\ WF_vars(StartSweep)
    /\ WF_vars((\E n \in Node : Pop(n)) \/ EndSweep)
    /\ WF_vars(Tick)

FairSpec == Spec /\ Fairness

-----------------------------------------------------------------------------

TypeOK ==
    /\ heap \subseteq Node
    /\ left \in [Node -> Nat]
    /\ deleted \in [Node -> BOOLEAN]
    /\ req \in [Node -> Request \cup {None}]
    /\ link \in [Request -> Node \cup {None}]
    /\ held \in [Request -> Node \cup {None}]
    /\ stage \in [Request -> {"closed", "idle", "busy"}]
    /\ sweeping \in BOOLEAN

\* The only node that can close a connection is the one it is linked to: a
\* watched connection has exactly one, a served one has none but the node it is
\* just adding.  So separating the linked node is enough to keep a served
\* connection from being closed under its worker (Epoll.cpp:191,
\* RequestData.cpp:170-179).
OnlyLinkedNodeCounts ==
    /\ \A n \in heap, r \in Request :
          req[n] = r => \/ stage[r] = "idle" /\ link[r] = n
                       \/ held[r] = n
    /\ \A r \in Request :
          stage[r] = "idle" => link[r] \in heap /\ req[link[r]] = r

\* What makes it inductive: a node addTimer still holds keeps its busy request,
\* and a node of the heap that is marked deleted is empty.
HeldConsistent ==
    \A r \in Request : held[r] # None => stage[r] = "busy" /\ req[held[r]] = r
DeletedIsEmpty == \A n \in heap : deleted[n] => req[n] = None

IInv == TypeOK /\ OnlyLinkedNodeCounts /\ HeldConsistent /\ DeletedIsEmpty

\* The sweep closes a connection only when its own deadline has passed, however
\* many deleted nodes of earlier events are still in the heap.
ClosedOnlyWhenExpired ==
    [][\A r \in Request :
          heap' # heap /\ heap' \subseteq heap /\ stage'[r] # stage[r] =>
             stage[r] = "idle" /\ left[link[r]] = 0]_vars

\* The sweep may stop at the first valid node: what is behind it is not
\* expired, even when time passes during the sweep.
SweepTakesAllExpired ==
    [][sweeping /\ ~sweeping' => \A n \in heap : left[n] > 0]_vars

\* As long as the main loop turns, a deleted node leaves the heap: lazy
\* deletion does not let the heap grow for ever.
DeletedNodeGoes ==
    \A n \in Node : (n \in heap /\ deleted[n]) ~> n \notin heap

\* As long as the main loop turns, a connection whose deadline has passed is
\* closed, unless an event comes first.
ExpiredIsReaped ==
    \A r \in Request :
        (stage[r] = "idle" /\ left[link[r]] = 0) ~> stage[r] # "idle"
=============================================================================
