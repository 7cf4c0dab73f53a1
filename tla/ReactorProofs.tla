---------------------------- MODULE ReactorProofs ----------------------------
(***************************************************************************)
(* For any number of descriptors and workers, any queue size and backlog:   *)
(* the invariants of Reactor, by one inductive invariant.  Every part of it  *)
(* speaks of one descriptor, so a step is examined at the descriptor it      *)
(* touches, and SameView carries the others over.                           *)
(***************************************************************************)
EXTENDS Reactor, TLAPS

USE ReactorAssumption

Has(s, f)   == \E i \in 1..Len(s) : s[i] = f
Distinct(s) == \A i, j \in 1..Len(s) : s[i] = s[j] => i = j

Runs(w, f, places) == running[w] = f /\ wpc[w] \in places

\* What the proof needs of the types.
Typed ==
    /\ mpc \in {"wait", "events", "submit", "expire", "reset"}
    /\ batch \in [FD -> {"none", "in", "out", "err"}]
    /\ todo \in Seq(FD) /\ vec \subseteq FD /\ dying \in FD \cup {None}
    /\ pending \in Seq(FD)
    /\ running \in [Worker -> FD \cup {None}]
    /\ wpc \in [Worker -> {"idle", "handle", "push", "link", "store", "ctl",
                            "undo", "free"}]
    /\ wev \in [Worker -> {"none", "in", "out"}]
    /\ open \subseteq FD /\ slot \in [FD -> BOOLEAN]
    /\ node \in [FD -> {"none", "fresh", "linked", "taken"}]
    /\ interest \in [FD -> {"absent", "off", "in", "out"}]

\* What the places of the main thread and of the workers say.
Phases ==
    /\ mpc # "events" => \A f \in FD : batch[f] = "none"
    /\ mpc \notin {"events", "submit"} => todo = <<>>
    /\ dying # None <=> mpc = "reset"
    /\ \A w \in Worker : wpc[w] = "idle" <=> running[w] = None
    /\ \A w \in Worker : wpc[w] \in {"push", "link", "store", "ctl"} => wev[w] # "none"

\* No connection waits twice.
WaitsOnce ==
    /\ Distinct(todo) /\ Distinct(pending)
    /\ \A f \in FD : ~(Has(todo, f) /\ Has(pending, f))

\* A descriptor is open as long as its request is held, and a closed one has
\* neither an entry in the kernel nor an event.
OpenHeld(f) ==
    /\ f \in open <=> Held(f)
    /\ f \notin open => interest[f] = "absent"
    /\ Has(todo, f) => f \in vec

Owned(f) ==
    /\ \A v, w \in Worker : Serves(v, f) /\ Serves(w, f) => v = w
    /\ \A w \in Worker : Serves(w, f) =>
          ~Has(todo, f) /\ ~Has(pending, f) /\ ~Armed(f) /\ batch[f] = "none"
    /\ Has(todo, f) \/ Has(pending, f) =>
          interest[f] = "off" /\ batch[f] = "none" /\ node[f] = "none"
    /\ batch[f] # "none" => interest[f] = "off"

\* What the place of its worker says of a connection's timer and interest.
TimerOf(f) ==
    /\ \A w \in Worker : Runs(w, f, {"handle", "push"})
                            => node[f] = "none" /\ interest[f] = "off"
    /\ \A w \in Worker : Runs(w, f, {"link"})
                            => node[f] \in {"fresh", "taken"} /\ interest[f] = "off"
    /\ \A w \in Worker : Runs(w, f, {"store", "ctl"}) /\ interest[f] # "absent"
                            => node[f] = "linked"
    /\ \A w \in Worker : Runs(w, f, {"ctl"}) /\ interest[f] # "absent" => slot[f]
    /\ \A w \in Worker : Runs(w, f, {"undo"}) => interest[f] = "absent"
    /\ node[f] \in {"fresh", "taken"} => \E w \in Worker : Runs(w, f, {"link"})
    /\ f = dying => interest[f] = "absent" /\ node[f] = "none"

Watched(f) == Armed(f) \/ batch[f] # "none" => slot[f] /\ node[f] = "linked"

\* fd2req alone never keeps a request, if epoll_add does not fail.
SlotBacked(f) ==
    ~AddMayFail =>
        /\ node[f] = "linked" => interest[f] # "absent"
        /\ slot[f] => \/ node[f] # "none" \/ f = dying
                      \/ \E w \in Worker : Runs(w, f, {"ctl", "undo"})

Fine(f) == OpenHeld(f) /\ Owned(f) /\ TimerOf(f) /\ Watched(f) /\ SlotBacked(f)

IInv == Typed /\ Phases /\ WaitsOnce /\ \A f \in FD : Fine(f)

-----------------------------------------------------------------------------
(* Sequences.                                                               *)

LEMMA AppendHas ==
    ASSUME NEW S, NEW s \in Seq(S), NEW e \in S
    PROVE  /\ \A f : Has(Append(s, e), f) <=> Has(s, f) \/ f = e
           /\ Distinct(s) /\ ~Has(s, e) => Distinct(Append(s, e))
  BY DEF Has, Distinct

LEMMA TailHas ==
    ASSUME NEW S, NEW s \in Seq(S), s # <<>>, Distinct(s)
    PROVE  /\ Head(s) \in S /\ Has(s, Head(s)) /\ Tail(s) \in Seq(S)
           /\ \A f : Has(Tail(s), f) <=> Has(s, f) /\ f # Head(s)
           /\ Distinct(Tail(s))
  <1>1. Len(s) \in Nat /\ Len(s) > 0 /\ Tail(s) \in Seq(S) /\ Head(s) = s[1]
        /\ Len(Tail(s)) = Len(s) - 1 /\ \A i \in 1..(Len(s) - 1) : Tail(s)[i] = s[i + 1]
    OBVIOUS
  <1>2. Head(s) \in S /\ Has(s, Head(s))
    BY <1>1 DEF Has
  <1>3. ASSUME NEW f PROVE Has(Tail(s), f) <=> Has(s, f) /\ f # Head(s)
    <2>1. Has(Tail(s), f) => Has(s, f) /\ f # Head(s)
      BY <1>1 DEF Has, Distinct
    <2>2. ASSUME Has(s, f), f # Head(s) PROVE Has(Tail(s), f)
      <3> PICK i \in 1..Len(s) : s[i] = f
        BY <2>2 DEF Has
      <3>1. i - 1 \in 1..(Len(s) - 1) /\ Tail(s)[i - 1] = f
        BY <1>1, <2>2
      <3> QED
        BY <1>1, <3>1 DEF Has
    <2> QED
      BY <2>1, <2>2
  <1>4. Distinct(Tail(s))
    BY <1>1 DEF Distinct
  <1> QED
    BY <1>1, <1>2, <1>3, <1>4

LEMMA EmptyHas == \A f : ~Has(<<>>, f)
  BY DEF Has

LEMMA HeldHas ==
    ASSUME NEW f
    PROVE  Held(f) <=> \/ slot[f] \/ node[f] # "none" \/ f \in vec \/ f = dying
                       \/ Has(pending, f) \/ \E w \in Worker : running[w] = f
  BY DEF Held, Has

-----------------------------------------------------------------------------
(* What a step leaves alone.                                                *)

\* All references to f are as before, and the places of those that have them.
SameRefs(f) ==
    /\ batch'[f] = batch[f] /\ slot'[f] = slot[f] /\ node'[f] = node[f]
    /\ Has(todo, f)' <=> Has(todo, f)
    /\ Has(pending, f)' <=> Has(pending, f)
    /\ f \in vec' <=> f \in vec
    /\ f = dying' <=> f = dying
    /\ \A w \in Worker : /\ running'[w] = f <=> running[w] = f
                         /\ running[w] = f => wpc'[w] = wpc[w]

\* All that the invariant can see of f is as before.
SameView(f) ==
    SameRefs(f) /\ interest'[f] = interest[f] /\ (f \in open' <=> f \in open)

LEMMA SameIsFine ==
    ASSUME NEW f \in FD, SameView(f), Fine(f)
    PROVE  Fine(f)'
  <1>1. OpenHeld(f)'
    <2>1. Held(f)' <=> Held(f)
      BY DEF SameView, SameRefs, Held, Has
    <2> QED
      BY <2>1 DEF SameView, SameRefs, Fine, OpenHeld
  <1>2. Owned(f)'
    BY DEF SameView, SameRefs, Fine, Owned, Serves, Armed
  <1>3. TimerOf(f)'
    BY DEF SameView, SameRefs, Fine, TimerOf, Runs
  <1>4. Watched(f)'
    BY DEF SameView, SameRefs, Fine, Watched, Armed
  <1>5. SlotBacked(f)'
    BY DEF SameView, SameRefs, Fine, SlotBacked, Runs
  <1> QED
    BY <1>1, <1>2, <1>3, <1>4, <1>5 DEF Fine
LEMMA ReleaseOpens ==
    ASSUME NEW opened, NEW armed, NEW state, NEW traffic,
           Release(opened, armed, state, traffic), opened \subseteq FD,
           \A f \in FD : Held(f)' => f \in opened
    PROVE  /\ open' \subseteq FD /\ interest' = [f \in FD |-> interest'[f]]
           /\ \A f \in FD :
                 /\ f \in open' <=> Held(f)'
                 /\ interest'[f] = IF Held(f)' THEN armed[f] ELSE "absent"
  BY DEF Release

\* A step that deletes nothing keeps a descriptor whose references it keeps.
LEMMA KeptSame ==
    ASSUME NEW f \in FD, SameRefs(f), open' = open, interest'[f] = interest[f], Fine(f)
    PROVE  Fine(f)'
  BY SameIsFine DEF SameView

\* And so does one that deletes what nothing refers to.
LEMMA ReleaseSame ==
    ASSUME NEW f \in FD, SameRefs(f), Fine(f), NEW armed,
           f \in open' <=> Held(f)',
           interest'[f] = IF Held(f)' THEN armed[f] ELSE "absent",
           armed[f] = interest[f]
    PROVE  Fine(f)'
  <1>1. Held(f)' <=> Held(f)
    BY DEF SameRefs, Held, Has
  <1>2. SameView(f)
    BY <1>1 DEF SameView, Fine, OpenHeld
  <1> QED
    BY <1>2, SameIsFine

-----------------------------------------------------------------------------
(* The steps, in the order of the module.                                    *)

refs == <<batch, todo, vec, dying, pending, running, wpc, slot, node>>

LEMMA RefsSame == UNCHANGED refs => \A f \in FD : SameRefs(f)
  BY DEF refs, SameRefs, Has

\* Clients, the clock, and the ends of the main loop's parts.
LEMMA QuietKeeps ==
    ASSUME IInv, UNCHANGED <<refs, open, interest, wev>>,
           mpc' \in {"wait", "events", "submit", "expire", "reset"},
           mpc' # mpc => \/ mpc = "events" /\ mpc' = "submit"
                            /\ \A f \in FD : batch[f] = "none"
                         \/ mpc = "submit" /\ mpc' = "expire" /\ todo = <<>>
    PROVE  IInv'
  <1>1. Typed'
    BY DEF IInv, Typed, refs
  <1>2. Phases'
    BY DEF IInv, Phases, refs
  <1>3. WaitsOnce'
    BY DEF IInv, WaitsOnce, Distinct, Has, refs
  <1>4. \A f \in FD : Fine(f)'
    BY RefsSame, KeptSame DEF IInv
  <1> QED
    BY <1>1, <1>2, <1>3, <1>4 DEF IInv

LEMMA EpollWaitKeeps == ASSUME IInv, EpollWait PROVE IInv'
  <1>0. /\ mpc = "wait" /\ mpc' = "events"
        /\ batch' = [f \in FD |-> Reported(f)]
        /\ interest' = [f \in FD |-> Disarm(f)]
        /\ UNCHANGED <<todo, vec, dying, pending, running, wpc, slot, node, open, wev>>
    BY DEF EpollWait, pool, worker, timers
  <1>1. ASSUME NEW f \in FD
        PROVE  /\ Reported(f) \in {"none", "in", "out", "err"}
               /\ Reported(f) # "none" => Armed(f)
               /\ Disarm(f) = IF Reported(f) # "none" THEN "off" ELSE interest[f]
               /\ batch[f] = "none"
    BY <1>0 DEF Reported, Disarm, Armed, IInv, Phases
  <1>2. Typed'
    BY <1>0, <1>1 DEF IInv, Typed
  <1>3. Phases'
    BY <1>0 DEF IInv, Phases
  <1>4. WaitsOnce'
    BY <1>0 DEF IInv, WaitsOnce, Distinct, Has
  <1>5. ASSUME NEW f \in FD PROVE Fine(f)'
    <2>1. CASE Reported(f) = "none"
      <3>1. SameRefs(f) /\ interest'[f] = interest[f] /\ open' = open
        BY <1>0, <1>1, <2>1 DEF SameRefs, Has
      <3> QED
        BY <3>1, KeptSame DEF IInv
    <2>2. CASE Reported(f) # "none"
      <3>0. Armed(f) /\ batch'[f] # "none" /\ interest'[f] = "off" /\ interest[f] # "absent"
        BY <1>0, <1>1, <2>2 DEF Armed
      <3>1. Fine(f)
        BY DEF IInv
      <3>2. OpenHeld(f)'
        <4>1. Held(f)' <=> Held(f)
          BY <1>0 DEF Held
        <4> QED
          BY <1>0, <3>0, <3>1, <4>1 DEF Fine, OpenHeld, Has
      <3>3. Owned(f)'
        BY <1>0, <3>0, <3>1 DEF Fine, Owned, Serves, Armed, Has
      <3>4. TimerOf(f)'
        BY <1>0, <3>0, <3>1 DEF Fine, TimerOf, Runs, Armed, Watched
      <3>5. Watched(f)'
        BY <1>0, <3>0, <3>1 DEF Fine, Watched, Armed
      <3>6. SlotBacked(f)'
        BY <1>0, <3>0, <3>1 DEF Fine, SlotBacked, Runs, Watched
      <3> QED
        BY <3>2, <3>3, <3>4, <3>5, <3>6 DEF Fine
    <2> QED
      BY <2>1, <2>2
  <1> QED
    BY <1>2, <1>3, <1>4, <1>5 DEF IInv

LEMMA ErrorEventKeeps == ASSUME IInv, NEW f \in FD, ErrorEvent(f) PROVE IInv'
  <1>0. /\ mpc = "events" /\ mpc' = mpc /\ batch[f] = "err"
        /\ batch' = [batch EXCEPT ![f] = "none"]
        /\ slot' = [slot EXCEPT ![f] = FALSE]
        /\ UNCHANGED <<todo, vec, dying, pending, running, wpc, wev>>
        /\ Release(open, interest, flags, conn)
    BY DEF ErrorEvent, Forget, pool, worker
  <1>1. Fine(f) /\ slot[f] /\ node[f] = "linked" /\ interest[f] = "off"
    BY <1>0 DEF IInv, Fine, Watched, Owned
  <1>2. node' = [node EXCEPT ![f] = "none"]
    BY <1>0, <1>1 DEF ErrorEvent, Seperate, IInv, Typed
  <1>3. \A g \in FD : Held(g)' => g \in open
    BY <1>0, <1>2 DEF IInv, Typed, Fine, OpenHeld, Held
  <1>4. /\ open' \subseteq FD /\ interest' = [g \in FD |-> interest'[g]]
        /\ \A g \in FD : /\ g \in open' <=> Held(g)'
                         /\ interest'[g] = IF Held(g)' THEN interest[g] ELSE "absent"
    BY <1>0, <1>3, ReleaseOpens DEF IInv, Typed
  <1>5. Typed'
    BY <1>0, <1>2, <1>4 DEF IInv, Typed
  <1>6. Phases'
    BY <1>0 DEF IInv, Phases
  <1>7. WaitsOnce'
    BY <1>0 DEF IInv, WaitsOnce, Distinct, Has
  <1>8. ASSUME NEW g \in FD, g # f PROVE Fine(g)'
    <2>1. SameRefs(g)
      BY <1>0, <1>2, <1>8 DEF SameRefs, Has, IInv, Typed
    <2> QED
      BY <1>4, <2>1, ReleaseSame DEF IInv
  <1>9. Fine(f)'
    <2>0. batch'[f] = "none" /\ slot'[f] = FALSE /\ node'[f] = "none"
          /\ interest'[f] \in {"off", "absent"}
      BY <1>0, <1>1, <1>2, <1>4 DEF IInv, Typed
    <2>1. OpenHeld(f)'
      BY <1>0, <1>1, <1>4 DEF Fine, OpenHeld, Has
    <2>2. Owned(f)'
      BY <1>0, <1>1, <2>0 DEF Fine, Owned, Serves, Armed, Has
    <2>3. TimerOf(f)'
      BY <1>0, <1>1, <2>0 DEF Fine, TimerOf, Owned, Runs, Serves
    <2>4. Watched(f)' /\ SlotBacked(f)'
      BY <2>0 DEF Watched, Armed, SlotBacked
    <2> QED
      BY <2>1, <2>2, <2>3, <2>4 DEF Fine
  <1> QED
    BY <1>5, <1>6, <1>7, <1>8, <1>9 DEF IInv

LEMMA ReadyEventKeeps == ASSUME IInv, NEW f \in FD, ReadyEvent(f) PROVE IInv'
  <1>0. /\ mpc = "events" /\ mpc' = mpc /\ batch[f] \in {"in", "out"}
        /\ batch' = [batch EXCEPT ![f] = "none"]
        /\ slot' = [slot EXCEPT ![f] = FALSE]
        /\ UNCHANGED <<dying, pending, running, wpc, wev>>
    BY DEF ReadyEvent, Forget, pool, worker
  <1>1. Fine(f) /\ slot[f] /\ node[f] = "linked" /\ interest[f] = "off"
    BY <1>0 DEF IInv, Fine, Watched, Owned
  <1>2. /\ node' = [node EXCEPT ![f] = "none"]
        /\ vec' = vec \cup {f} /\ todo' = Append(todo, f)
        /\ \E state : Release(open, interest, state, conn)
    BY <1>0, <1>1 DEF ReadyEvent, Seperate, IInv, Typed
  <1>3. ~Has(todo, f) /\ ~Has(pending, f) /\ \A w \in Worker : ~Serves(w, f)
    BY <1>0, <1>1 DEF Fine, Owned
  <1>4. /\ Distinct(todo') /\ todo' \in Seq(FD)
        /\ \A g : Has(todo, g)' <=> Has(todo, g) \/ g = f
    <2>1. todo \in Seq(FD) /\ Distinct(todo)
      BY DEF IInv, Typed, WaitsOnce
    <2>2. /\ Distinct(Append(todo, f)) /\ Append(todo, f) \in Seq(FD)
          /\ \A g : Has(Append(todo, f), g) <=> Has(todo, g) \/ g = f
      BY <1>3, <2>1, AppendHas
    <2> QED
      BY <1>2, <2>2 DEF Has
  <1>5. \A g \in FD : Has(pending, g)' <=> Has(pending, g)
    BY <1>0 DEF Has
  <1>6. \A g \in FD : Held(g)' => g \in open
    BY <1>0, <1>1, <1>2 DEF IInv, Typed, Fine, OpenHeld, Held
  <1>7. /\ open' \subseteq FD /\ interest' = [g \in FD |-> interest'[g]]
        /\ \A g \in FD : /\ g \in open' <=> Held(g)'
                         /\ interest'[g] = IF Held(g)' THEN interest[g] ELSE "absent"
    BY <1>2, <1>6, ReleaseOpens DEF IInv, Typed
  <1>8. Typed'
    BY <1>0, <1>2, <1>4, <1>7 DEF IInv, Typed
  <1>9. Phases'
    BY <1>0 DEF IInv, Phases
  <1>10. WaitsOnce'
    BY <1>0, <1>3, <1>4, <1>5 DEF IInv, WaitsOnce, Distinct
  <1>11. ASSUME NEW g \in FD, g # f PROVE Fine(g)'
    <2>1. SameRefs(g)
      BY <1>0, <1>2, <1>4, <1>5, <1>11 DEF SameRefs, IInv, Typed
    <2> QED
      BY <1>7, <2>1, ReleaseSame DEF IInv
  <1>12. Fine(f)'
    <2>0. /\ batch'[f] = "none" /\ slot'[f] = FALSE /\ node'[f] = "none"
          /\ Held(f)' /\ interest'[f] = "off"
      BY <1>0, <1>1, <1>2, <1>7 DEF IInv, Typed, Held
    <2>1. OpenHeld(f)'
      BY <1>2, <1>7, <2>0 DEF OpenHeld
    <2>2. Owned(f)'
      BY <1>0, <1>3, <2>0 DEF Owned, Serves, Armed
    <2>3. TimerOf(f)'
      BY <1>0, <1>1, <1>3, <2>0 DEF Fine, TimerOf, Runs, Serves
    <2>4. Watched(f)' /\ SlotBacked(f)'
      BY <2>0 DEF Watched, Armed, SlotBacked
    <2> QED
      BY <2>1, <2>2, <2>3, <2>4 DEF Fine
  <1> QED
    BY <1>8, <1>9, <1>10, <1>11, <1>12 DEF IInv

LEMMA AcceptKeeps == ASSUME IInv, Accept PROVE IInv'
  <1> PICK f \in FD \ open, added \in {"in", "absent"} :
        /\ ~AddMayFail => added = "in"
        /\ slot' = [slot EXCEPT ![f] = TRUE]
        /\ node' = [node EXCEPT ![f] = "linked"]
        /\ UNCHANGED <<main, pool, worker>>
        /\ Release(open \cup {f}, [interest EXCEPT ![f] = added], flags, conn)
    BY DEF Accept
  <1>0. UNCHANGED <<mpc, batch, todo, vec, dying, pending, running, wpc, wev>>
    BY DEF main, pool, worker
  <1>1. Fine(f) /\ f \in FD /\ ~Held(f) /\ ~Has(todo, f) /\ interest[f] = "absent"
    BY DEF IInv, Fine, OpenHeld, Held
  <1>2. /\ ~Has(pending, f) /\ f # dying /\ f \notin vec
        /\ \A w \in Worker : running[w] # f
    BY <1>1 DEF Held, Has
  <1>3. \A g \in FD : Held(g)' => g \in open \cup {f}
    BY <1>0 DEF IInv, Typed, Fine, OpenHeld, Held
  <1> DEFINE armed == [interest EXCEPT ![f] = added]
  <1>4. /\ open' \subseteq FD /\ interest' = [g \in FD |-> interest'[g]]
        /\ \A g \in FD : /\ g \in open' <=> Held(g)'
                         /\ interest'[g] = IF Held(g)' THEN armed[g] ELSE "absent"
    <2>1. Release(open \cup {f}, armed, flags, conn) /\ open \cup {f} \subseteq FD
      BY DEF IInv, Typed
    <2> HIDE DEF armed
    <2> QED
      BY <1>3, <2>1, ReleaseOpens
  <1>5. Typed'
    <2>1. \A g \in FD : armed[g] = IF g = f THEN added ELSE interest[g]
      BY DEF IInv, Typed
    <2>2. interest' \in [FD -> {"absent", "off", "in", "out"}]
      <3> HIDE DEF armed
      <3>1. \A g \in FD : interest'[g] \in {"absent", "off", "in", "out"}
        BY <1>4, <2>1 DEF IInv, Typed
      <3> QED
        BY <1>4, <3>1
    <2> QED
      BY <1>0, <1>4, <2>2 DEF IInv, Typed
  <1>6. Phases' /\ WaitsOnce'
    BY <1>0 DEF IInv, Phases, WaitsOnce, Distinct, Has
  <1>8. ASSUME NEW g \in FD, g # f PROVE Fine(g)'
    <2>1. SameRefs(g)
      BY <1>0, <1>8 DEF SameRefs, Has, IInv, Typed
    <2>2. [interest EXCEPT ![f] = added][g] = interest[g]
      BY <1>8 DEF IInv, Typed
    <2> QED
      BY <1>4, <2>1, <2>2, ReleaseSame DEF IInv
  <1>9. Fine(f)'
    <2>0. /\ batch'[f] = "none" /\ slot'[f] = TRUE /\ node'[f] = "linked"
          /\ Held(f)' /\ interest'[f] = added
      BY <1>0, <1>1, <1>4 DEF IInv, Typed, Held, Fine, Owned
    <2>1. ~Has(todo, f)' /\ ~Has(pending, f)' /\ \A w \in Worker : running'[w] # f
      BY <1>0, <1>1, <1>2 DEF Has
    <2>2. OpenHeld(f)'
      BY <1>4, <2>0, <2>1 DEF OpenHeld
    <2>3. Owned(f)'
      BY <2>0, <2>1 DEF Owned, Serves, Armed
    <2>4. TimerOf(f)'
      BY <1>0, <1>2, <2>0, <2>1 DEF TimerOf, Runs
    <2>5. Watched(f)' /\ SlotBacked(f)'
      BY <2>0 DEF Watched, Armed, SlotBacked
    <2> QED
      BY <2>2, <2>3, <2>4, <2>5 DEF Fine
  <1> QED
    BY <1>5, <1>6, <1>8, <1>9 DEF IInv

LEMMA SubmitKeeps == ASSUME IInv, Submit PROVE IInv'
  <1> PICK f : f = Head(todo)
    OBVIOUS
  <1>0. /\ mpc = "submit" /\ mpc' = mpc /\ todo # <<>>
        /\ pending' = Append(pending, f) /\ todo' = Tail(todo)
        /\ UNCHANGED <<batch, vec, dying, running, wpc, wev, slot, node, open, interest>>
    BY DEF Submit, TQ!Submit, Kept, worker, timers
  <1>1. /\ f \in FD /\ Has(todo, f) /\ todo' \in Seq(FD) /\ Distinct(todo')
        /\ \A g : Has(todo, g)' <=> Has(todo, g) /\ g # f
    <2>1. todo \in Seq(FD) /\ Distinct(todo)
      BY DEF IInv, Typed, WaitsOnce
    <2>2. /\ f \in FD /\ Has(todo, f) /\ Tail(todo) \in Seq(FD) /\ Distinct(Tail(todo))
          /\ \A g : Has(Tail(todo), g) <=> Has(todo, g) /\ g # f
      BY <1>0, <2>1, TailHas
    <2>3. \A g : Has(todo, g)' <=> Has(Tail(todo), g)
      BY <1>0 DEF Has
    <2> QED
      BY <1>0, <2>2, <2>3
  <1>2. /\ ~Has(pending, f) /\ pending' \in Seq(FD) /\ Distinct(pending')
        /\ \A g : Has(pending, g)' <=> Has(pending, g) \/ g = f
    <2>1. pending \in Seq(FD) /\ Distinct(pending) /\ ~Has(pending, f)
      BY <1>1 DEF IInv, Typed, WaitsOnce
    <2>2. /\ Distinct(Append(pending, f)) /\ Append(pending, f) \in Seq(FD)
          /\ \A g : Has(Append(pending, f), g) <=> Has(pending, g) \/ g = f
      BY <1>1, <2>1, AppendHas
    <2>3. \A g : Has(pending, g)' <=> Has(Append(pending, f), g)
      BY <1>0 DEF Has
    <2> QED
      BY <1>0, <2>1, <2>2, <2>3
  <1>3. Typed'
    BY <1>0, <1>1, <1>2 DEF IInv, Typed
  <1>4. Phases'
    BY <1>0 DEF IInv, Phases
  <1>5. WaitsOnce'
    BY <1>1, <1>2 DEF IInv, WaitsOnce
  <1>6. ASSUME NEW g \in FD, g # f PROVE Fine(g)'
    <2>1. SameRefs(g)
      BY <1>0, <1>1, <1>2, <1>6 DEF SameRefs
    <2> QED
      BY <1>0, <2>1, KeptSame DEF IInv
  <1>7. Fine(f)'
    <2>1. Fine(f) /\ f \in vec
      BY <1>1 DEF IInv, Fine, OpenHeld
    <2>2. OpenHeld(f)'
      BY <1>0, <2>1 DEF Fine, OpenHeld, Held
    <2>3. Owned(f)'
      BY <1>0, <1>1, <1>2, <2>1 DEF Fine, Owned, Serves, Armed
    <2>4. TimerOf(f)' /\ Watched(f)' /\ SlotBacked(f)'
      BY <1>0, <2>1 DEF Fine, TimerOf, Runs, Watched, Armed, SlotBacked
    <2> QED
      BY <2>2, <2>3, <2>4 DEF Fine
  <1> QED
    BY <1>3, <1>4, <1>5, <1>6, <1>7 DEF IInv

LEMMA SubmitFailsKeeps == ASSUME IInv, SubmitFails PROVE IInv'
  <1>0. /\ mpc = "submit" /\ mpc' = mpc /\ todo' = <<>>
        /\ UNCHANGED <<batch, vec, dying, pending, running, wpc, wev, slot, node, open,
                       interest>>
    BY DEF SubmitFails, Kept, pool, worker, timers
  <1>1. \A f : ~Has(todo, f)' /\ (Has(pending, f)' <=> Has(pending, f))
    BY <1>0 DEF Has
  <1>2. Typed'
    BY <1>0 DEF IInv, Typed
  <1>3. Phases'
    BY <1>0 DEF IInv, Phases
  <1>4. WaitsOnce'
    BY <1>0, <1>1 DEF IInv, WaitsOnce, Distinct
  <1>5. ASSUME NEW f \in FD PROVE Fine(f)'
    <2>1. OpenHeld(f)'
      BY <1>0, <1>1 DEF IInv, Fine, OpenHeld, Held
    <2>2. Owned(f)'
      BY <1>0, <1>1 DEF IInv, Fine, Owned, Serves, Armed
    <2>3. TimerOf(f)' /\ Watched(f)' /\ SlotBacked(f)'
      BY <1>0 DEF IInv, Fine, TimerOf, Runs, Watched, Armed, SlotBacked
    <2> QED
      BY <2>1, <2>2, <2>3 DEF Fine
  <1> QED
    BY <1>2, <1>3, <1>4, <1>5 DEF IInv

LEMMA ExpireKeeps == ASSUME IInv, NEW f \in FD, Expire(f) PROVE IInv'
  <1>0. /\ mpc = "expire" /\ node[f] \in {"fresh", "linked"}
        /\ node' = [node EXCEPT ![f] = IF @ = "fresh" THEN "taken" ELSE "none"]
        /\ UNCHANGED <<batch, todo, vec, pending, running, wpc, wev, slot>>
    BY DEF Expire, InHeap, pool, worker
  <1>1. Fine(f) /\ batch[f] = "none" /\ todo = <<>> /\ dying = None
    BY <1>0 DEF IInv, Phases
  <1>2. ~Has(todo, f) /\ ~Has(pending, f)
    BY <1>0, <1>1 DEF Fine, Owned
  <1>3. WaitsOnce'
    BY <1>0 DEF IInv, WaitsOnce, Distinct, Has
  <1>4. CASE node[f] = "linked" /\ interest[f] # "absent"
    <2>0. /\ mpc' = "reset" /\ dying' = f /\ interest' = [interest EXCEPT ![f] = "absent"]
          /\ open' = open /\ node'[f] = "none" /\ batch'[f] = "none" /\ interest'[f] = "absent"
      BY <1>0, <1>1, <1>4 DEF Expire, IInv, Typed
    <2>1. Typed'
      BY <1>0, <2>0 DEF IInv, Typed
    <2>2. Phases'
      BY <1>0, <1>1, <2>0 DEF IInv, Phases
    <2>3. ASSUME NEW g \in FD, g # f PROVE Fine(g)'
      <3>1. SameRefs(g) /\ interest'[g] = interest[g]
        BY <1>0, <1>1, <2>0, <2>3 DEF SameRefs, Has, IInv, Typed
      <3> QED
        BY <2>0, <3>1, KeptSame DEF IInv
    <2>4. Fine(f)'
      <3>1. OpenHeld(f)'
        BY <1>0, <1>1, <1>4, <2>0 DEF Fine, OpenHeld, Held, Has
      <3>2. Owned(f)'
        BY <1>0, <1>1, <1>2, <2>0 DEF Fine, Owned, Serves, Armed, Has
      <3>3. TimerOf(f)'
        BY <1>0, <1>1, <1>4, <2>0 DEF Fine, TimerOf, Runs
      <3>4. Watched(f)' /\ SlotBacked(f)'
        BY <1>0, <2>0 DEF Watched, Armed, SlotBacked
      <3> QED
        BY <3>1, <3>2, <3>3, <3>4 DEF Fine
    <2> QED
      BY <1>3, <2>1, <2>2, <2>3, <2>4 DEF IInv
  <1>5. CASE ~(node[f] = "linked" /\ interest[f] # "absent")
    <2>0. UNCHANGED <<mpc, dying>> /\ Release(open, interest, flags, conn)
      BY <1>5 DEF Expire
    <2>1. \A g \in FD : Held(g)' => g \in open
      BY <1>0, <2>0 DEF IInv, Typed, Fine, OpenHeld, Held
    <2>2. /\ open' \subseteq FD /\ interest' = [g \in FD |-> interest'[g]]
          /\ \A g \in FD : /\ g \in open' <=> Held(g)'
                           /\ interest'[g] = IF Held(g)' THEN interest[g] ELSE "absent"
      BY <2>0, <2>1, ReleaseOpens DEF IInv, Typed
    <2>3. Typed'
      BY <1>0, <2>0, <2>2 DEF IInv, Typed
    <2>4. Phases'
      BY <1>0, <2>0 DEF IInv, Phases
    <2>5. ASSUME NEW g \in FD, g # f PROVE Fine(g)'
      <3>1. SameRefs(g)
        BY <1>0, <2>0, <2>5 DEF SameRefs, Has, IInv, Typed
      <3> QED
        BY <2>2, <3>1, ReleaseSame DEF IInv
    <2>6. Fine(f)'
      <3>0. /\ node'[f] = IF node[f] = "fresh" THEN "taken" ELSE "none"
            /\ batch'[f] = "none" /\ interest'[f] \in {interest[f], "absent"}
        BY <1>0, <1>1, <2>2 DEF IInv, Typed
      <3>1. OpenHeld(f)'
        BY <1>0, <1>1, <2>2 DEF OpenHeld, Has, EmptyHas
      <3>2. Owned(f)'
        BY <1>0, <1>1, <1>2, <3>0 DEF Fine, Owned, Serves, Armed, Has
      <3>3. TimerOf(f)'
        <4>1. CASE node[f] = "linked"
          BY <1>0, <1>1, <1>5, <2>0, <3>0, <4>1 DEF Fine, TimerOf, Runs
        <4>2. CASE node[f] = "fresh"
          <5>1. PICK w \in Worker : Runs(w, f, {"link"})
            BY <1>1, <4>2 DEF Fine, TimerOf
          <5>2. Held(f)' /\ interest'[f] = interest[f]
            BY <1>0, <2>2, <5>1 DEF Held, Runs
          <5>3. \A v \in Worker : Runs(v, f, {"handle","push","link","store","ctl","undo"})
                                     => v = w
            BY <1>1, <5>1 DEF Fine, Owned, Serves, Runs
          <5> QED
            BY <1>0, <1>1, <2>0, <3>0, <4>2, <5>1, <5>2, <5>3 DEF Fine, TimerOf, Runs
        <4> QED
          BY <1>0, <4>1, <4>2
      <3>4. Watched(f)'
        BY <1>0, <1>1, <1>5, <3>0 DEF Fine, Watched, Armed
      <3>5. SlotBacked(f)'
        BY <1>0, <1>1, <1>5, <3>0 DEF Fine, SlotBacked
      <3> QED
        BY <3>1, <3>2, <3>3, <3>4, <3>5 DEF Fine
    <2> QED
      BY <1>3, <2>3, <2>4, <2>5, <2>6 DEF IInv
  <1> QED
    BY <1>4, <1>5

LEMMA ExpireResetKeeps == ASSUME IInv, ExpireReset PROVE IInv'
  <1> PICK f : f = dying
    OBVIOUS
  <1>0. /\ mpc = "reset" /\ mpc' = "expire" /\ dying' = None
        /\ slot' = [slot EXCEPT ![f] = FALSE]
        /\ UNCHANGED <<batch, todo, vec, pending, running, wpc, wev, node>>
        /\ Release(open, interest, flags, conn)
    BY DEF ExpireReset, Forget, pool, worker, timers
  <1>1. f \in FD /\ Fine(f) /\ todo = <<>> /\ batch[f] = "none"
    BY <1>0 DEF IInv, Typed, Phases
  <1>2. \A g \in FD : Held(g)' => g \in open
    BY <1>0, <1>1 DEF IInv, Typed, Fine, OpenHeld, Held
  <1>3. /\ open' \subseteq FD /\ interest' = [g \in FD |-> interest'[g]]
        /\ \A g \in FD : /\ g \in open' <=> Held(g)'
                         /\ interest'[g] = IF Held(g)' THEN interest[g] ELSE "absent"
    BY <1>0, <1>2, ReleaseOpens DEF IInv, Typed
  <1>4. Typed'
    BY <1>0, <1>3 DEF IInv, Typed
  <1>5. Phases'
    BY <1>0 DEF IInv, Phases
  <1>6. WaitsOnce'
    BY <1>0 DEF IInv, WaitsOnce, Distinct, Has
  <1>7. ASSUME NEW g \in FD, g # f PROVE Fine(g)'
    <2>1. SameRefs(g)
      BY <1>0, <1>7 DEF SameRefs, Has, IInv, Typed
    <2> QED
      BY <1>3, <2>1, ReleaseSame DEF IInv
  <1>8. Fine(f)'
    <2>0. slot'[f] = FALSE /\ node'[f] = "none" /\ interest'[f] = "absent"
          /\ interest[f] = "absent"
      BY <1>0, <1>1, <1>3 DEF IInv, Typed, Fine, TimerOf
    <2>1. OpenHeld(f)'
      BY <1>0, <1>1, <1>3 DEF OpenHeld, Has
    <2>2. Owned(f)'
      BY <1>0, <1>1, <2>0 DEF Fine, Owned, Serves, Armed, Has
    <2>3. TimerOf(f)'
      BY <1>0, <1>1, <2>0 DEF Fine, TimerOf, Runs
    <2>4. Watched(f)' /\ SlotBacked(f)'
      BY <1>0, <1>1, <2>0 DEF Watched, Armed, SlotBacked
    <2> QED
      BY <2>1, <2>2, <2>3, <2>4 DEF Fine
  <1> QED
    BY <1>4, <1>5, <1>6, <1>7, <1>8 DEF IInv

LEMMA ExpireEndsKeeps == ASSUME IInv, ExpireEnds PROVE IInv'
  <1>0. /\ mpc = "expire" /\ mpc' = "wait" /\ vec' = {}
        /\ UNCHANGED <<batch, todo, dying, pending, running, wpc, wev, slot, node>>
        /\ Release(open, interest, flags, conn)
    BY DEF ExpireEnds, pool, worker, timers
  <1>1. todo = <<>>
    BY <1>0 DEF IInv, Phases
  <1>2. \A g \in FD : Held(g)' => g \in open
    BY <1>0 DEF IInv, Fine, OpenHeld, Held
  <1>3. /\ open' \subseteq FD /\ interest' = [g \in FD |-> interest'[g]]
        /\ \A g \in FD : /\ g \in open' <=> Held(g)'
                         /\ interest'[g] = IF Held(g)' THEN interest[g] ELSE "absent"
    BY <1>0, <1>2, ReleaseOpens DEF IInv, Typed
  <1>4. Typed'
    BY <1>0, <1>3 DEF IInv, Typed
  <1>5. Phases'
    BY <1>0 DEF IInv, Phases
  <1>6. WaitsOnce'
    BY <1>0 DEF IInv, WaitsOnce, Distinct, Has
  <1>7. ASSUME NEW f \in FD PROVE Fine(f)'
    <2>0. Fine(f) /\ (~Held(f)' => /\ slot[f] = FALSE /\ node[f] = "none" /\ f # dying
                                   /\ ~Has(pending, f) /\ \A w \in Worker : running[w] # f)
      BY <1>0, HeldHas DEF IInv, Typed, Held, Has
    <2>1. OpenHeld(f)'
      BY <1>0, <1>1, <1>3 DEF OpenHeld, Has
    <2>2. CASE Held(f)'
      <3>1. interest'[f] = interest[f]
        BY <1>3, <2>2
      <3>2. Owned(f)'
        BY <1>0, <2>0, <3>1 DEF Fine, Owned, Serves, Armed, Has
      <3>3. TimerOf(f)' /\ Watched(f)' /\ SlotBacked(f)'
        BY <1>0, <2>0, <3>1 DEF Fine, TimerOf, Runs, Watched, Armed, SlotBacked
      <3> QED
        BY <2>1, <3>2, <3>3 DEF Fine
    <2>3. CASE ~Held(f)'
      <3>1. interest'[f] = "absent" /\ batch[f] = "none"
        BY <1>0, <1>3, <2>3 DEF IInv, Phases
      <3>2. Owned(f)'
        BY <1>0, <1>1, <2>0, <2>3, <3>1 DEF Owned, Serves, Armed, Has
      <3>3. TimerOf(f)'
        BY <1>0, <2>0, <2>3, <3>1 DEF TimerOf, Runs
      <3>4. Watched(f)' /\ SlotBacked(f)'
        BY <1>0, <2>0, <2>3, <3>1 DEF Watched, Armed, SlotBacked
      <3> QED
        BY <2>1, <3>2, <3>3, <3>4 DEF Fine
    <2> QED
      BY <2>2, <2>3
  <1> QED
    BY <1>4, <1>5, <1>6, <1>7 DEF IInv

LEMMA TakeKeeps == ASSUME IInv, NEW w \in Worker, Take(w) PROVE IInv'
  <1> PICK f : f = Head(pending)
    OBVIOUS
  <1>0. /\ wpc[w] = "idle" /\ wpc' = [wpc EXCEPT ![w] = "handle"]
        /\ pending # <<>> /\ pending' = Tail(pending)
        /\ running[w] = None /\ running' = [running EXCEPT ![w] = f]
        /\ UNCHANGED <<mpc, batch, todo, vec, dying, wev, slot, node, open, interest>>
    BY DEF Take, TQ!Take, Goto, Kept, main, timers
  <1>1. /\ f \in FD /\ Has(pending, f) /\ pending' \in Seq(FD) /\ Distinct(pending')
        /\ \A g : Has(pending, g)' <=> Has(pending, g) /\ g # f
    <2>1. pending \in Seq(FD) /\ Distinct(pending)
      BY DEF IInv, Typed, WaitsOnce
    <2>2. /\ f \in FD /\ Has(pending, f)
          /\ Tail(pending) \in Seq(FD) /\ Distinct(Tail(pending))
          /\ \A g : Has(Tail(pending), g) <=> Has(pending, g) /\ g # f
      BY <1>0, <2>1, TailHas
    <2>3. \A g : Has(pending, g)' <=> Has(Tail(pending), g)
      BY <1>0 DEF Has
    <2> QED
      BY <1>0, <2>2, <2>3
  <1>2. \A g : Has(todo, g)' <=> Has(todo, g)
    BY <1>0 DEF Has
  <1>3. \A v \in Worker : /\ running'[v] = IF v = w THEN f ELSE running[v]
                          /\ wpc'[v] = IF v = w THEN "handle" ELSE wpc[v]
    BY <1>0 DEF IInv, Typed
  <1>4. Typed'
    BY <1>0, <1>1 DEF IInv, Typed
  <1>5. Phases'
    BY <1>0, <1>1, <1>3 DEF IInv, Phases
  <1>6. WaitsOnce'
    BY <1>0, <1>1, <1>2 DEF IInv, WaitsOnce, Distinct
  <1>7. ASSUME NEW g \in FD, g # f PROVE Fine(g)'
    <2>1. SameRefs(g)
      BY <1>0, <1>1, <1>2, <1>3, <1>7 DEF SameRefs
    <2> QED
      BY <1>0, <2>1, KeptSame DEF IInv
  <1>8. Fine(f)'
    <2>0. /\ Fine(f) /\ ~Has(todo, f) /\ \A v \in Worker : ~Serves(v, f)
          /\ interest[f] = "off" /\ batch[f] = "none" /\ node[f] = "none"
      BY <1>1 DEF IInv, WaitsOnce, Fine, Owned
    <2>1. OpenHeld(f)'
      <3>1. Held(f) /\ Held(f)'
        BY <1>1, <1>3, HeldHas DEF Held
      <3> QED
        BY <1>0, <1>2, <2>0, <3>1 DEF Fine, OpenHeld
    <2>2. Owned(f)'
      BY <1>0, <1>1, <1>2, <1>3, <2>0 DEF Owned, Serves, Armed
    <2>3. TimerOf(f)'
      BY <1>0, <1>3, <2>0 DEF Fine, TimerOf, Runs, Serves
    <2>4. Watched(f)' /\ SlotBacked(f)'
      <3>1. \A v \in Worker : ~Runs(v, f, {"ctl", "undo"})
        BY <2>0 DEF Runs, Serves
      <3> QED
        BY <1>0, <2>0, <3>1 DEF Fine, Watched, Armed, SlotBacked
    <2> QED
      BY <2>1, <2>2, <2>3, <2>4 DEF Fine
  <1> QED
    BY <1>4, <1>5, <1>6, <1>7, <1>8 DEF IInv

-----------------------------------------------------------------------------
(* A worker's steps on its request f = running[w], which nobody else serves.  *)

AtWork == {"handle", "push", "link", "store", "ctl", "undo"}

LEMMA ServedFacts ==
    ASSUME IInv, NEW w \in Worker, wpc[w] \in AtWork
    PROVE  /\ running[w] \in FD /\ Fine(running[w]) /\ running[w] \in open
           /\ ~Has(todo, running[w]) /\ ~Has(pending, running[w])
           /\ batch[running[w]] = "none" /\ ~Armed(running[w])
           /\ \A v \in Worker : running[v] = running[w] /\ wpc[v] \in AtWork => v = w
  <1>1. running[w] \in FD /\ Fine(running[w])
    BY DEF IInv, Phases, Typed, AtWork
  <1>2. running[w] \in open
    BY <1>1 DEF Fine, OpenHeld, Held
  <1>3. Serves(w, running[w])
    BY DEF Serves, AtWork
  <1>4. /\ ~Has(todo, running[w]) /\ ~Has(pending, running[w])
        /\ batch[running[w]] = "none" /\ ~Armed(running[w])
    BY <1>1, <1>3 DEF Fine, Owned
  <1>5. \A v \in Worker : running[v] = running[w] /\ wpc[v] \in AtWork => v = w
    BY <1>1, <1>3 DEF Fine, Owned, Serves, AtWork
  <1> QED
    BY <1>1, <1>2, <1>4, <1>5

\* Worker w goes on to another place of its handler, and leaves s in fd2req, n as
\* the timer and i as the interest of its request f.
Goes(w, f, place, s, n, i) ==
    /\ wpc[w] \in AtWork /\ wpc' = [wpc EXCEPT ![w] = place]
    /\ UNCHANGED <<mpc, batch, todo, vec, dying, pending, running, open>>
    /\ slot' = [slot EXCEPT ![f] = s] /\ node' = [node EXCEPT ![f] = n]
    /\ interest' = [interest EXCEPT ![f] = i]
    /\ wev' \in [Worker -> {"none", "in", "out"}]
    /\ \A v \in Worker : v # w => wev'[v] = wev[v]
    /\ place \in {"push", "link", "store", "ctl"} => wev'[w] # "none"

\* They are what the invariant asks of that place.
Suits(f, place, s, n, i) ==
    /\ place \in AtWork \cup {"free"} /\ s \in BOOLEAN
    /\ n \in {"none", "fresh", "linked", "taken"} /\ i \in {"absent", "off", "in", "out"}
    /\ place \in AtWork => i \notin {"in", "out"}
    /\ place \in {"handle", "push"} => n = "none" /\ i = "off"
    /\ place = "link" => n \in {"fresh", "taken"} /\ i = "off"
    /\ place # "link" => n \notin {"fresh", "taken"}
    /\ place \in {"store", "ctl"} /\ i # "absent" => n = "linked"
    /\ place = "ctl" /\ i # "absent" => s
    /\ place = "undo" => i = "absent"
    /\ i \in {"in", "out"} => s /\ n = "linked"
    /\ f = dying => i = "absent" /\ n = "none"
    /\ ~AddMayFail => /\ n = "linked" => i # "absent"
                      /\ s => n # "none" \/ f = dying \/ place \in {"ctl", "undo"}

LEMMA WorkerKeeps ==
    ASSUME IInv, NEW w \in Worker, NEW f, f = running[w],
           NEW place, NEW s, NEW n, NEW i,
           Goes(w, f, place, s, n, i), Suits(f, place, s, n, i)
    PROVE  IInv'
  <1> USE DEF Goes, Suits
  <1>0. /\ f \in FD /\ Fine(f) /\ f \in open
        /\ ~Has(todo, f) /\ ~Has(pending, f) /\ batch[f] = "none"
        /\ \A v \in Worker : running[v] = f /\ wpc[v] \in AtWork => v = w
    BY ServedFacts
  <1>1. /\ slot'[f] = s /\ node'[f] = n /\ interest'[f] = i /\ batch'[f] = "none"
        /\ \A v \in Worker : wpc'[v] = IF v = w THEN place ELSE wpc[v]
        /\ \A v \in Worker : running'[v] = f /\ wpc'[v] \in AtWork => v = w
    BY <1>0 DEF IInv, Typed
  <1>2. \A g : (Has(todo, g)' <=> Has(todo, g)) /\ (Has(pending, g)' <=> Has(pending, g))
    BY DEF Has
  <1>3. Typed'
    BY DEF IInv, Typed, AtWork
  <1>4. Phases'
    BY <1>0, <1>1 DEF IInv, Phases, AtWork
  <1>5. WaitsOnce'
    BY <1>2 DEF IInv, WaitsOnce, Distinct
  <1>6. ASSUME NEW g \in FD, g # f PROVE Fine(g)'
    <2>1. SameRefs(g) /\ interest'[g] = interest[g]
      BY <1>0, <1>1, <1>2, <1>6 DEF SameRefs, IInv, Typed
    <2> QED
      BY <2>1, KeptSame DEF IInv
  <1>7. Fine(f)'
    <2>1. OpenHeld(f)'
      <3>1. Held(f)'
        BY DEF Held
      <3> QED
        BY <1>0, <1>2, <3>1 DEF OpenHeld
    <2>2. Owned(f)'
      <3>1. \A v \in Worker : Serves(v, f)' => v = w /\ place \in AtWork
        BY <1>1 DEF Serves, IInv, Typed, AtWork
      <3>2. \A v, u \in Worker : Serves(v, f)' /\ Serves(u, f)' => v = u
        BY <3>1
      <3>3. \A v \in Worker : Serves(v, f)' => ~Armed(f)'
        BY <1>1, <3>1 DEF Armed
      <3> QED
        BY <1>0, <1>1, <1>2, <3>2, <3>3 DEF Owned
    <2>3. TimerOf(f)'
      <3>1. ASSUME NEW v \in Worker, NEW places \in SUBSET AtWork, Runs(v, f, places)'
            PROVE  place \in places
        BY <1>1, <3>1 DEF Runs
      <3>2. Runs(w, f, {place})'
        BY <1>1 DEF Runs
      <3> QED
        BY <1>1, <3>1, <3>2 DEF TimerOf, AtWork
    <2>4. Watched(f)'
      BY <1>1 DEF Watched, Armed
    <2>5. SlotBacked(f)'
      BY <1>1 DEF SlotBacked, Runs
    <2> QED
      BY <2>1, <2>2, <2>3, <2>4, <2>5 DEF Fine
  <1> QED
    BY <1>3, <1>4, <1>5, <1>6, <1>7 DEF IInv

LEMMA EntriesSame ==
    ASSUME IInv, NEW f \in FD
    PROVE  /\ slot = [slot EXCEPT ![f] = slot[f]] /\ slot[f] \in BOOLEAN
           /\ node = [node EXCEPT ![f] = node[f]]
           /\ node[f] \in {"none", "fresh", "linked", "taken"}
           /\ interest = [interest EXCEPT ![f] = interest[f]]
           /\ interest[f] \in {"absent", "off", "in", "out"}
  BY DEF IInv, Typed

LEMMA HandleKeeps == ASSUME IInv, NEW w \in Worker, Handle(w) PROVE IInv'
  <1> PICK f : f = running[w]
    OBVIOUS
  <1>0. wpc[w] = "handle" /\ wpc[w] \in AtWork /\ f \in FD
    BY ServedFacts DEF Handle, AtWork
  <1>1. PICK ev \in {"none", "in", "out"} :
           /\ wpc' = [wpc EXCEPT ![w] = IF ev = "none" THEN "free" ELSE "push"]
           /\ wev' = [wev EXCEPT ![w] = ev]
           /\ UNCHANGED <<mpc, batch, todo, vec, dying, pending, running, open, slot, node,
                          interest>>
    <2>1. ASSUME NEW ev, NEW q, NEW traffic, ev \in {"none", "in", "out"},
                 Rearm(w, f, ev, q, traffic)
          PROVE  /\ wpc' = [wpc EXCEPT ![w] = IF ev = "none" THEN "free" ELSE "push"]
                 /\ wev' = [wev EXCEPT ![w] = ev]
                 /\ UNCHANGED <<mpc, batch, todo, vec, dying, pending, running, open, slot,
                                node, interest>>
      BY <2>1 DEF Rearm, Goto, main, pool, timers
    <2> DEFINE Rearms == \E q, traffic : \E ev \in {"none", "in", "out"} :
                            Rearm(w, f, ev, q, traffic)
    <2>2. CASE HandleRead(w, f)
      <3>1. Rearms
        BY <2>2 DEF HandleRead
      <3> QED
        BY <2>1, <3>1
    <2>3. CASE HandleWrite(w, f)
      <3>1. (IF flags[f].keep THEN "in" ELSE "none") \in {"none", "in", "out"}
        OBVIOUS
      <3> QED
        BY <2>1, <2>3, <3>1 DEF HandleWrite
    <2> QED
      BY <2>2, <2>3 DEF Handle
  <1>2. /\ node[f] = "none" /\ interest[f] = "off" /\ f # dying
        /\ ~AddMayFail => ~slot[f]
    BY <1>0, ServedFacts DEF Fine, TimerOf, SlotBacked, Runs, AtWork
  <1> DEFINE place == IF ev = "none" THEN "free" ELSE "push"
  <1>3. Goes(w, f, place, slot[f], "none", "off")
    BY <1>0, <1>1, <1>2, EntriesSame DEF Goes, IInv, Typed
  <1>4. Suits(f, place, slot[f], "none", "off")
    BY <1>0, <1>2, EntriesSame DEF Suits, AtWork
  <1> HIDE DEF place
  <1> QED
    BY <1>3, <1>4, WorkerKeeps

LEMMA PushTimerKeeps == ASSUME IInv, NEW w \in Worker, PushTimer(w) PROVE IInv'
  <1> PICK f : f = running[w]
    OBVIOUS
  <1>0. /\ wpc[w] = "push" /\ wpc' = [wpc EXCEPT ![w] = "link"]
        /\ node' = [node EXCEPT ![f] = "fresh"]
        /\ UNCHANGED <<mpc, batch, todo, vec, dying, pending, running, open, slot, interest, wev>>
    BY DEF PushTimer, Goto, Kept, main, pool
  <1>1. f \in FD /\ interest[f] = "off" /\ f # dying /\ wev[w] # "none"
    BY <1>0, ServedFacts DEF AtWork, Fine, TimerOf, Runs, IInv, Phases
  <1>2. Goes(w, f, "link", slot[f], "fresh", "off")
    BY <1>0, <1>1, EntriesSame DEF Goes, AtWork, IInv, Typed
  <1>3. Suits(f, "link", slot[f], "fresh", "off")
    BY <1>1, EntriesSame DEF Suits, AtWork
  <1> QED
    BY <1>2, <1>3, WorkerKeeps

LEMMA LinkTimerKeeps == ASSUME IInv, NEW w \in Worker, LinkTimer(w) PROVE IInv'
  <1> PICK f : f = running[w]
    OBVIOUS
  <1> PICK gone : gone = (node[f] = "taken")
    OBVIOUS
  <1> DEFINE armed == IF gone THEN [interest EXCEPT ![f] = "absent"] ELSE interest
             n == IF gone THEN "none" ELSE "linked"
             s == slot[f] /\ ~gone
             i == IF gone THEN "absent" ELSE "off"
  <1>0. /\ wpc[w] = "link" /\ wpc' = [wpc EXCEPT ![w] = "store"]
        /\ node' = [node EXCEPT ![f] = n]
        /\ slot' = [slot EXCEPT ![f] = @ /\ ~(gone /\ interest[f] # "absent")]
        /\ Release(open, armed, flags, conn)
        /\ UNCHANGED <<mpc, batch, todo, vec, dying, pending, running, wev>>
    BY DEF LinkTimer, Goto, main, pool
  <1>1. /\ f \in FD /\ f \in open /\ interest[f] = "off" /\ f # dying /\ wev[w] # "none"
        /\ node[f] \in {"fresh", "taken"}
    BY <1>0, ServedFacts DEF AtWork, Fine, TimerOf, Runs, IInv, Phases
  <1>2. slot' = [slot EXCEPT ![f] = s]
    BY <1>0, <1>1 DEF IInv, Typed
  <1>3. \A g \in FD : Held(g)' <=> Held(g)
    <2>1. Held(f) /\ Held(f)'
      BY <1>0 DEF Held
    <2>2. ASSUME NEW g \in FD, g # f PROVE Held(g)' <=> Held(g)
      BY <1>0, <2>2 DEF Held, IInv, Typed
    <2> QED
      BY <2>1, <2>2
  <1>4. /\ open' \subseteq FD /\ interest' = [g \in FD |-> interest'[g]]
        /\ \A g \in FD : /\ g \in open' <=> Held(g)'
                         /\ interest'[g] = IF Held(g)' THEN armed[g] ELSE "absent"
    <2> HIDE DEF armed
    <2> QED
      BY <1>0, <1>3, ReleaseOpens DEF IInv, Typed, Fine, OpenHeld
  <1>5. open' = open
    <2>1. open \subseteq FD /\ \A g \in FD : g \in open <=> Held(g)
      BY DEF IInv, Typed, Fine, OpenHeld
    <2>2. \A g \in FD : g \in open' <=> g \in open
      BY <1>3, <1>4, <2>1
    <2> QED
      BY <1>4, <2>1, <2>2
  <1>6. interest' = [interest EXCEPT ![f] = i]
    <2>1. ASSUME NEW g \in FD PROVE interest'[g] = IF g = f THEN i ELSE interest[g]
      <3>1. g \notin open => interest[g] = "absent"
        BY DEF IInv, Fine, OpenHeld
      <3>2. armed[g] = IF g = f THEN i ELSE interest[g]
        BY <1>1 DEF IInv, Typed
      <3> QED
        BY <1>1, <1>4, <1>5, <3>1, <3>2
    <2> HIDE DEF i
    <2> QED
      BY <1>4, <2>1 DEF IInv, Typed
  <1>7. s \in BOOLEAN /\ n \in {"none", "linked"} /\ i \in {"absent", "off"}
        /\ (i # "absent" <=> n = "linked")
        /\ (~AddMayFail => ~s \/ n # "none")
    OBVIOUS
  <1> HIDE DEF s, n, i, armed
  <1>8. Goes(w, f, "store", s, n, i)
    BY <1>0, <1>1, <1>2, <1>5, <1>6 DEF Goes, AtWork, IInv, Typed
  <1>9. Suits(f, "store", s, n, i)
    BY <1>1, <1>7 DEF Suits, AtWork
  <1> QED
    BY <1>8, <1>9, WorkerKeeps

LEMMA StoreRequestKeeps == ASSUME IInv, NEW w \in Worker, StoreRequest(w) PROVE IInv'
  <1> PICK f : f = running[w]
    OBVIOUS
  <1>0. /\ wpc[w] = "store" /\ wpc' = [wpc EXCEPT ![w] = "ctl"]
        /\ slot' = [slot EXCEPT ![f] = TRUE]
        /\ UNCHANGED <<mpc, batch, todo, vec, dying, pending, running, open, node, interest, wev>>
    BY DEF StoreRequest, Goto, Kept, main, pool, timers
  <1>1. /\ f \in FD /\ wev[w] # "none" /\ ~Armed(f)
        /\ interest[f] # "absent" => node[f] = "linked"
        /\ node[f] \notin {"fresh", "taken"}
        /\ f = dying => interest[f] = "absent" /\ node[f] = "none"
        /\ ~AddMayFail => (node[f] = "linked" => interest[f] # "absent")
    <2>1. wpc[w] \in AtWork /\ Runs(w, f, {"store", "ctl"})
      BY <1>0 DEF AtWork, Runs
    <2>2. f \in FD /\ Fine(f) /\ ~Armed(f) /\ wev[w] # "none"
      BY <1>0, <2>1, ServedFacts DEF IInv, Phases
    <2>3. node[f] \notin {"fresh", "taken"}
      BY <1>0, <2>1, <2>2, ServedFacts DEF Fine, TimerOf, Runs, AtWork
    <2> QED
      BY <2>1, <2>2, <2>3 DEF Fine, TimerOf, SlotBacked
  <1>2. Goes(w, f, "ctl", TRUE, node[f], interest[f])
    BY <1>0, <1>1, EntriesSame DEF Goes, AtWork, IInv, Typed
  <1>3. Suits(f, "ctl", TRUE, node[f], interest[f])
    BY <1>1, EntriesSame DEF Suits, AtWork, Armed
  <1> QED
    BY <1>2, <1>3, WorkerKeeps

LEMMA ModifyInterestKeeps == ASSUME IInv, NEW w \in Worker, ModifyInterest(w) PROVE IInv'
  <1> PICK f : f = running[w]
    OBVIOUS
  <1>0. /\ wpc[w] = "ctl"
        /\ IF interest[f] = "absent"
           THEN wpc' = [wpc EXCEPT ![w] = "undo"] /\ interest' = interest
           ELSE /\ wpc' = [wpc EXCEPT ![w] = "free"]
                /\ interest' = [interest EXCEPT ![f] = wev[w]]
        /\ UNCHANGED <<mpc, batch, todo, vec, dying, pending, running, open, slot, node, wev>>
    BY DEF ModifyInterest, Goto, Wanted, main, pool, timers
  <1>1. /\ f \in FD /\ Fine(f) /\ wev[w] \in {"in", "out"}
        /\ node[f] \notin {"fresh", "taken"}
        /\ interest[f] # "absent" => node[f] = "linked" /\ slot[f]
    <2>1. wpc[w] \in AtWork /\ Runs(w, f, {"store", "ctl"}) /\ Runs(w, f, {"ctl"})
      BY <1>0 DEF AtWork, Runs
    <2>2. f \in FD /\ Fine(f) /\ wev[w] \in {"in", "out"}
      BY <1>0, <2>1, ServedFacts DEF IInv, Phases, Typed
    <2>3. node[f] \notin {"fresh", "taken"}
      BY <1>0, <2>1, <2>2, ServedFacts DEF Fine, TimerOf, Runs, AtWork
    <2> QED
      BY <2>1, <2>2, <2>3 DEF Fine, TimerOf
  <1>2. CASE interest[f] = "absent"
    <2>1. Goes(w, f, "undo", slot[f], node[f], "absent")
      BY <1>0, <1>1, <1>2, EntriesSame DEF Goes, AtWork, IInv, Typed
    <2>2. Suits(f, "undo", slot[f], node[f], "absent")
      BY <1>1, <1>2, EntriesSame DEF Suits, AtWork, Fine, TimerOf, SlotBacked
    <2> QED
      BY <2>1, <2>2, WorkerKeeps
  <1>3. CASE interest[f] # "absent"
    <2>1. Goes(w, f, "free", slot[f], node[f], wev[w])
      BY <1>0, <1>1, <1>3, EntriesSame DEF Goes, AtWork, IInv, Typed
    <2>2. Suits(f, "free", slot[f], node[f], wev[w])
      BY <1>1, <1>3, EntriesSame DEF Suits, AtWork, Fine, TimerOf
    <2> QED
      BY <2>1, <2>2, WorkerKeeps
  <1> QED
    BY <1>2, <1>3

LEMMA UndoStoreKeeps == ASSUME IInv, NEW w \in Worker, UndoStore(w) PROVE IInv'
  <1> PICK f : f = running[w]
    OBVIOUS
  <1>0. /\ wpc[w] = "undo" /\ wpc' = [wpc EXCEPT ![w] = "free"]
        /\ slot' = [slot EXCEPT ![f] = FALSE]
        /\ UNCHANGED <<mpc, batch, todo, vec, dying, pending, running, open, node, interest, wev>>
    BY DEF UndoStore, Forget, Goto, Kept, main, pool, timers
  <1>1. f \in FD /\ Fine(f) /\ interest[f] = "absent" /\ node[f] \notin {"fresh", "taken"}
    <2>1. wpc[w] \in AtWork /\ Runs(w, f, {"undo"})
      BY <1>0 DEF AtWork, Runs
    <2>2. f \in FD /\ Fine(f)
      BY <2>1, ServedFacts
    <2>3. node[f] \notin {"fresh", "taken"}
      BY <1>0, <2>1, <2>2, ServedFacts DEF Fine, TimerOf, Runs, AtWork
    <2> QED
      BY <2>1, <2>2, <2>3 DEF Fine, TimerOf
  <1>2. Goes(w, f, "free", FALSE, node[f], "absent")
    BY <1>0, <1>1, EntriesSame DEF Goes, AtWork, IInv, Typed
  <1>3. Suits(f, "free", FALSE, node[f], "absent")
    BY <1>1, EntriesSame DEF Suits, AtWork, Fine, TimerOf, SlotBacked
  <1> QED
    BY <1>2, <1>3, WorkerKeeps

LEMMA ReturnKeeps == ASSUME IInv, NEW w \in Worker, Return(w) PROVE IInv'
  <1> PICK f : f = running[w]
    OBVIOUS
  <1>0. /\ wpc[w] = "free" /\ wpc' = [wpc EXCEPT ![w] = "idle"]
        /\ f # None /\ running' = [running EXCEPT ![w] = None]
        /\ wev' = [wev EXCEPT ![w] = "none"]
        /\ UNCHANGED <<mpc, batch, todo, vec, dying, pending, slot, node>>
        /\ Release(open, interest, flags, conn)
    BY DEF Return, TQ!Finish, Goto, main, timers
  <1>1. \A v \in Worker : /\ running'[v] = IF v = w THEN None ELSE running[v]
                          /\ wpc'[v] = IF v = w THEN "idle" ELSE wpc[v]
    BY <1>0 DEF IInv, Typed
  <1>2. f \in FD /\ Fine(f)
    BY <1>0 DEF IInv, Typed
  <1>3. \A g \in FD : Held(g)' => g \in open
    BY <1>0, <1>1 DEF IInv, Fine, OpenHeld, Held
  <1>4. /\ open' \subseteq FD /\ interest' = [g \in FD |-> interest'[g]]
        /\ \A g \in FD : /\ g \in open' <=> Held(g)'
                         /\ interest'[g] = IF Held(g)' THEN interest[g] ELSE "absent"
    BY <1>0, <1>3, ReleaseOpens DEF IInv, Typed
  <1>5. Typed'
    BY <1>0, <1>4 DEF IInv, Typed
  <1>6. Phases'
    BY <1>0, <1>1 DEF IInv, Phases, Typed
  <1>7. WaitsOnce'
    BY <1>0 DEF IInv, WaitsOnce, Distinct, Has
  <1>8. ASSUME NEW g \in FD, g # f PROVE Fine(g)'
    <2>1. SameRefs(g)
      BY <1>0, <1>1, <1>8 DEF SameRefs, Has
    <2> QED
      BY <1>4, <2>1, ReleaseSame DEF IInv
  <1>9. Fine(f)'
    <2>1. \A g : (Has(todo, g)' <=> Has(todo, g)) /\ (Has(pending, g)' <=> Has(pending, g))
      BY <1>0 DEF Has
    <2>2. ~Held(f)' => /\ slot[f] = FALSE /\ node[f] = "none" /\ f # dying /\ f \notin vec
                       /\ ~Has(pending, f) /\ ~Has(todo, f)
      BY <1>0, <1>2 DEF IInv, Typed, Held, Has, Fine, OpenHeld
    <2>3. \A v \in Worker : running'[v] = f => running[v] = f /\ wpc'[v] = wpc[v] /\ v # w
      BY <1>0, <1>1, <1>2
    <2>4. OpenHeld(f)'
      BY <1>0, <1>2, <1>4, <2>1 DEF Fine, OpenHeld
    <2>5. CASE Held(f)'
      <3>1. interest'[f] = interest[f]
        BY <1>2, <1>4, <2>5
      <3>2. Owned(f)'
        BY <1>0, <1>2, <2>1, <2>3, <3>1 DEF Fine, Owned, Serves, Armed
      <3>3. \A v \in Worker, places \in SUBSET AtWork : Runs(v, f, places)' <=> Runs(v, f, places)
        BY <1>0, <1>1, <1>2 DEF Runs, AtWork
      <3>4. TimerOf(f)'
        BY <1>0, <1>2, <3>1, <3>3 DEF Fine, TimerOf, AtWork
      <3>5. Watched(f)' /\ SlotBacked(f)'
        BY <1>0, <1>2, <3>1, <3>3 DEF Fine, Watched, Armed, SlotBacked, AtWork
      <3> QED
        BY <2>4, <3>2, <3>4, <3>5 DEF Fine
    <2>6. CASE ~Held(f)'
      <3>1. interest'[f] = "absent" /\ \A v \in Worker : running'[v] # f
        BY <1>2, <1>4, <2>6 DEF Held
      <3>2. batch[f] = "none"
        BY <1>2, <2>2, <2>6 DEF Fine, Watched
      <3>3. Owned(f)'
        BY <1>0, <2>1, <2>2, <2>6, <3>1, <3>2 DEF Owned, Serves, Armed
      <3>4. TimerOf(f)'
        BY <1>0, <2>2, <2>6, <3>1 DEF TimerOf, Runs
      <3>5. Watched(f)' /\ SlotBacked(f)'
        BY <1>0, <2>2, <2>6, <3>1, <3>2 DEF Watched, Armed, SlotBacked
      <3> QED
        BY <2>4, <3>3, <3>4, <3>5 DEF Fine
    <2> QED
      BY <2>5, <2>6
  <1> QED
    BY <1>5, <1>6, <1>7, <1>8, <1>9 DEF IInv

-----------------------------------------------------------------------------

LEMMA InitIInv == Init => IInv
  <1> SUFFICES ASSUME Init PROVE IInv
    OBVIOUS
  <1>1. Typed /\ Phases
    BY DEF Init, Typed, Phases
  <1>2. WaitsOnce /\ \A f : ~Has(todo, f) /\ ~Has(pending, f)
    BY DEF Init, WaitsOnce, Distinct, Has
  <1>3. ASSUME NEW f \in FD PROVE Fine(f)
    <2>1. OpenHeld(f)
      BY <1>2 DEF Init, OpenHeld, Held
    <2>2. Owned(f) /\ TimerOf(f) /\ Watched(f) /\ SlotBacked(f)
      BY <1>2 DEF Init, Owned, Serves, Armed, TimerOf, Runs, Watched, SlotBacked
    <2> QED
      BY <2>1, <2>2 DEF Fine
  <1> QED
    BY <1>1, <1>2, <1>3 DEF IInv

LEMMA NextIInv == IInv /\ [Next]_vars => IInv'
  <1> SUFFICES ASSUME IInv, [Next]_vars PROVE IInv'
    OBVIOUS
  <1>0. mpc \in {"wait", "events", "submit", "expire", "reset"}
    BY DEF IInv, Typed
  <1>1. CASE UNCHANGED vars
    BY <1>0, <1>1, QuietKeeps DEF vars, main, pool, worker, timers, refs
  <1>2. CASE Connect \/ AcceptTooMany \/ AcceptEnds \/ EventsEnd \/ SubmitEnds
    <2>1. UNCHANGED <<refs, open, interest, wev>>
      BY <1>2 DEF Connect, AcceptTooMany, AcceptEnds, EventsEnd, SubmitEnds, Client, Kept,
                  main, pool, worker, timers, refs
    <2>2. /\ mpc' \in {"wait", "events", "submit", "expire", "reset"}
          /\ mpc' # mpc => \/ /\ mpc = "events" /\ mpc' = "submit"
                              /\ \A f \in FD : batch[f] = "none"
                           \/ mpc = "submit" /\ mpc' = "expire" /\ todo = <<>>
      BY <1>0, <1>2 DEF Connect, AcceptTooMany, AcceptEnds, EventsEnd, SubmitEnds, Client,
                        main
    <2> QED
      BY <2>1, <2>2, QuietKeeps
  <1>3. ASSUME NEW f \in FD, Deadline(f) \/ Send(f) \/ Shutdown(f) \/ Reset(f) \/ Drain(f)
        PROVE  IInv'
    <2>1. UNCHANGED <<mpc, refs, open, interest, wev>>
      BY <1>3 DEF Deadline, Send, Shutdown, Reset, Drain, Client,
                  main, pool, worker, timers, refs
    <2> QED
      BY <1>0, <2>1, QuietKeeps
  <1>4. ASSUME NEW w \in Worker, Take(w) \/ PushTimer(w) \/ Step(w) PROVE IInv'
    BY <1>4, TakeKeeps, HandleKeeps, PushTimerKeeps, LinkTimerKeeps, StoreRequestKeeps,
       ModifyInterestKeeps, UndoStoreKeeps, ReturnKeeps DEF Step
  <1>5. ASSUME NEW f \in FD, ErrorEvent(f) \/ ReadyEvent(f) \/ Expire(f) PROVE IInv'
    BY <1>5, ErrorEventKeeps, ReadyEventKeeps, ExpireKeeps
  <1>6. CASE EpollWait \/ Accept \/ Submit \/ SubmitFails \/ ExpireReset \/ ExpireEnds
    BY <1>6, EpollWaitKeeps, AcceptKeeps, SubmitKeeps, SubmitFailsKeeps, ExpireResetKeeps,
       ExpireEndsKeeps
  <1> QED
    BY <1>1, <1>2, <1>3, <1>4, <1>5, <1>6 DEF Next, Main

\* One thread at a time handles a connection, whatever the other descriptors,
\* the workers and the timers do (EPOLLONESHOT, Epoll.cpp:137).
THEOREM OneThreadOwns == Spec => []OneOwner
  <1>1. ASSUME IInv, NEW f \in FD
        PROVE  /\ \A v, w \in Worker : Serves(v, f) /\ Serves(w, f) => v = w
               /\ (\E w \in Worker : Serves(w, f)) => ~Waiting(f) /\ ~Armed(f)
                                                       /\ batch[f] = "none"
               /\ Waiting(f) => ~Armed(f) /\ batch[f] = "none"
               /\ \A i, j \in 1..Len(pending) : pending[i] = f /\ pending[j] = f => i = j
    <2>1. Waiting(f) <=> Has(todo, f) \/ Has(pending, f)
      BY DEF Waiting, Queued, Has
    <2>2. Owned(f)
      BY <1>1 DEF IInv, Fine
    <2>3. \A i, j \in 1..Len(pending) : pending[i] = f /\ pending[j] = f => i = j
      BY <1>1 DEF IInv, WaitsOnce, Distinct
    <2> QED
      BY <2>1, <2>2, <2>3 DEF Owned, Armed
  <1>2. IInv => OneOwner
    BY <1>1 DEF OneOwner
  <1> QED
    BY <1>2, InitIInv, NextIInv, PTL DEF Spec

\* No timer holds a request that waits or is handled (Epoll.cpp:179, 191).
THEOREM NoTimerHoldsServed == Spec => []NoTimerWhileServed
  <1>1. ASSUME IInv, NEW f \in FD,
               Waiting(f) \/ \E w \in Worker : running[w] = f /\ wpc[w] \in {"handle", "push"}
        PROVE  node[f] = "none"
    <2>1. Waiting(f) <=> Has(todo, f) \/ Has(pending, f)
      BY DEF Waiting, Queued, Has
    <2> QED
      BY <1>1, <2>1 DEF IInv, Fine, Owned, TimerOf, Runs
  <1>2. IInv => NoTimerWhileServed
    BY <1>1 DEF NoTimerWhileServed
  <1> QED
    BY <1>2, InitIInv, NextIInv, PTL DEF Spec

\* What is armed or reported is in fd2req and has a linked timer
\* (RequestData.cpp:330-350).
THEOREM ArmedHasTimer == Spec => []ArmedIsWatched
  <1>1. IInv => ArmedIsWatched
    BY DEF IInv, Fine, Watched, ArmedIsWatched
  <1> QED
    BY <1>1, InitIInv, NextIInv, PTL DEF Spec

\* While epoll_add does not fail, no open descriptor is left to fd2req alone.
THEOREM NothingLeaks == ~AddMayFail => (Spec => []NoLeak)
  <1> SUFFICES ASSUME ~AddMayFail PROVE Spec => []NoLeak
    OBVIOUS
  <1>1. ASSUME IInv, NEW f \in open
        PROVE  \/ node[f] # "none" \/ f \in vec \/ Queued(f) \/ dying = f
               \/ \E w \in Worker : running[w] = f
    <2>1. f \in FD /\ Held(f)
      BY <1>1 DEF IInv, Typed, Fine, OpenHeld
    <2>2. SlotBacked(f)
      BY <1>1, <2>1 DEF IInv, Fine
    <2> QED
      BY <2>1, <2>2 DEF Held, Queued, SlotBacked, Runs
  <1>2. IInv => NoLeak
    BY <1>1 DEF NoLeak
  <1> QED
    BY <1>2, InitIInv, NextIInv, PTL DEF Spec
=============================================================================
