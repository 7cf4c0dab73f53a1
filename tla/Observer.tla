------------------------------- MODULE Observer -------------------------------
(***************************************************************************)
(* examples/DesignPattern/Observer/base_use: a subject keeps its observers  *)
(* in a list, newest first, and tells all of them when it is asked to.  An  *)
(* observer attaches itself when it is made; when it is destroyed it        *)
(* detaches itself and deletes the subject, which it does not own alone:    *)
(* the program may only destroy the last one.  main destroys none.          *)
(***************************************************************************)
EXTENDS Sequences, SequencesExt

CONSTANTS Watcher,      \* the observers that can be made, each once
          SubjectState, Unset,
          LastOnly      \* whether an observer is destroyed only as the last one

VARIABLES subject,      \* whether it is there, its state and its list
          watchers,     \* the observers that live
          seen,         \* per observer: its copy of the state
          told          \* history: the observers told since the last SetState

observerVars == <<subject, watchers, seen, told>>

ObserverInit ==
    /\ subject = [there |-> TRUE, st |-> Unset, obvs |-> <<>>]
    /\ watchers = {} /\ told = {}
    /\ seen = [o \in Watcher |-> Unset]

Attach(s, o) == [s EXCEPT !.obvs = <<o>> \o @]

\* An observer attaches itself once: list::remove finds one place.
Detach(s, o) == [s EXCEPT !.obvs = RemoveFirst(@, o)]

NewObserver(o) ==
    /\ subject.there /\ o \notin watchers
    /\ subject' = Attach(subject, o)
    /\ watchers' = watchers \cup {o}
    /\ seen' = [seen EXCEPT ![o] = Unset]
    /\ told' = told \ {o}

Destroy(o) ==
    /\ subject.there /\ o \in watchers
    /\ LastOnly => watchers = {o}
    /\ subject' = [Detach(subject, o) EXCEPT !.there = FALSE]
    /\ watchers' = watchers \ {o}
    /\ UNCHANGED <<seen, told>>

SetState(st) ==
    /\ subject.there
    /\ subject' = [subject EXCEPT !.st = st]
    /\ told' = {}
    /\ UNCHANGED <<watchers, seen>>

\* The copies after Update of every observer in the list.
Updated_NotLast(s, copies) ==
    [o \in DOMAIN copies |-> IF o \in ToSet(Front(s.obvs)) THEN s.st ELSE copies[o]]
Updated(s, copies) ==
    [o \in DOMAIN copies |-> IF o \in ToSet(s.obvs) THEN s.st ELSE copies[o]]

Notify ==
    /\ subject.there
    /\ seen' = Updated(subject, seen)
    /\ told' = watchers
    /\ UNCHANGED <<subject, watchers>>

ObserverNext ==
    \/ \E o \in Watcher : NewObserver(o) \/ Destroy(o)
    \/ \E st \in SubjectState : SetState(st)
    \/ Notify

------------------------------------------------------------------------------
(* Properties. *)

\* Whoever was there when the subject last notified its observers has the state it
\* had then, and no other; and an observer never outlives its subject or its place
\* in the list (Subject::Notify, Attach, Detach).
EveryoneIsTold ==
    /\ \A o \in told : seen[o] = subject.st
    /\ watchers # {} => subject.there
    /\ ToSet(subject.obvs) = watchers
===============================================================================
