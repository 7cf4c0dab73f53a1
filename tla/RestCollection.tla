---------------------------- MODULE RestCollection ----------------------------
(***************************************************************************)
(* What a collection of the restful application promises: items by id;     *)
(* POST creates one that is not there, PUT changes one that is, DELETE     *)
(* removes one, and no request touches any other.                          *)
(***************************************************************************)
CONSTANTS Id, Value, None

VARIABLE item

Init == item \in [Id -> Value \cup {None}]

Create(n, v) == item[n] = None /\ item' = [item EXCEPT ![n] = v]
Change(n, v) == item[n] # None /\ item' = [item EXCEPT ![n] = v]
Remove(n)    == item[n] # None /\ item' = [item EXCEPT ![n] = None]

Next == \E n \in Id : Remove(n) \/ \E v \in Value : Create(n, v) \/ Change(n, v)

Spec == Init /\ [][Next]_item
=============================================================================
