------------------------------- MODULE SkipList -------------------------------
(***************************************************************************)
(* The skip list of examples/DataStruct/skipList.  A level is the sequence *)
(* of its nodes after the sentry, levels[1] the bottom one; the node of a  *)
(* tower has the same id on each of its levels, so the pointers down and   *)
(* top join the positions of one id.  Position 0 of a level is its sentry, *)
(* whose key is INT_MIN.  The coin of insert is any height up to a bound.  *)
(* A caller never inserts, removes or looks up INT_MIN: the sentry would   *)
(* answer to it.                                                           *)
(***************************************************************************)
EXTENDS Integers, Sequences, SequencesExt, Loops

CONSTANTS
    Key,        \* the keys inserted, integers above INT_MIN
    INT_MIN,    \* the key of the sentries
    MaxSize,    \* bound: nodes on the bottom level
    MaxLevel    \* bound: levels the coin may reach

ASSUME KeyAssumption == Key \subseteq Int /\ \A key \in Key : key > INT_MIN

ASSUME BoundAssumption == MaxSize \in Nat /\ MaxLevel \in Nat

VARIABLES levels, size

skipVars == <<levels, size>>

Node == [key : Key, id : 1..MaxSize]

SkipInit ==
    /\ levels = << <<>> >>
    /\ size = 0

\* Where the node of the id stands in a level.
PositionOf(level, id) == CHOOSE i \in DOMAIN level : level[i].id = id

\* Where the node at position i of level l stands one level below.
Down(l, i) == IF i = 0 THEN 0 ELSE PositionOf(levels[l - 1], levels[l][i].id)

\* From position i of level l to the right until the next key is larger than bound.
Right(l, i, bound) ==
    CHOOSE j \in i..Len(levels[l]) :
        /\ \A k \in (i + 1)..j : levels[l][k].key <= bound
        /\ j < Len(levels[l]) => levels[l][j + 1].key > bound

\* The level a walk from the head of the top level is on at its turn t.
LevelAt(t) == Len(levels) - t

Walks == 0..(Len(levels) - 1)

\* The bottom node behind which insert places the key, from the head of the
\* top level: right while the key is not larger, down where the level ends or
\* the next key is larger.
Predecessor(key) ==
    LET Walk == [t \in Walks |-> [i \in Nat |->
                    LET l == LevelAt(t)  j == Right(l, i, key)
                    IN  IF l > 1 THEN Down(l, j) ELSE j]]
    IN After(0, Len(levels), Walk)

\* From the predecessor on one level back to the first node that has a top,
\* then up: its position on the level above, 0 for the sentry.
UpFrom(l, i) ==
    LET tops == {j \in 1..i : \E k \in DOMAIN levels[l + 1] :
                                levels[l + 1][k].id = levels[l][j].id}
    IN  IF tops = {} THEN 0 ELSE PositionOf(levels[l + 1], levels[l][Max(tops)].id)

\* The predecessor of the new node on each level that exists.
Places(key) ==
    LET Up == [k \in Walks |-> [i \in Nat |-> UpFrom(k + 1, i)]]
    IN  [l \in 1..Len(levels) |-> After(Predecessor(key), l - 1, Up)]

bindNewNode(level, i, p) == InsertAt(level, i + 1, p)

\* A key is inserted with a tower of any height: the levels it reaches get its
\* node behind the predecessor, a level above the top one starts with it.
insert(key, height) ==
    LET place == Places(key)
        ids   == {levels[1][i].id : i \in DOMAIN levels[1]}
        p     == [key |-> key, id |-> CHOOSE n \in 1..MaxSize : n \notin ids]
    IN
    /\ size < MaxSize
    /\ levels' = [l \in 1..Max({Len(levels), height}) |->
                    IF l > Len(levels) THEN <<p>>
                    ELSE IF l <= height THEN bindNewNode(levels[l], place[l], p)
                    ELSE levels[l]]
    /\ size' = size + 1

\* Where a node of the key is found first, from the head of the top level: right
\* while the key is larger, down where the level ends or the next key is larger.
\* Level 0 for none.
searchNode(key) ==
    LET Walk == [t \in Walks |-> [x \in [l : Nat, i : Nat] |->
                    LET l == LevelAt(t)  j == Right(l, x.i, key - 1)
                    IN  IF x.l # 0 THEN x
                        ELSE IF j < Len(levels[l]) /\ levels[l][j + 1].key = key
                        THEN [l |-> l, i |-> j + 1]
                        ELSE [l |-> 0, i |-> IF l > 1 THEN Down(l, j) ELSE j]]]
    IN After([l |-> 0, i |-> 0], Len(levels), Walk)

search(key) == searchNode(key).l # 0

\* The level of the node without it; a top level the node was alone on goes.
delNode_KeepsLevel(all, l, id) == [all EXCEPT ![l] = RemoveAt(all[l], PositionOf(all[l], id))]

delNode(all, l, id) ==
    IF Len(all[l]) = 1 /\ l = Len(all) /\ l > 1
    THEN SubSeq(all, 1, l - 1)
    ELSE [all EXCEPT ![l] = RemoveAt(all[l], PositionOf(all[l], id))]

\* The tower that was found goes, from its top down to the bottom.
remove(key) ==
    LET found == searchNode(key)
        id    == levels[found.l][found.i].id
        Del   == [t \in 0..(found.l - 1) |-> [all \in Seq(Seq(Node)) |->
                    delNode(all, found.l - t, id)]]
    IN
    IF search(key)
    THEN levels' = After(levels, found.l, Del) /\ size' = size - 1
    ELSE UNCHANGED skipVars

SkipNext ==
    \E key \in Key :
        \/ \E height \in 1..MaxLevel : insert(key, height)
        \/ remove(key)

------------------------------------------------------------------------------
(* Properties. *)

\* After any sequence of insertions and removals the list is a skip list again:
\* its levels are sorted, each a part of the one below, no level above the
\* bottom one is empty, size counts the bottom nodes, and search (searchNode's
\* descent) finds exactly the keys that were inserted and not removed.
SearchFindsWhatIsThere ==
    /\ \A l \in DOMAIN levels :
        /\ \A i \in 2..Len(levels[l]) : levels[l][i - 1].key <= levels[l][i].key
        /\ l > 1 => /\ levels[l] # <<>>
                    /\ ToSet(levels[l]) \subseteq ToSet(levels[l - 1])
    /\ size = Len(levels[1])
    /\ \A key \in Key : search(key) <=> \E i \in 1..size : levels[1][i].key = key
===============================================================================
