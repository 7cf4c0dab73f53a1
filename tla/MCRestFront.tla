---------------------------- MODULE MCRestFront ----------------------------
(* Instances of RestFront for TLC. *)
EXTENDS RestFront

CONSTANTS w1, w2, a, b

TwoWorkers == {w1, w2}
TwoValues  == {a, b}
TwoIds     == {"1", "2"}

Ask(method, uri, after, id, value) ==
    [method |-> method, uri |-> uri, after |-> after, id |-> id, value |-> value]

\* Every verb on the collection and on one item, the object, and what is refused:
\* an unknown name or method, a form without its length, a method in the path.
Long == {Ask("GET", "posts", "1", NoText, None), Ask("GET", "posts", NoText, NoText, None),
         Ask("DELETE", "posts", "1", NoText, None)}
        \cup {Ask("POST", "posts", NoText, i, v) : i \in TwoIds, v \in TwoValues}
        \cup {Ask("PUT", "posts", i, NoText, v) : i \in TwoIds, v \in TwoValues}
        \cup {Ask("PUT", "profile", NoText, NoText, v) : v \in TwoValues}
Short == {Ask("GET", "profile", NoText, NoText, None), Ask("DELETE", "posts", "2", NoText, None)}
Bad   == {Ask("HEAD", "posts", NoText, NoText, None), Ask("GET", "none", NoText, NoText, None)}

Sent == {[r |-> r, keep |-> TRUE, also |-> NoText, length |-> TRUE] : r \in Long \cup Bad}
        \cup {[r |-> r, keep |-> FALSE, also |-> "POST", length |-> TRUE] : r \in Short}
        \cup {[r |-> Ask("POST", "posts", NoText, "1", v), keep |-> TRUE, also |-> NoText,
               length |-> FALSE] : v \in TwoValues}

FrontSymmetry == Permutations(Worker) \cup Permutations(Value)
============================================================================
