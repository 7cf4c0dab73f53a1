------------------------------ MODULE MCTimer ------------------------------
(* Instances of Timer for TLC. *)
EXTENDS Timer

CONSTANTS r1, r2, n1, n2, n3

TwoRequests == {r1, r2}
ThreeNodes  == {n1, n2, n3}

\* TIMER_TIME_OUT, DEFAULT_EXPIRED_TIME and DEFAULT_KEEP_ALIVE_TIME keep their
\* order and nothing else.
ThreeTimeouts == {1, 2, 3}
=============================================================================
