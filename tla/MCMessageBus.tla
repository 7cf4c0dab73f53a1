----------------------------- MODULE MCMessageBus -----------------------------
(* Instances of MessageBus for TLC. *)
EXTENDS MessageBus

CONSTANTS w1, w2, s1, s2

TwoWorkers  == {w1, w2}
TwoServices == {s1, s2}
TwoQuestions == {"table", "other"}
=============================================================================
