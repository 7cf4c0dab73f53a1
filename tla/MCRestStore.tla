----------------------------- MODULE MCRestStore -----------------------------
(* Instances of RestStore for TLC. *)
EXTENDS RestStore

CONSTANTS w1, w2, a

TwoWorkers == {w1, w2}
OneValue   == {a}
TwoIds     == {"1", "2"}
=============================================================================
