----------------------------- MODULE MCReactor -----------------------------
(* Instances of Reactor for TLC. *)
EXTENDS Reactor, TLC

CONSTANTS f1, f2, w1, w2

OneFD    == {f1}
TwoFDs   == {f1, f2}
OneWorker  == {w1}
TwoWorkers == {w1, w2}

ReactorSymmetry == Permutations(FD) \cup Permutations(Worker)
=============================================================================
