------------------------------ MODULE MCAccounts ------------------------------
(* Instances of Accounts for TLC. *)
EXTENDS Accounts

CONSTANTS t1, t2, u1, p1, p2

TwoThreads == {t1, t2}
OneUser    == {u1}
TwoPasswds == {p1, p2}
=============================================================================
