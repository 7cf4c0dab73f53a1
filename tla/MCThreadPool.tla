---------------------------- MODULE MCThreadPool ----------------------------
(* Instances of ThreadPool for TLC. *)
EXTENDS ThreadPool

CONSTANTS t1, t2, t3, t4

FourTasks  == {t1, t2, t3, t4}

\* Three threads and a ring of one, two or three slots, and the argument pairs
\* threadpool_create replaces.
EveryPool == {<<3, 1>>, <<1, 3>>, <<3, 2>>, <<0, 1>>, <<2, 0>>, <<4, 2>>, <<2, 9>>}
=============================================================================
