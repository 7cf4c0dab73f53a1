------------------------------ MODULE MCFrontEnd ------------------------------
(* Instances of FrontEnd for TLC. *)
EXTENDS FrontEnd, TLC

CONSTANTS w1, w2, c1, c2

TwoWorkers   == {w1, w2}
TwoConns     == {c1, c2}
TwoQuestions == {"table", "other"}

Req(method, also, url, keep, length) ==
    [method |-> method, also |-> also, url |-> url, keep |-> keep, length |-> length]

\* One client asks on a long connection and ends it with a method nobody serves; the
\* other makes one request, to be answered or refused: no length, or the name of a
\* method in the path.
SomeRequests ==
    c1 :> {Req("GET", "", "table", TRUE, FALSE), Req("PUT", "", "table", FALSE, TRUE)} @@
    c2 :> {Req("POST", "POST", "other", FALSE, TRUE),
           Req("POST", "GET", "table", TRUE, TRUE),
           Req("POST", "", "table", FALSE, FALSE)}
=============================================================================
