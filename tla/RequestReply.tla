----------------------------- MODULE RequestReply -----------------------------
(***************************************************************************)
(* What a worker of the front end (myprj/webServerTest) sees of the message *)
(* bus: ZeroMqUtil::sendZeroMqMessage, one call at a time.  A worker asks a  *)
(* question, which is the url of an HTTP request, and blocks until it has    *)
(* the answer to that question and to no other.  An answer may never come.   *)
(***************************************************************************)
CONSTANTS Worker,
          Nothing,    \* no question, no answer
          Question    \* the urls that are asked for

\* What rrServer tells apart in a url: "database/t" with a table t of the data
\* base, a path of two parts with no such table, another directory with such a
\* table, and what has not two parts.
ASSUME UrlAssumption == Question \subseteq {"table", "unknown", "elsewhere", "other"}
ASSUME NothingAssumption == Nothing \notin {"rows", "not find table", ""} \cup Question

Answer == [q \in Question |-> CASE q = "table"   -> "rows"
                                [] q = "unknown" -> "not find table"
                                [] OTHER         -> ""]
Answers == {"rows", "not find table", ""}

VARIABLES asking,     \* per worker: the question it waits for an answer to
          reply       \* per worker: the answer that has come

busVars == <<asking, reply>>

BusInit ==
    /\ asking = [w \in Worker |-> Nothing]
    /\ reply = [w \in Worker |-> Nothing]

Ask(w, q) ==
    /\ asking[w] = Nothing
    /\ asking' = [asking EXCEPT ![w] = q]
    /\ UNCHANGED reply

Serve(w) ==
    /\ asking[w] # Nothing /\ reply[w] = Nothing
    /\ reply' = [reply EXCEPT ![w] = Answer[asking[w]]]
    /\ UNCHANGED asking

Receive(w) ==
    /\ reply[w] # Nothing
    /\ asking' = [asking EXCEPT ![w] = Nothing]
    /\ reply' = [reply EXCEPT ![w] = Nothing]

BusNext ==
    \E w \in Worker : \/ \E q \in Question : Ask(w, q)
                      \/ Serve(w)
                      \/ Receive(w)

BusSpec == BusInit /\ [][BusNext]_busVars
=============================================================================
