------------------------------ MODULE MessageBus ------------------------------
(***************************************************************************)
(* The message bus behind myprj/webServerTest: the workers' REQ sockets     *)
(* (ZeroMqUtil), the proxy that is a ROUTER in front and a DEALER behind     *)
(* (req/rrBroker), and the services that answer from MySQL on REP sockets    *)
(* (req/rrServer).                                                          *)
(*                                                                         *)
(* A message is a question, or the answer it has become, with the worker    *)
(* that the ROUTER's identity frame names, at one place of its way.  The    *)
(* proxy's inner loop moves every frame of a message before anything else,  *)
(* so a message moves in one step.  ZeroMQ keeps the order of one pipe; the *)
(* model lets any message of a place go first, and the fairness says that   *)
(* none is passed over for ever.  High-water marks are not reached.         *)
(***************************************************************************)
EXTENDS Naturals, FiniteSets

CONSTANTS Worker, Service, Nothing,
          Question,           \* the urls that are asked for, see RequestReply
          MaxCrashes          \* bound on the crashes of services

ASSUME CrashAssumption == MaxCrashes \in Nat

Answers == {"rows", "not find table", ""}

ASSUME QuestionAssumption == Question \subseteq {"table", "unknown", "elsewhere", "other"}
ASSUME DistinctAssumption == Nothing \notin Question \cup Answers \cup Service

VARIABLES asking,     \* per worker: the question it blocks for
          messages,   \* the messages under way
          broker,     \* where the proxy is in its loop
          ready,      \* revents: the sides the last zmq::poll found readable
          up,         \* per service: "down", "connected", "serving"
          mysql,      \* per service: whether _mySql is not null
          crashes,
          lost        \* history: the workers whose message died with a service

vars == <<asking, messages, broker, ready, up, mysql, crashes, lost>>

\* Places: at a socket of the proxy or of a worker, or at a service.
Front == <<"front", Nothing>>         \* the question waits at the ROUTER
Hand  == <<"hand", Nothing>>          \* the proxy has received it
In(s) == <<"in", s>>                  \* it waits at the REP socket
Cur(s) == <<"cur", s>>                \* the service works on it
Out(s) == <<"out", s>>                \* the answer is in the service's socket
Dealer == <<"dealer", Nothing>>       \* it waits at the DEALER
Back  == <<"back", Nothing>>          \* the answer waits at the worker

QuestionPlace == {Front, Hand} \cup {In(s) : s \in Service} \cup {Cur(s) : s \in Service}
AnswerPlace   == {Dealer, Back} \cup {Out(s) : s \in Service}

Message == [who : Worker, body : Question, at : QuestionPlace]
           \cup [who : Worker, body : Answers, at : AnswerPlace]

Init ==
    /\ asking = [w \in Worker |-> Nothing]
    /\ messages = {}
    /\ broker = "poll" /\ ready = {}
    /\ up = [s \in Service |-> "down"]
    /\ mysql = [s \in Service |-> FALSE]
    /\ crashes = 0 /\ lost = {}

\* The message m goes on to the next place.
Moved(m, place) == (messages \ {m}) \cup {[m EXCEPT !.at = place]}

serviceVars == <<up, mysql, crashes, lost>>

-----------------------------------------------------------------------------
(* A worker: a new REQ socket for one question and one answer.  timeOut is 0, *)
(* so it waits as long as it takes.                                          *)

Ask(w, q) ==
    /\ asking[w] = Nothing
    /\ asking' = [asking EXCEPT ![w] = q]
    /\ messages' = messages \cup {[who |-> w, body |-> q, at |-> Front]}
    /\ UNCHANGED <<broker, ready, serviceVars>>

Receive(w) ==
    \E m \in messages :
        /\ m.who = w /\ m.at = Back
        /\ asking' = [asking EXCEPT ![w] = Nothing]
        /\ messages' = messages \ {m}
        /\ UNCHANGED <<broker, ready, serviceVars>>

-----------------------------------------------------------------------------
(* The proxy.                                                               *)

Connected == {s \in Service : up[s] # "down"}

Readable_FrontOnly == IF \E m \in messages : m.at = Front THEN {"front"} ELSE {}
Readable == {side \in {"front", "back"} :
                \E m \in messages : m.at = IF side = "front" THEN Front ELSE Dealer}

\* zmq::poll without a time-out: it returns when a side is readable.
Poll ==
    /\ broker = "poll" /\ Readable # {}
    /\ ready' = Readable
    /\ broker' = IF "front" \in ready' THEN "front" ELSE "back"
    /\ UNCHANGED <<asking, messages, serviceVars>>

\* One message from the ROUTER, with the identity of the socket it came from.
FrontRecv(w) ==
    \E m \in messages :
        /\ broker = "front"
        /\ m.who = w /\ m.at = Front
        /\ messages' = Moved(m, Hand)
        /\ broker' = "send"
        /\ UNCHANGED <<asking, ready, serviceVars>>

AfterFront == IF "back" \in ready THEN "back" ELSE "poll"

\* The DEALER gives it to a service; with none connected send() blocks.
Given_Copies(m, s) == messages \cup {[m EXCEPT !.at = In(s)]}
Given(m, s) == Moved(m, In(s))

BackSend(s) ==
    \E m \in messages :
        /\ broker = "send" /\ s \in Connected
        /\ m.at = Hand
        /\ messages' = Given(m, s)
        /\ broker' = AfterFront
        /\ UNCHANGED <<asking, ready, serviceVars>>

\* An answer goes to the worker that the identity names.
Routed(m) == Moved(m, Back)

BackForward(w) ==
    \E m \in messages :
        /\ broker = "back"
        /\ m.who = w /\ m.at = Dealer
        /\ messages' = Routed(m)
        /\ broker' = "poll"
        /\ UNCHANGED <<asking, ready, serviceVars>>

-----------------------------------------------------------------------------
(* A service.  init() connects the socket before the data base: questions   *)
(* may wait for it already.                                                 *)

Connect(s) ==
    /\ up[s] = "down"
    /\ up' = [up EXCEPT ![s] = "connected"]
    /\ UNCHANGED <<asking, messages, broker, ready, mysql, crashes, lost>>

\* connMySql: when it fails, _mySql stays null and the service starts all the same.
ConnMySql(s) ==
    /\ up[s] = "connected"
    /\ up' = [up EXCEPT ![s] = "serving"]
    /\ \E connected \in BOOLEAN : mysql' = [mysql EXCEPT ![s] = connected]
    /\ UNCHANGED <<asking, messages, broker, ready, crashes, lost>>

Works(s) == \E m \in messages : m.at = Cur(s)

Recv(s, w) ==
    \E m \in messages :
        /\ up[s] = "serving" /\ ~Works(s)
        /\ m.who = w /\ m.at = In(s)
        /\ messages' = Moved(m, Cur(s))
        /\ UNCHANGED <<asking, broker, ready, serviceVars>>

\* A url of two parts is looked up in the tables of the data base.
NeedsMySql(q) == q # "other"

Answer_KeepsLast(q) == IF q = "unknown" THEN "not find table" ELSE "rows"
Answer(q) == CASE q = "table"   -> "rows"
               [] q = "unknown" -> "not find table"
               [] OTHER         -> ""

Reply(s) ==
    \E m \in messages :
        /\ m.at = Cur(s)
        /\ NeedsMySql(m.body) => mysql[s]
        /\ messages' = (messages \ {m}) \cup
              {[who |-> m.who, body |-> Answer(m.body), at |-> Out(s)]}
        /\ UNCHANGED <<asking, broker, ready, serviceVars>>

\* ZeroMQ's own thread carries it over.
Transmit(s, w) ==
    \E m \in messages :
        /\ m.who = w /\ m.at = Out(s)
        /\ messages' = Moved(m, Dealer)
        /\ UNCHANGED <<asking, broker, ready, serviceVars>>

\* A process dies: what is in its hands or its socket goes with it.
Held(s) == {m \in messages : m.at \in {In(s), Cur(s), Out(s)}}

Die(s) ==
    /\ up' = [up EXCEPT ![s] = "down"]
    /\ mysql' = [mysql EXCEPT ![s] = FALSE]
    /\ messages' = messages \ Held(s)
    /\ lost' = lost \cup {m.who : m \in Held(s)}
    /\ UNCHANGED <<asking, broker, ready>>

\* start() dereferences a null _mySql.
NullMySql(s) ==
    /\ \E m \in messages : m.at = Cur(s) /\ NeedsMySql(m.body)
    /\ ~mysql[s]
    /\ Die(s)
    /\ UNCHANGED crashes

\* Or it is stopped, at any moment.
Crash(s) ==
    /\ up[s] # "down" /\ crashes < MaxCrashes
    /\ Die(s)
    /\ crashes' = crashes + 1

Next ==
    \/ \E w \in Worker :
          \/ \E q \in Question : Ask(w, q)
          \/ Receive(w) \/ FrontRecv(w) \/ BackForward(w)
          \/ \E s \in Service : Recv(s, w) \/ Transmit(s, w)
    \/ Poll
    \/ \E s \in Service :
          \/ BackSend(s) \/ Connect(s) \/ ConnMySql(s)
          \/ Reply(s) \/ NullMySql(s) \/ Crash(s)

Spec == Init /\ [][Next]_vars

\* The processes that run go on; a socket serves its peers in turn, so none waits
\* for ever while others are served.  Nobody need start a service.
BrokerStep == \/ Poll
              \/ \E w \in Worker : FrontRecv(w) \/ BackForward(w)
              \/ \E s \in Service : BackSend(s)

ServiceStep(s) == \/ ConnMySql(s) \/ Reply(s) \/ NullMySql(s)
                  \/ \E w \in Worker : Recv(s, w)

Fairness ==
    /\ WF_vars(BrokerStep)
    /\ \A s \in Service : WF_vars(ServiceStep(s))
    /\ \A w \in Worker :
          /\ WF_vars(Receive(w)) /\ WF_vars(\E s \in Service : Transmit(s, w))
          /\ SF_vars(FrontRecv(w)) /\ SF_vars(BackForward(w))
          /\ SF_vars(\E s \in Service : Recv(s, w))

FairSpec == Spec /\ Fairness

-----------------------------------------------------------------------------

TypeOK ==
    /\ asking \in [Worker -> Question \cup {Nothing}]
    /\ messages \subseteq Message
    /\ broker \in {"poll", "front", "send", "back"}
    /\ ready \subseteq {"front", "back"}
    /\ up \in [Service -> {"down", "connected", "serving"}]
    /\ mysql \in [Service -> BOOLEAN]
    /\ crashes \in 0..MaxCrashes
    /\ lost \subseteq Worker

\* A worker that waits has one message on its way, its question or the answer to
\* it, unless a service died with it; nobody else has any.  The bus neither loses
\* nor duplicates a message on its own, whatever crashes and starts
\* (rrBroker::start, rrServer::start).
MessageInOnePlace ==
    /\ \A m, n \in messages : m.who = n.who => m = n
    /\ \A w \in Worker :
          asking[w] # Nothing /\ w \notin lost <=> \E m \in messages : m.who = w

Replied(w) == {m \in messages : m.who = w /\ m.at = Back}

BodyOf(M)  == IF M = {} THEN Nothing ELSE (CHOOSE m \in M : TRUE).body

Bus == INSTANCE RequestReply WITH reply <- [w \in Worker |-> BodyOf(Replied(w))]

\* What reaches a worker is the answer to its own question, once.
ImplementsRequestReply == Bus!BusSpec

\* Once a service with its data base stays, every worker that waits gets its
\* answer or is one of those whose message died with a service: the proxy's send()
\* that blocks (rrBroker.cpp:66) holds nobody up for ever.
AnswerComes ==
    (\E s \in Service : <>[](up[s] = "serving" /\ mysql[s]))
        => \A w \in Worker : asking[w] # Nothing ~> (asking[w] = Nothing \/ w \in lost)
=============================================================================
