------------------------------- MODULE FrontEnd -------------------------------
(***************************************************************************)
(* myprj/webServerTest: connections, the event loop, the thread pool and    *)
(* the request each connection is on, with a message bus behind that        *)
(* answers its questions (RequestReply; MessageBus implements it).          *)
(*                                                                         *)
(* The event loop is coarse: one event of one wake-up, a handler from one   *)
(* read or answer to its handleConn, are single steps.  Reactor, ThreadPool *)
(* and Timer take the same code apart.  A request is its request line, its  *)
(* header and, when it has one, its body of more than three bytes; each     *)
(* arrives in one piece (HttpRequest cuts them anywhere).                   *)
(***************************************************************************)
EXTENDS Naturals, Sequences, RequestReply

CONSTANTS Conn,           \* connections; each is made once
          Request,        \* per connection: the requests its client makes
          MaxRequests,    \* bound on the requests of one connection
          QueueSize,      \* of the thread pool
          Pipelining      \* whether a client sends the next request before the answer

ASSUME FrontAssumption ==
    /\ MaxRequests \in Nat /\ QueueSize \in Nat \ {0} /\ Pipelining \in BOOLEAN
    /\ Nothing \notin Conn
    /\ \A c \in Conn : \A r \in Request[c] : r.url \in Question

VARIABLES at,         \* per connection: "new", "epoll", "queue", "worker" or "closed"
          queue, job, \* the pool's queue; per worker: its connection
          req,        \* per connection: its RequestData
          coming, net,\* the parts of a request on their way, and in the socket
          hung,       \* whether the client has closed its end
          asked, got  \* history: the requests made and the answers received

frontVars  == <<at, queue, job, req>>
clientVars == <<coming, net, hung, asked, got>>
vars == <<asking, reply, at, queue, job, req, coming, net, hung, asked, got>>

Fresh == [state |-> "uri", inBuffer |-> <<>>, outBuffer |-> <<>>, keep_alive |-> FALSE,
          line |-> Nothing, headers |-> Nothing, can |-> "read", events |-> "in"]

Init ==
    /\ BusInit
    /\ at = [c \in Conn |-> "new"] /\ req = [c \in Conn |-> Fresh]
    /\ queue = <<>> /\ job = [w \in Worker |-> Nothing]
    /\ coming = [c \in Conn |-> <<>>] /\ net = [c \in Conn |-> <<>>]
    /\ hung = [c \in Conn |-> FALSE]
    /\ asked = [c \in Conn |-> <<>>] /\ got = [c \in Conn |-> <<>>]

-----------------------------------------------------------------------------
(* Clients.                                                                 *)

\* also: a second method's name, somewhere in the path.
Line(r)    == [part |-> "line", method |-> r.method, also |-> r.also, url |-> r.url]
Header(r)  == [part |-> "header", keep |-> r.keep, length |-> r.length]
Body       == [part |-> "body"]
Parts(r) == <<Line(r), Header(r)>> \o IF r.method = "GET" THEN <<>> ELSE <<Body>>

Send(c, r) ==
    /\ ~hung[c] /\ at[c] \notin {"new", "closed"}
    /\ Len(asked[c]) < MaxRequests
    /\ Pipelining \/ Len(got[c]) = Len(asked[c])
    /\ coming' = [coming EXCEPT ![c] = @ \o Parts(r)]
    /\ asked' = [asked EXCEPT ![c] = Append(@, r)]
    /\ UNCHANGED <<busVars, frontVars, net, hung, got>>

Arrive(c) ==
    /\ coming[c] # <<>>
    /\ coming' = [coming EXCEPT ![c] = Tail(@)]
    /\ net' = [net EXCEPT ![c] = Append(@, Head(coming[c]))]
    /\ UNCHANGED <<busVars, frontVars, hung, asked, got>>

Hangup(c) ==
    /\ ~hung[c] /\ at[c] \notin {"new", "closed"}
    /\ hung' = [hung EXCEPT ![c] = TRUE]
    /\ coming' = [coming EXCEPT ![c] = <<>>]
    /\ UNCHANGED <<busVars, frontVars, net, asked, got>>

-----------------------------------------------------------------------------
(* The event loop: one event, then the timers that are due, which are those  *)
(* of any connections the epoll instance holds.                             *)

\* The last pointer to the request goes: its destructor closes the socket.
Close(C) ==
    /\ req' = [c \in Conn |-> IF c \in C THEN Fresh ELSE req[c]]
    /\ net' = [c \in Conn |-> IF c \in C THEN <<>> ELSE net[c]]
    /\ coming' = [c \in Conn |-> IF c \in C THEN <<>> ELSE coming[c]]

Expired == SUBSET {c \in Conn : at[c] = "epoll"}

Gone(C, new) == [c \in Conn |-> IF c \in C THEN "closed" ELSE new[c]]

acceptConnection(c) ==
    /\ at[c] = "new"
    /\ \E X \in Expired :
          at' = Gone(X, [at EXCEPT ![c] = "epoll"]) /\ Close(X)
    /\ UNCHANGED <<busVars, queue, job, hung, asked, got>>

\* Edge-triggered, but epoll_mod looks again: what is there is reported.
Readable(c) == net[c] # <<>> \/ hung[c]
HasEvent(c) == at[c] = "epoll" /\ (req[c].events = "out" \/ Readable(c))

threadpool_add(c) == IF Len(queue) = QueueSize THEN queue ELSE Append(queue, c)

\* getEventsRequest, and threadpool_add for what it returns: a request the pool does
\* not take is dropped.
Event(c) ==
    /\ HasEvent(c)
    /\ \E X \in Expired :
          LET dead == (X \ {c}) \cup IF threadpool_add(c) = queue THEN {c} ELSE {} IN
          /\ at' = Gone(dead, [at EXCEPT ![c] = "queue"])
          /\ queue' = threadpool_add(c)
          /\ Close(dead)
    /\ UNCHANGED <<busVars, job, hung, asked, got>>

\* EPOLLERR or EPOLLHUP: the client has reset the connection.
ErrorEvent(c) ==
    /\ at[c] = "epoll" /\ hung[c]
    /\ \E X \in Expired : at' = Gone(X \cup {c}, at) /\ Close(X \cup {c})
    /\ UNCHANGED <<busVars, queue, job, hung, asked, got>>

-----------------------------------------------------------------------------
(* Parsing, of what inBuffer holds: each function takes the request on by one *)
(* state, or flags that it waits for more or refuses.                        *)

Again(p) == [p EXCEPT !.flag = "again"]
Error(p) == [p EXCEPT !.flag = "error"]

Before(method) == IF method = "GET" THEN {}
                  ELSE IF method = "POST" THEN {"GET"} ELSE {"GET", "POST"}

\* The first name of the list that occurs anywhere in the line is the method; one
\* that is in the path leaves nothing of the line to read after it.
parseURI(p) ==
    IF p.state # "uri" THEN p
    ELSE IF p.inBuffer = <<>> THEN Again(p)
    ELSE LET line == Head(p.inBuffer) IN
         IF line.part # "line" \/ (line.part = "line" /\ line.also \in Before(line.method))
         THEN Error(p)
         ELSE [p EXCEPT !.state = "headers", !.line = line, !.inBuffer = Tail(@)]

parseHeaders(p) ==
    IF p.state # "headers" \/ p.flag # "none" THEN p
    ELSE IF p.inBuffer = <<>> THEN Again(p)
    ELSE LET header == Head(p.inBuffer) IN
         IF header.part # "header" THEN Error(p)
         ELSE [p EXCEPT !.state = IF p.line.method = "POST" THEN "body" ELSE "analysis",
                        !.headers = header, !.inBuffer = Tail(@)]

recvBody(p) ==
    IF p.state # "body" \/ p.flag # "none" THEN p
    ELSE IF ~p.headers.length THEN Error(p)
    ELSE IF p.inBuffer = <<>> THEN Again(p)
    ELSE [p EXCEPT !.state = "analysis"]

Parsed(c) ==
    LET r == req[c] IN
    recvBody(parseHeaders(parseURI(
        [state |-> r.state, line |-> r.line, headers |-> r.headers,
         inBuffer |-> r.inBuffer \o net[c], flag |-> "none"])))

Supported(method) == method \in {"GET", "POST"}

-----------------------------------------------------------------------------
(* Workers.                                                                 *)

Take(w) ==
    /\ job[w] = Nothing /\ queue # <<>>
    /\ job' = [job EXCEPT ![w] = Head(queue)]
    /\ at' = [at EXCEPT ![Head(queue)] = "worker"]
    /\ queue' = Tail(queue)
    /\ UNCHANGED <<busVars, req, clientVars>>

Serves(w, c) == job[w] = c /\ at[c] = "worker" /\ asking[w] = Nothing

epoll_mod(c, r, events) ==
    /\ at' = [at EXCEPT ![c] = "epoll"]
    /\ req' = [req EXCEPT ![c] = [r EXCEPT !.events = events,
                                          !.can = IF events = "in" THEN "read" ELSE "write"]]

\* handleConn, with an event to wait for: the timer, then epoll_mod.
Rearm(w, c, r, events) ==
    /\ epoll_mod(c, r, events)
    /\ job' = [job EXCEPT ![w] = Nothing]
    /\ UNCHANGED queue

\* handleConn, after an error or with nothing to wait for.
Drop(w, c) ==
    /\ at' = Gone({c}, at)
    /\ Close({c})
    /\ job' = [job EXCEPT ![w] = Nothing]
    /\ UNCHANGED <<queue, hung, asked>>

Reading(w, c) == Serves(w, c) /\ req[c].can = "read"

\* read() finds nothing: the client has closed.
ReadNothing(w, c) ==
    /\ Reading(w, c) /\ net[c] = <<>>
    /\ Drop(w, c)
    /\ UNCHANGED <<busVars, got>>

Taken(c, p) == [req[c] EXCEPT !.state = p.state, !.line = p.line,
                              !.headers = p.headers, !.inBuffer = p.inBuffer]

ReadOn(w, c) ==
    LET p == Parsed(c) IN
    /\ Reading(w, c) /\ net[c] # <<>>
    /\ p.flag # "error" /\ p.state # "analysis"
    /\ Rearm(w, c, Taken(c, p), "in")
    /\ net' = [net EXCEPT ![c] = <<>>]
    /\ UNCHANGED <<busVars, coming, hung, asked, got>>

\* handleError writes to the socket itself.
Refuse(w, c) ==
    LET p == Parsed(c) IN
    /\ Reading(w, c) /\ net[c] # <<>>
    /\ p.flag = "error" \/ (p.state = "analysis" /\ ~Supported(p.line.method))
    /\ got' = [got EXCEPT ![c] = IF hung[c] THEN @ ELSE Append(@, "400")]
    /\ Drop(w, c)
    /\ UNCHANGED busVars

\* The request is complete: the worker asks, and blocks.
Analyse(w, c) ==
    LET p == Parsed(c) IN
    /\ Reading(w, c) /\ net[c] # <<>>
    /\ p.state = "analysis" /\ Supported(p.line.method)
    /\ Ask(w, p.line.url)
    /\ req' = [req EXCEPT ![c] = Taken(c, p)]
    /\ net' = [net EXCEPT ![c] = <<>>]
    /\ UNCHANGED <<at, queue, job, coming, hung, asked, got>>

\* reset: keep_alive and the method stay, and so does what is to be written.
reset_KeepsState(r) == [r EXCEPT !.inBuffer = <<>>, !.headers = Nothing]
reset(r) == [r EXCEPT !.state = "uri", !.inBuffer = <<>>, !.headers = Nothing]

\* handleReutrnInfo, and the end of handleRead.
Return(w, c) ==
    LET keep == req[c].keep_alive \/ req[c].headers.keep
        r == [req[c] EXCEPT !.outBuffer = Append(@, reply[w]),
                            !.keep_alive = keep, !.state = "finish"]
    IN
    /\ job[w] = c /\ Receive(w)
    /\ Rearm(w, c, IF keep THEN reset(r) ELSE r, "out")
    /\ UNCHANGED clientVars

Writing(w, c) == Serves(w, c) /\ req[c].can = "write"

\* writen: all of it ...
Written_Keeps(r) == r
Written(r) == [r EXCEPT !.outBuffer = <<>>]

WriteAll(w, c) ==
    /\ Writing(w, c)
    /\ got' = [got EXCEPT ![c] = IF hung[c] THEN @ ELSE @ \o req[c].outBuffer]
    /\ IF req[c].keep_alive
       THEN Rearm(w, c, Written(req[c]), "in") /\ UNCHANGED <<coming, net, hung, asked>>
       ELSE Drop(w, c)
    /\ UNCHANGED busVars

\* ... or what the socket takes, and the rest when it takes more ...
WriteSome(w, c) ==
    /\ Writing(w, c)
    /\ Rearm(w, c, req[c], "out")
    /\ UNCHANGED <<busVars, clientVars>>

\* ... or nothing, when the client has gone.
WriteFails(w, c) ==
    /\ Writing(w, c) /\ hung[c]
    /\ Drop(w, c)
    /\ UNCHANGED <<busVars, got>>

Handle(w, c) ==
    \/ ReadNothing(w, c) \/ ReadOn(w, c) \/ Refuse(w, c) \/ Analyse(w, c)
    \/ Return(w, c)
    \/ WriteAll(w, c) \/ WriteSome(w, c) \/ WriteFails(w, c)

Next ==
    \/ \E c \in Conn :
          \/ \E r \in Request[c] : Send(c, r)
          \/ Arrive(c) \/ Hangup(c)
          \/ acceptConnection(c) \/ Event(c) \/ ErrorEvent(c)
    \/ \E w \in Worker :
          \/ Take(w)
          \/ \E c \in Conn : Handle(w, c)
          \/ Serve(w) /\ UNCHANGED <<frontVars, clientVars>>

Spec == Init /\ [][Next]_vars

\* The network delivers, the loop turns, threads run, the bus answers, and a socket
\* whose client reads takes all of an answer some time.  Nobody must send, hang up
\* or let a timer run out.
Fairness ==
    /\ \A c \in Conn :
          /\ WF_vars(Arrive(c)) /\ WF_vars(Event(c))
          /\ SF_vars(\E w \in Worker : WriteAll(w, c))
    /\ \A w \in Worker :
          /\ WF_vars(Take(w) \/ \E c \in Conn : Handle(w, c))
          /\ WF_vars(Serve(w) /\ UNCHANGED <<frontVars, clientVars>>)

FairSpec == Spec /\ Fairness

-----------------------------------------------------------------------------

IsPart(p) == \/ p = Body
             \/ \E c \in Conn : \E r \in Request[c] : p \in {Line(r), Header(r)}
IsParts(s) == \A i \in 1..Len(s) : IsPart(s[i])

TypeOK ==
    /\ at \in [Conn -> {"new", "epoll", "queue", "worker", "closed"}]
    /\ Len(queue) <= QueueSize /\ \A i \in 1..Len(queue) : at[queue[i]] = "queue"
    /\ \A w \in Worker :
          /\ job[w] = Nothing \/ at[job[w]] = "worker"
          /\ asking[w] # Nothing => job[w] # Nothing
    /\ \A c \in Conn :
          /\ req[c].state \in {"uri", "headers", "body", "analysis", "finish"}
          /\ IsParts(coming[c]) /\ IsParts(net[c]) /\ IsParts(req[c].inBuffer)
          /\ req[c].can = IF req[c].events = "in" THEN "read" ELSE "write"

\* What the program owes to a request.
Refused(r) ==
    \/ ~Supported(r.method) \/ r.also \in Before(r.method)
    \/ r.method = "POST" /\ ~r.length
Due(r) == IF Refused(r) THEN "400" ELSE Answer[r.url]

\* The answers a client receives are those to its requests, in their order and each
\* once, over all the requests of a long connection, whichever workers serve them
\* (reset(), writen() and the order handleRead, handleConn).
AnswersInOrder ==
    \A c \in Conn :
        /\ Len(got[c]) <= Len(asked[c])
        /\ \A i \in 1..Len(got[c]) : got[c][i] = Due(asked[c][i])

\* A request whose client waits is answered, or its connection is closed: no request
\* gets stuck between the parser, the pool, the bus and the write
\* (RequestData::handleRead, handleConn).
AnsweredOrClosed ==
    \A c \in Conn :
        Len(asked[c]) > Len(got[c]) ~> Len(asked[c]) = Len(got[c]) \/ at[c] = "closed"
=============================================================================
