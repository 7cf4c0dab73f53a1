------------------------------- MODULE RestFront -------------------------------
(***************************************************************************)
(* The connections of myprj/restfulApp in front of its resources           *)
(* (RestStore): the parser that resumes with every segment, the request it *)
(* makes of what it read, and what the connection keeps for the next one.  *)
(* Worker w serves connection w: ONESHOT keeps two workers off one.        *)
(*                                                                         *)
(* A request is sent as its request line, its header and the members of    *)
(* its form; a segment ends between two of these, but not right after the  *)
(* header of a form (HttpRequest cuts there and inside lines).             *)
(***************************************************************************)
EXTENDS RestStore

CONSTANT Messages   \* what clients send: [r, keep, also, length]; also is the name
                    \* of a method somewhere in the path, length whether the header
                    \* has a Content-Length.  A PUT has: without one stoi throws.

ASSUME MessagesAssumption ==
    /\ None \notin Messages
    /\ \A m \in Messages :
          /\ m.keep \in BOOLEAN /\ m.length \in BOOLEAN
          /\ m.r.method = "PUT" => m.length
          /\ m.r.method \in Methods \cup {"HEAD"}
          /\ m.r.method \in Methods /\ m.r.uri \in Uri => m.r \in Requests

VARIABLES conn,     \* per connection: its RequestData
          coming,   \* per connection: the parts on their way
          asked     \* per connection: the message its client waits on

connVars  == <<conn, coming, asked>>
frontVars == <<rest_uri, file, pc, req, next, conn, coming, asked>>

Closed == [up |-> FALSE, state |-> "uri", inBuffer |-> <<>>, line |-> None,
           header |-> None, m_paramsMap |-> [id |-> NoText, value |-> None],
           keep_alive |-> FALSE, out |-> FALSE]

FrontInit ==
    /\ Init
    /\ conn = [w \in Worker |-> Closed]
    /\ coming = [w \in Worker |-> <<>>] /\ asked = [w \in Worker |-> None]

-----------------------------------------------------------------------------
(* Clients.                                                                 *)

Line(m)   == [part |-> "line", method |-> m.r.method, also |-> m.also,
              uri |-> m.r.uri, after |-> m.r.after]
Header(m) == [part |-> "header", keep |-> m.keep, length |-> m.length]
Members(m) == IF m.r.method \in {"POST", "PUT"}
              THEN <<[part |-> "member", key |-> "id",
                      text |-> IF m.r.method = "PUT" THEN m.r.after ELSE m.r.id],
                     [part |-> "member", key |-> "value", text |-> m.r.value]>>
              ELSE <<>>
Parts(m) == <<Line(m), Header(m)>> \o Members(m)

\* A careful client changes nothing beside another request, and sends a PUT in
\* one segment.
MaySend(r) ==
    /\ \A w \in Worker : asked[w] # None =>
          r.method \in {"GET", "HEAD"} /\ asked[w].r.method \in {"GET", "HEAD"}
    /\ MayRun(r)

MayEnd(w, n) ==
    \/ n = Len(coming[w])
    \/ coming[w][n].part # "header" /\ ~(Careful /\ asked[w].r.method = "PUT")

Connect(w) ==
    /\ ~conn[w].up
    /\ conn' = [conn EXCEPT ![w].up = TRUE]
    /\ UNCHANGED <<vars, coming, asked>>

Send(w, m) ==
    /\ conn[w].up /\ asked[w] = None
    /\ Careful => MaySend(m.r)
    /\ asked' = [asked EXCEPT ![w] = m]
    /\ coming' = [coming EXCEPT ![w] = @ \o Parts(m)]
    /\ UNCHANGED <<vars, conn>>

\* The last pointer to the request goes, the destructor closes the socket.
Drop(w) ==
    /\ conn' = [conn EXCEPT ![w] = Closed]
    /\ coming' = [coming EXCEPT ![w] = <<>>]
    /\ asked' = [asked EXCEPT ![w] = None]

\* The client has gone, or its timer has run out: seen between two requests, in
\* the middle of one, or when the answer is written.
Leave(w) ==
    /\ conn[w].up /\ pc[w] = "idle"
    /\ Drop(w)
    /\ UNCHANGED vars

-----------------------------------------------------------------------------
(* The parser: each function takes the request on by one state, or flags     *)
(* that it waits for more or refuses.                                        *)

Again(p) == [p EXCEPT !.flag = "again"]
Error(p) == [p EXCEPT !.flag = "error"]

\* The methods that are looked for before this one, anywhere in the line: one
\* that is in the path leaves nothing of the line to read after it.
Before(method) ==
    LET order == <<"GET", "POST", "PUT", "DELETE", "HEAD">>
        i     == CHOOSE k \in 1..5 : order[k] = method
    IN {order[k] : k \in 1..(i - 1)}

parseURI(p) ==
    IF p.state # "uri" THEN p
    ELSE LET lines == {k \in 1..Len(p.inBuffer) : p.inBuffer[k].part = "line"}
             first == CHOOSE k \in lines : \A j \in lines : k <= j
             line  == p.inBuffer[first]
         IN  IF lines = {} THEN Again(p)
             ELSE IF line.also \in Before(line.method) THEN Error(p)
             ELSE [p EXCEPT !.state = "headers", !.line = line,
                            !.inBuffer = SubSeq(@, first + 1, Len(@))]

\* Only a POST waits for its form.
WaitsForBody_EveryChange(method) == method \in {"POST", "PUT", "DELETE"}
WaitsForBody(method) == method = "POST"

parseHeaders(p) ==
    IF p.state # "headers" \/ p.flag # "ok" THEN p
    ELSE IF p.inBuffer = <<>> THEN Again(p)
    ELSE [p EXCEPT !.header = Head(p.inBuffer), !.inBuffer = Tail(@),
                   !.state = IF WaitsForBody(p.line.method) THEN "body" ELSE "analysis"]

recvBody(p) ==
    IF p.state # "body" \/ p.flag # "ok" THEN p
    ELSE IF ~p.header.length THEN Error(p)
    ELSE IF Len(p.inBuffer) < 2 THEN Again(p)
    ELSE [p EXCEPT !.state = "analysis"]

Parsed(w, n) ==
    LET c == conn[w] IN
    recvBody(parseHeaders(parseURI(
        [state |-> c.state, line |-> c.line, header |-> c.header, flag |-> "ok",
         inBuffer |-> c.inBuffer \o SubSeq(coming[w], 1, n)])))

\* parseContent: the members that are there, over those of earlier requests.
Given(body, k) == {i \in 1..Len(body) : body[i].key = k}
LastOf(body, k) == body[CHOOSE i \in Given(body, k) : \A j \in Given(body, k) : j <= i].text
parseContent_Inserts(params, body) ==
    [k \in DOMAIN params |->
        IF Given(body, k) = {} \/ params[k] \notin {NoText, None} THEN params[k]
        ELSE LastOf(body, k)]
parseContent(params, body) ==
    [k \in DOMAIN params |->
        IF Given(body, k) = {} THEN params[k] ELSE LastOf(body, k)]

\* What analysisRequest hands to the method's function; PUT skips the member id.
Asks(line, params) ==
    [method |-> line.method, uri |-> line.uri, after |-> line.after,
     id    |-> IF line.method = "POST" THEN params.id ELSE NoText,
     value |-> IF line.method \in {"POST", "PUT"} THEN params.value ELSE None]

Known(line) == line.uri \in Uri /\ line.method \in Methods

-----------------------------------------------------------------------------
(* handleRead, handleWrite, handleConn.                                     *)

Reading(w, n) ==
    /\ conn[w].up /\ pc[w] = "idle" /\ ~conn[w].out
    /\ n \in 1..Len(coming[w])
    /\ MayEnd(w, n)

Resumed(w, p) == [conn[w] EXCEPT !.state = p.state, !.line = p.line, !.header = p.header,
                                 !.inBuffer = p.inBuffer]
Consume(w, n) == coming' = [coming EXCEPT ![w] = SubSeq(@, n + 1, Len(@))]

ReadOn(w, n) ==
    LET p == Parsed(w, n) IN
    /\ Reading(w, n) /\ p.flag = "again"
    /\ conn' = [conn EXCEPT ![w] = Resumed(w, p)]
    /\ Consume(w, n)
    /\ UNCHANGED <<vars, asked>>

\* handleError writes 400 or 404 to the socket itself; the connection goes.
RefuseRead(w, n) ==
    LET p == Parsed(w, n) IN
    /\ Reading(w, n)
    /\ p.flag = "error" \/ (p.flag = "ok" /\ ~Known(p.line))
    /\ Drop(w)
    /\ UNCHANGED vars

analysisRequest(w, n) ==
    LET p      == Parsed(w, n)
        params == IF p.line.method \in {"POST", "PUT"}
                  THEN parseContent(conn[w].m_paramsMap, p.inBuffer)
                  ELSE conn[w].m_paramsMap
    IN
    /\ Reading(w, n) /\ p.flag = "ok" /\ Known(p.line)
    /\ Begin(w, Asks(p.line, params))
    /\ conn' = [conn EXCEPT ![w] = [Resumed(w, p) EXCEPT !.m_paramsMap = params]]
    /\ Consume(w, n)
    /\ UNCHANGED asked

\* The next request finds an empty buffer and the parser at its start; the
\* members of the last form stay.
reset(c) == [c EXCEPT !.inBuffer = <<>>, !.line = None, !.header = None, !.state = "uri"]

\* ANALYSIS_SUCCESS.
Finish(w) ==
    LET keep == conn[w].keep_alive \/ conn[w].header.keep
        done == [conn[w] EXCEPT !.out = TRUE, !.keep_alive = keep, !.state = "finish"]
    IN
    /\ conn' = [conn EXCEPT ![w] = IF keep THEN reset(done) ELSE done]
    /\ UNCHANGED <<coming, asked>>

\* The method's function and the common part, in the steps of RestStore.  One
\* that ends without Reply has answered 404: ANALYSIS_ERROR.
Work(w) ==
    /\ Get(w) \/ Scan(w) \/ Post(w) \/ Put(w) \/ Copy(w) \/ Store(w)
          \/ OpenFile(w) \/ WriteFile(w) \/ Reply(w)
    /\ IF pc'[w] # "idle" THEN UNCHANGED connVars
       ELSE IF pc[w] = "reply" THEN Finish(w)
       ELSE Drop(w)

\* The answer is written to its end.
Write(w) ==
    /\ conn[w].up /\ conn[w].out
    /\ IF conn[w].keep_alive
       THEN /\ conn' = [conn EXCEPT ![w].out = FALSE]
            /\ asked' = [asked EXCEPT ![w] = None]
            /\ UNCHANGED coming
       ELSE Drop(w)
    /\ UNCHANGED vars

FrontNext ==
    \E w \in Worker :
        \/ Connect(w) \/ Leave(w)
        \/ \E m \in Messages : Send(w, m)
        \/ \E n \in 1..4 : ReadOn(w, n) \/ RefuseRead(w, n) \/ analysisRequest(w, n)
        \/ Work(w) \/ Write(w)

FrontSpec == FrontInit /\ [][FrontNext]_frontVars

-----------------------------------------------------------------------------

\* What a worker does to the resources is what its client asked for: the method,
\* the name and the members of this request, whatever segments it came in and
\* whatever the connection was used for before (handleRead 183-260, reset
\* 126-143, parseContent 652-661, which clears nothing).
GivenIsAsked ==
    \A w \in Worker : pc[w] # "idle" => asked[w] # None /\ req[w] = asked[w].r

\* A connection is refused or left for what the request is, never for where the
\* parser stands: a request that was read to its end is being worked on or
\* answered (handleRead 156-282).
ReadIsServed ==
    \A w \in Worker : asked[w] # None /\ coming[w] = <<>> => pc[w] # "idle" \/ conn[w].out
=============================================================================
