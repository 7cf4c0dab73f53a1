---------------------------- MODULE FrontEndProofs ----------------------------
(***************************************************************************)
(* For any number of clients, workers, requests and any queue size: clients *)
(* that wait for an answer before they ask again receive the answers to      *)
(* their own requests, in order.  The inductive invariant says of every      *)
(* connection whose client is there how far its last request has come.      *)
(***************************************************************************)
EXTENDS FrontEnd, SequenceTheorems, TLAPS

USE FrontAssumption

PartOf(r) == {Line(r), Header(r), Body}
Count(r)  == IF r.method = "GET" THEN 2 ELSE 3
Nth(r, k) == IF k = 1 THEN Line(r) ELSE IF k = 2 THEN Header(r) ELSE Body

\* The parts of r after the i-th, to the j-th.
Piece(s, r, i, j) ==
    /\ s \in Seq(PartOf(r)) /\ Len(s) = j - i
    /\ \A k \in 1..Len(s) : s[k] = Nth(r, i + k)

\* Who has a connection: nobody has two, and none is with two.
Places ==
    /\ at \in [Conn -> {"new", "epoll", "queue", "worker", "closed"}]
    /\ queue \in Seq(Conn)
    /\ \A i \in 1..Len(queue) : at[queue[i]] = "queue"
    /\ \A i, j \in 1..Len(queue) : queue[i] = queue[j] => i = j
    /\ job \in [Worker -> Conn \cup {Nothing}]
    /\ \A w \in Worker : IF job[w] = Nothing THEN asking[w] = Nothing
                                             ELSE at[job[w]] = "worker"
    /\ \A v, w \in Worker : job[v] = job[w] /\ job[v] # Nothing => v = w

Fields == {"state", "inBuffer", "outBuffer", "keep_alive", "line", "headers", "can", "events"}

Typed ==
    /\ Places
    /\ DOMAIN asking = Worker /\ DOMAIN reply = Worker /\ DOMAIN req = Conn
    /\ DOMAIN coming = Conn /\ DOMAIN net = Conn
    /\ \A c \in Conn : DOMAIN req[c] = Fields
    /\ hung \in [Conn -> BOOLEAN]
    /\ DOMAIN asked = Conn /\ DOMAIN got = Conn
    /\ \A w \in Worker : asking[w] = Nothing => reply[w] = Nothing

\* What was said, of any connection.
History(c) ==
    /\ asked[c] \in Seq(Request[c]) /\ got[c] \in Seq(Answers \cup {"400"})
    /\ Len(got[c]) <= Len(asked[c]) /\ Len(asked[c]) <= Len(got[c]) + 1
    /\ \A i \in 1..Len(got[c]) : got[c][i] = Due(asked[c][i])

Last(c) == asked[c][Len(asked[c])]
Waits(c) == Len(asked[c]) = Len(got[c]) + 1
Quiet(c) == \A w \in Worker : job[w] = c => asking[w] = Nothing
Steps == [state \in {"uri", "headers", "body"} |->
             CASE state = "uri" -> 0 [] state = "headers" -> 1 [] state = "body" -> 2]

\* Nothing is asked.
Idle(c) ==
    /\ Len(asked[c]) = Len(got[c]) /\ Quiet(c)
    /\ coming[c] = <<>> /\ net[c] = <<>>
    /\ req[c].can = "read" /\ req[c].state = "uri"
    /\ req[c].inBuffer = <<>> /\ req[c].outBuffer = <<>>

\* The request is on its way, its first parts read.
Parsing(c) ==
    /\ Waits(c) /\ Quiet(c)
    /\ req[c].can = "read" /\ req[c].state \in {"uri", "headers", "body"}
    /\ req[c].inBuffer = <<>> /\ req[c].outBuffer = <<>>
    /\ \E m \in 0..Count(Last(c)) :
          /\ Piece(net[c], Last(c), Steps[req[c].state], m)
          /\ Piece(coming[c], Last(c), m, Count(Last(c)))
    /\ req[c].state # "uri" => /\ req[c].line = Line(Last(c))
                               /\ Last(c).also \notin Before(Last(c).method)
    /\ req[c].state = "body" => /\ req[c].headers = Header(Last(c))
                                /\ Last(c).method = "POST" /\ Last(c).length

\* A worker asks for it.
AtBus(c) ==
    /\ Waits(c) /\ at[c] = "worker"
    /\ coming[c] = <<>> /\ net[c] = <<>> /\ req[c].outBuffer = <<>>
    /\ ~Refused(Last(c))
    /\ \A w \in Worker : job[w] = c =>
          /\ asking[w] = Last(c).url
          /\ reply[w] \in {Nothing, Answer[Last(c).url]}

\* The answer is to be written.
Answered(c) ==
    /\ Waits(c) /\ Quiet(c)
    /\ coming[c] = <<>> /\ net[c] = <<>>
    /\ req[c].can = "write" /\ req[c].outBuffer = <<Due(Last(c))>>
    /\ req[c].keep_alive => req[c].state = "uri" /\ req[c].inBuffer = <<>>

Stage(c) == Idle(c) \/ Parsing(c) \/ AtBus(c) \/ Answered(c)

There(c) == at[c] # "closed" /\ ~hung[c]

\* A connection that is not made yet has no client either.
Fine(c) == /\ History(c)
           /\ There(c) => Stage(c)
           /\ at[c] = "new" => Idle(c) /\ ~hung[c]

IInv == Typed /\ \A c \in Conn : Fine(c)

-----------------------------------------------------------------------------
(* The parts of a request.                                                  *)

LEMMA PartsAre ==
    ASSUME NEW r
    PROVE  Piece(Parts(r), r, 0, Count(r)) /\ Count(r) \in {2, 3}
  BY DEF Piece, Parts, Count, Nth, PartOf

LEMMA OnePart ==
    ASSUME NEW r, NEW i \in 0..2, NEW s, Piece(s, r, i, i + 1)
    PROVE  s = <<Nth(r, i + 1)>>
  BY DEF Piece

LEMMA TwoParts ==
    ASSUME NEW r, NEW i \in 0..2, NEW s, Piece(s, r, i, i + 2)
    PROVE  s = <<Nth(r, i + 1), Nth(r, i + 2)>>
  BY DEF Piece

LEMMA ThreeParts ==
    ASSUME NEW r, NEW s, Piece(s, r, 0, 3)
    PROVE  s = <<Line(r), Header(r), Body>>
  BY DEF Piece, Nth

LEMMA NoPart ==
    ASSUME NEW r, NEW i \in 0..3, NEW s, Piece(s, r, i, i)
    PROVE  s = <<>>
  BY DEF Piece

\* The first part on its way arrives.
LEMMA PieceArrives ==
    ASSUME NEW r, NEW i \in 0..3, NEW j \in 0..3, NEW k \in 0..3, NEW s, NEW t,
           Piece(s, r, i, j), Piece(t, r, j, k), t # <<>>
    PROVE  /\ Piece(Append(s, Head(t)), r, i, j + 1) /\ Piece(Tail(t), r, j + 1, k)
           /\ j + 1 \in 0..k
  <1>1. /\ Len(t) \in Nat /\ Len(t) > 0 /\ Head(t) = t[1] /\ Tail(t) \in Seq(PartOf(r))
        /\ Len(Tail(t)) = Len(t) - 1 /\ \A n \in 1..(Len(t) - 1) : Tail(t)[n] = t[n + 1]
    BY DEF Piece
  <1>2. Head(t) = Nth(r, j + 1) /\ Head(t) \in PartOf(r)
    BY <1>1 DEF Piece
  <1>3. Piece(Append(s, Head(t)), r, i, j + 1)
    BY <1>2 DEF Piece
  <1>4. Piece(Tail(t), r, j + 1, k)
    BY <1>1 DEF Piece
  <1> QED
    BY <1>1, <1>3, <1>4 DEF Piece

-----------------------------------------------------------------------------
(* The parser, from a state on with the parts that have come: it waits for   *)
(* the next part, or refuses what is to be refused, or has it all.          *)

Holds(p, state, line, headers, parts, flag) ==
    /\ DOMAIN p = {"state", "line", "headers", "inBuffer", "flag"}
    /\ p.state = state /\ p.line = line /\ p.headers = headers
    /\ p.inBuffer = parts /\ p.flag = flag

LEMMA URIRead ==
    ASSUME NEW r, NEW line, NEW headers, NEW s, s # <<>>, Head(s) = Line(r),
           NEW p, Holds(p, "uri", line, headers, s, "none")
    PROVE  IF r.also \in Before(r.method)
           THEN Holds(parseURI(p), "uri", line, headers, s, "error")
           ELSE Holds(parseURI(p), "headers", Line(r), headers, Tail(s), "none")
  BY DEF parseURI, Holds, Line, Error

LEMMA HeadersRead ==
    ASSUME NEW r, NEW headers, NEW s, s # <<>> => Head(s) = Header(r),
           NEW p, Holds(p, "headers", Line(r), headers, s, "none")
    PROVE  IF s = <<>> THEN Holds(parseHeaders(p), "headers", Line(r), headers, s, "again")
           ELSE Holds(parseHeaders(p), IF r.method = "POST" THEN "body" ELSE "analysis",
                      Line(r), Header(r), Tail(s), "none")
  BY DEF parseHeaders, Holds, Line, Header, Again

LEMMA NoLength ==
    ASSUME NEW header, NEW line, NEW s, ~header.length,
           NEW p, Holds(p, "body", line, header, s, "none")
    PROVE  Holds(recvBody(p), "body", line, header, s, "error")
  BY DEF recvBody, Holds, Error

LEMMA NoBody ==
    ASSUME NEW header, NEW line, NEW s, header.length, s = <<>>,
           NEW p, Holds(p, "body", line, header, s, "none")
    PROVE  Holds(recvBody(p), "body", line, header, s, "again")
  BY DEF recvBody, Holds, Again

LEMMA BodyRead ==
    ASSUME NEW header, NEW line, NEW s, header.length, s # <<>>,
           NEW p, Holds(p, "body", line, header, s, "none")
    PROVE  Holds(recvBody(p), "analysis", line, header, s, "none")
  BY DEF recvBody, Holds

LEMMA NotNow ==
    ASSUME NEW p
    PROVE  /\ p.state # "uri" => parseURI(p) = p
           /\ p.state # "headers" \/ p.flag # "none" => parseHeaders(p) = p
           /\ p.state # "body" \/ p.flag # "none" => recvBody(p) = p
  BY DEF parseURI, parseHeaders, recvBody

ReadSoFar(r, p) ==
    /\ p.state # "uri" => p.line = Line(r) /\ r.also \notin Before(r.method)
    /\ p.state = "body" => p.headers = Header(r) /\ r.method = "POST" /\ r.length

Outcome(r, p, m) ==
    \/ /\ p.flag = "again" /\ p.state \in {"headers", "body"} /\ p.inBuffer = <<>>
       /\ Steps[p.state] = m /\ ReadSoFar(r, p)
    \/ p.flag = "error" /\ p.state # "analysis" /\ Refused(r)
    \/ /\ p.flag = "none" /\ p.state = "analysis" /\ p.line = Line(r) /\ p.headers = Header(r)
       /\ Supported(r.method) => m = Count(r) /\ ~Refused(r)

LEMMA FromBody ==
    ASSUME NEW r, r.also \notin Before(r.method), r.method = "POST",
           NEW s, NEW m \in {2, 3}, m = 2 => s = <<>>, m = 3 => s # <<>>,
           NEW p, Holds(p, "body", Line(r), Header(r), s, "none")
    PROVE  Outcome(r, recvBody(p), m)
  <1>0. Header(r).length = r.length
    BY DEF Header
  <1>1. CASE ~r.length
    <2>1. Holds(recvBody(p), "body", Line(r), Header(r), s, "error")
      BY <1>0, <1>1, NoLength
    <2> QED
      BY <1>1, <2>1 DEF Outcome, Holds, Refused
  <1>2. CASE r.length /\ m = 2
    <2>1. Holds(recvBody(p), "body", Line(r), Header(r), s, "again") /\ s = <<>>
      BY <1>0, <1>2, NoBody
    <2> QED
      BY <1>2, <2>1 DEF Outcome, Holds, ReadSoFar, Steps
  <1>3. CASE r.length /\ m = 3
    <2>0. s # <<>>
      BY <1>3
    <2>1. Holds(recvBody(p), "analysis", Line(r), Header(r), s, "none")
      BY <1>0, <1>3, <2>0, BodyRead
    <2> QED
      BY <1>3, <2>1 DEF Outcome, Holds, Refused, Supported, Count
  <1> QED
    BY <1>1, <1>2, <1>3

LEMMA FromHeaders ==
    ASSUME NEW r, r.also \notin Before(r.method), NEW headers,
           NEW s, NEW m \in 1..Count(r), Piece(s, r, 1, m),
           NEW p, Holds(p, "headers", Line(r), headers, s, "none")
    PROVE  Outcome(r, recvBody(parseHeaders(p)), m)
  <1>0. Count(r) \in {2, 3} /\ (r.method = "GET" <=> Count(r) = 2)
    BY PartsAre DEF Count
  <1>1. CASE m = 1
    <2>1. s = <<>>
      BY <1>1, NoPart
    <2>2. Holds(parseHeaders(p), "headers", Line(r), headers, <<>>, "again")
      BY <2>1, HeadersRead
    <2>3. recvBody(parseHeaders(p)) = parseHeaders(p)
      BY <2>2, NotNow DEF Holds
    <2> QED
      BY <1>1, <2>2, <2>3 DEF Outcome, Holds, ReadSoFar, Steps
  <1>2. CASE m > 1
    <2>1. s # <<>> /\ Head(s) = Header(r) /\ (Tail(s) = <<>> <=> m = 2)
      <3>1. CASE m = 2
        <4>1. s = <<Header(r)>>
          BY <3>1, OnePart DEF Nth
        <4> QED
          BY <3>1, <4>1
      <3>2. CASE m = 3
        <4>1. s = <<Header(r), Body>>
          BY <3>2, TwoParts DEF Nth
        <4> QED
          BY <3>2, <4>1
      <3> QED
        BY <1>0, <1>2, <3>1, <3>2
    <2>2. Holds(parseHeaders(p), IF r.method = "POST" THEN "body" ELSE "analysis",
                Line(r), Header(r), Tail(s), "none")
      BY <2>1, HeadersRead
    <2>3. CASE r.method = "POST"
      <3>1. /\ m \in {2, 3} /\ (m = 2 => Tail(s) = <<>>) /\ (m = 3 => Tail(s) # <<>>)
            /\ Holds(parseHeaders(p), "body", Line(r), Header(r), Tail(s), "none")
        BY <1>0, <1>2, <2>1, <2>2, <2>3
      <3> QED
        BY <2>3, <3>1, FromBody
    <2>4. CASE r.method # "POST"
      <3>1. recvBody(parseHeaders(p)) = parseHeaders(p)
        BY <2>2, <2>4, NotNow DEF Holds
      <3> QED
        BY <1>0, <1>2, <2>2, <2>4, <3>1 DEF Outcome, Holds, Refused, Supported
    <2> QED
      BY <2>3, <2>4
  <1> QED
    BY <1>0, <1>1, <1>2

LEMMA FromURI ==
    ASSUME NEW r, NEW line, NEW headers,
           NEW s, NEW m \in 1..Count(r), Piece(s, r, 0, m),
           NEW p, Holds(p, "uri", line, headers, s, "none")
    PROVE  Outcome(r, recvBody(parseHeaders(parseURI(p))), m)
  <1>0. Count(r) \in {2, 3}
    BY PartsAre
  <1>1. s # <<>> /\ Head(s) = Line(r) /\ Piece(Tail(s), r, 1, m)
    <2>1. /\ Len(s) = m /\ s \in Seq(PartOf(r)) /\ s[1] = Line(r)
      BY <1>0 DEF Piece, Nth
    <2>2. /\ s # <<>> /\ Head(s) = s[1] /\ Tail(s) \in Seq(PartOf(r)) /\ Len(Tail(s)) = m - 1
          /\ \A k \in 1..(m - 1) : Tail(s)[k] = s[k + 1]
      BY <1>0, <2>1
    <2> QED
      BY <1>0, <2>1, <2>2 DEF Piece
  <1>2. CASE r.also \in Before(r.method)
    <2>1. Holds(parseURI(p), "uri", line, headers, s, "error")
      BY <1>1, <1>2, URIRead
    <2>2. recvBody(parseHeaders(parseURI(p))) = parseURI(p)
      BY <2>1, NotNow DEF Holds
    <2> QED
      BY <1>2, <2>1, <2>2 DEF Outcome, Holds, Refused
  <1>3. CASE r.also \notin Before(r.method)
    <2>1. Holds(parseURI(p), "headers", Line(r), headers, Tail(s), "none")
      BY <1>1, <1>3, URIRead
    <2> QED
      BY <1>1, <1>3, <2>1, FromHeaders
  <1> QED
    BY <1>2, <1>3

-----------------------------------------------------------------------------
(* Connections that a step leaves alone.                                    *)

Same(c) == /\ req'[c] = req[c] /\ coming'[c] = coming[c] /\ net'[c] = net[c]
           /\ hung'[c] = hung[c] /\ asked'[c] = asked[c] /\ got'[c] = got[c]

\* It may be handed on, if no worker has it.
HandedOn(c) == \/ at'[c] = at[c]
               \/ at[c] \notin {"worker", "closed"} /\ at'[c] # "new"

SameWorker(c) ==
    \A w \in Worker : job'[w] = c =>
        \/ job[w] = c /\ asking'[w] = asking[w] /\ reply'[w] = reply[w]
        \/ at[c] # "worker" /\ asking'[w] = Nothing

LEMMA SameIsFine ==
    ASSUME NEW c \in Conn, Fine(c), Same(c), HandedOn(c), SameWorker(c)
    PROVE  Fine(c)'
  <1> USE DEF Same, HandedOn, SameWorker
  <1>1. History(c)'
    BY DEF Fine, History
  <1>2. Last(c)' = Last(c) /\ (Waits(c)' <=> Waits(c)) /\ (Quiet(c) => Quiet(c)')
    BY DEF Last, Waits, Quiet
  <1>3. Idle(c) => Idle(c)'
    BY <1>2 DEF Idle
  <1>4. Parsing(c) => Parsing(c)'
    BY <1>2 DEF Parsing
  <1>5. AtBus(c) => AtBus(c)'
    BY <1>2 DEF AtBus
  <1>6. Answered(c) => Answered(c)'
    BY <1>2 DEF Answered
  <1>7. There(c)' => There(c)
    BY DEF There
  <1>8. at'[c] = "new" => Idle(c) /\ ~hung[c]
    BY DEF Fine
  <1> QED
    BY <1>1, <1>3, <1>4, <1>5, <1>6, <1>7, <1>8 DEF Fine, Stage

\* One that is closed, or whose client has gone, only has its history.
LEMMA GoneIsFine ==
    ASSUME NEW c \in Conn, Fine(c), asked'[c] = asked[c], got'[c] = got[c],
           at'[c] = "closed" \/ hung'[c], at'[c] # "new"
    PROVE  Fine(c)'
  <1>1. History(c)'
    BY DEF Fine, History
  <1> QED
    BY <1>1 DEF Fine, There

\* A worker is done with connection c, which goes back to epoll or is closed.
Ends(w, c, place) ==
    /\ job[w] = c /\ at' = [at EXCEPT ![c] = place] /\ job' = [job EXCEPT ![w] = Nothing]
    /\ queue' = queue
    /\ DOMAIN asking' = Worker /\ DOMAIN reply' = Worker
    /\ asking'[w] = Nothing /\ reply'[w] = Nothing
    /\ \A v \in Worker : v # w => asking'[v] = asking[v] /\ reply'[v] = reply[v]

OnlyOf(c) ==
    /\ DOMAIN req' = Conn /\ DOMAIN coming' = Conn /\ DOMAIN net' = Conn
    /\ hung' = hung /\ asked' = asked /\ DOMAIN got' = Conn /\ DOMAIN req'[c] = Fields
    /\ \A d \in Conn : d # c => /\ req'[d] = req[d] /\ coming'[d] = coming[d]
                                /\ net'[d] = net[d] /\ got'[d] = got[d]

LEMMA EndsKeeps ==
    ASSUME IInv, NEW w \in Worker, NEW c \in Conn, NEW place \in {"epoll", "closed"},
           Ends(w, c, place), OnlyOf(c), Fine(c)'
    PROVE  IInv'
  <1> USE DEF Ends, OnlyOf
  <1>1. at[c] = "worker" /\ \A v \in Worker : job[v] = c => v = w
    BY DEF IInv, Typed, Places
  <1>2. /\ \A d \in Conn : at'[d] = IF d = c THEN place ELSE at[d]
        /\ \A v \in Worker : job'[v] = IF v = w THEN Nothing ELSE job[v]
    BY DEF IInv, Typed, Places
  <1>3. Places'
    <2>1. /\ at' \in [Conn -> {"new", "epoll", "queue", "worker", "closed"}]
          /\ queue' \in Seq(Conn) /\ job' \in [Worker -> Conn \cup {Nothing}]
      BY DEF IInv, Typed, Places
    <2>2. \A i \in 1..Len(queue') : at'[queue'[i]] = "queue"
      BY <1>1, <1>2 DEF IInv, Typed, Places
    <2>3. \A v \in Worker : IF job'[v] = Nothing THEN asking'[v] = Nothing
                                                ELSE at'[job'[v]] = "worker"
      BY <1>1, <1>2 DEF IInv, Typed, Places
    <2>4. \A u, v \in Worker : job'[u] = job'[v] /\ job'[u] # Nothing => u = v
      BY <1>2 DEF IInv, Typed, Places
    <2>5. \A i, j \in 1..Len(queue') : queue'[i] = queue'[j] => i = j
      BY DEF IInv, Typed, Places
    <2> QED
      BY <2>1, <2>2, <2>3, <2>4, <2>5 DEF Places
  <1>4. Typed'
    BY <1>3 DEF IInv, Typed
  <1>5. ASSUME NEW d \in Conn, d # c PROVE Fine(d)'
    <2>1. Same(d) /\ HandedOn(d)
      BY <1>2, <1>5 DEF Same, HandedOn
    <2>2. SameWorker(d)
      BY <1>2, <1>5 DEF SameWorker
    <2> QED
      BY <2>1, <2>2, SameIsFine DEF IInv
  <1> QED
    BY <1>4, <1>5 DEF IInv

-----------------------------------------------------------------------------
(* What handleRead makes of the parts that have come.                       *)

LEMMA ParsedOutcome ==
    ASSUME NEW c \in Conn, Parsing(c), net[c] # <<>>
    PROVE  \E m \in 1..Count(Last(c)) :
              /\ Piece(coming[c], Last(c), m, Count(Last(c)))
              /\ Outcome(Last(c), Parsed(c), m)
  <1> DEFINE r == Last(c)
             state == req[c].state
             p == [state |-> state, line |-> req[c].line, headers |-> req[c].headers,
                   inBuffer |-> req[c].inBuffer \o net[c], flag |-> "none"]
  <1>1. PICK m \in 0..Count(r) : /\ Piece(net[c], r, Steps[state], m)
                                 /\ Piece(coming[c], r, m, Count(r))
    BY DEF Parsing
  <1>2. Parsed(c) = recvBody(parseHeaders(parseURI(p)))
    BY DEF Parsed
  <1>3. req[c].inBuffer \o net[c] = net[c]
    <2>1. net[c] \in Seq(PartOf(r)) /\ req[c].inBuffer = <<>>
      BY <1>1 DEF Piece, Parsing
    <2> QED
      BY <2>1, ConcatEmptySeq
  <1>4. Holds(p, state, req[c].line, req[c].headers, net[c], "none")
    BY <1>3 DEF Holds
  <1>5. Count(r) \in {2, 3} /\ state \in {"uri", "headers", "body"}
    BY PartsAre DEF Parsing
  <1> HIDE DEF r, state, p
  <1>6. m > Steps[state] /\ m \in 1..Count(r)
    <2>1. Len(net[c]) = m - Steps[state] /\ Len(net[c]) \in Nat /\ Len(net[c]) # 0
      BY <1>1 DEF Piece
    <2>2. Steps[state] \in 0..2
      BY <1>5 DEF Steps
    <2> QED
      BY <1>5, <2>1, <2>2
  <1>7. Outcome(r, Parsed(c), m)
    <2>1. CASE state = "uri"
      <3>1. Steps[state] = 0
        BY <2>1 DEF Steps
      <3> QED
        BY <1>1, <1>2, <1>4, <1>6, <2>1, <3>1, FromURI
    <2>2. CASE state = "headers"
      <3>1. Steps[state] = 1 /\ parseURI(p) = p
        BY <1>4, <2>2, NotNow DEF Steps, Holds
      <3>2. req[c].line = Line(r) /\ r.also \notin Before(r.method)
        BY <2>2 DEF Parsing, r, state
      <3> QED
        BY <1>1, <1>2, <1>4, <1>6, <2>2, <3>1, <3>2, FromHeaders
    <2>3. CASE state = "body"
      <3>1. Steps[state] = 2 /\ parseURI(p) = p /\ parseHeaders(p) = p
        BY <1>4, <2>3, NotNow DEF Steps, Holds
      <3>2. /\ req[c].line = Line(r) /\ r.also \notin Before(r.method)
            /\ req[c].headers = Header(r) /\ r.method = "POST"
        BY <2>3 DEF Parsing, r, state
      <3>3. m = 3
        BY <1>5, <1>6, <3>1
      <3>4. Holds(p, "body", Line(r), Header(r), net[c], "none")
        BY <1>4, <2>3, <3>2
      <3>5. Outcome(r, recvBody(p), m)
        BY <3>2, <3>3, <3>4, FromBody
      <3> QED
        BY <1>2, <3>1, <3>5
    <2> QED
      BY <1>5, <2>1, <2>2, <2>3
  <1> QED
    BY <1>1, <1>6, <1>7 DEF r

-----------------------------------------------------------------------------
(* A worker's handler.                                                      *)

LEMMA NothingApart == Nothing \notin Question
  BY NothingAssumption, Zenon

LEMMA AnswersAre == \A q \in Question : Answer[q] \in Answers
  BY Zenon DEF Answer, Answers

LEMMA LastIs ==
    ASSUME NEW c \in Conn, History(c), Waits(c)
    PROVE  /\ Len(asked[c]) \in 1..(Len(got[c]) + 1) /\ Last(c) \in Request[c]
           /\ Last(c).url \in Question /\ Last(c).url # Nothing
           /\ Due(Last(c)) \in Answers \cup {"400"}
  <1>1. /\ Len(asked[c]) \in 1..(Len(got[c]) + 1)
        /\ Last(c) \in Request[c] /\ Last(c).url \in Question
    BY DEF History, Waits, Last
  <1> QED
    BY <1>1, NothingApart, AnswersAre DEF Due

LEMMA AnswerGiven ==
    ASSUME NEW c \in Conn, History(c), Waits(c), asked'[c] = asked[c],
           got'[c] = Append(got[c], Due(Last(c)))
    PROVE  History(c)' /\ Len(asked'[c]) = Len(got'[c])
  <1>1. /\ Due(Last(c)) \in Answers \cup {"400"} /\ got[c] \in Seq(Answers \cup {"400"})
        /\ asked[c] \in Seq(Request[c]) /\ Len(asked[c]) = Len(got[c]) + 1
    BY LastIs DEF History, Waits
  <1>2. /\ got'[c] \in Seq(Answers \cup {"400"}) /\ Len(got'[c]) = Len(got[c]) + 1
        /\ \A i \in 1..Len(got[c]) : got'[c][i] = got[c][i]
        /\ got'[c][Len(got[c]) + 1] = Due(Last(c))
    BY <1>1
  <1>3. \A i \in 1..Len(got'[c]) : got'[c][i] = Due(asked[c][i])
    BY <1>1, <1>2 DEF History, Last
  <1> QED
    BY <1>1, <1>2, <1>3 DEF History

LEMMA Served ==
    ASSUME IInv, NEW w \in Worker, NEW c \in Conn, Serves(w, c), ~hung[c]
    PROVE  History(c) /\ (Idle(c) \/ Parsing(c) \/ Answered(c))
  <1>1. History(c) /\ Stage(c) /\ job[w] = c /\ asking[w] = Nothing
    BY DEF Serves, IInv, Fine, There
  <1>2. ~AtBus(c)
    BY <1>1, LastIs DEF AtBus
  <1> QED
    BY <1>1, <1>2 DEF Stage

LEMMA ReadingParses ==
    ASSUME IInv, NEW w \in Worker, NEW c \in Conn, Reading(w, c), ~hung[c], net[c] # <<>>
    PROVE  /\ History(c) /\ Parsing(c)
           /\ \E m \in 1..Count(Last(c)) :
                 /\ Piece(coming[c], Last(c), m, Count(Last(c)))
                 /\ Outcome(Last(c), Parsed(c), m)
  <1>1. History(c) /\ Parsing(c)
    <2>1. Serves(w, c) /\ req[c].can = "read"
      BY DEF Reading
    <2> QED
      BY <2>1, Served DEF Idle, Answered
  <1> QED
    BY <1>1, ParsedOutcome

LEMMA RearmEnds ==
    ASSUME IInv, NEW w \in Worker, NEW c \in Conn, NEW r, DOMAIN r = Fields,
           NEW events \in {"in", "out"}, job[w] = c, Rearm(w, c, r, events),
           DOMAIN asking' = Worker, DOMAIN reply' = Worker,
           asking'[w] = Nothing, reply'[w] = Nothing,
           \A v \in Worker : v # w => asking'[v] = asking[v] /\ reply'[v] = reply[v]
    PROVE  /\ Ends(w, c, "epoll")
           /\ DOMAIN req' = Conn /\ DOMAIN req'[c] = Fields
           /\ \A d \in Conn : d # c => req'[d] = req[d]
           /\ req'[c].can = IF events = "in" THEN "read" ELSE "write"
           /\ \A f \in Fields \ {"can", "events"} : req'[c][f] = r[f]
  <1>1. /\ at' = [at EXCEPT ![c] = "epoll"] /\ job' = [job EXCEPT ![w] = Nothing]
        /\ queue' = queue
        /\ req' = [req EXCEPT ![c] = [r EXCEPT !.events = events,
                                          !.can = IF events = "in" THEN "read" ELSE "write"]]
    BY DEF Rearm, epoll_mod
  <1>2. DOMAIN req = Conn
    BY DEF IInv, Typed
  <1> QED
    BY <1>1, <1>2 DEF Ends, Fields

LEMMA DropEnds ==
    ASSUME IInv, NEW w \in Worker, NEW c \in Conn, job[w] = c, asking[w] = Nothing,
           Drop(w, c), UNCHANGED busVars, DOMAIN got' = Conn,
           \A d \in Conn : d # c => got'[d] = got[d]
    PROVE  Ends(w, c, "closed") /\ OnlyOf(c)
  <1>1. at' = [at EXCEPT ![c] = "closed"]
    BY DEF Drop, Gone, IInv, Typed, Places
  <1>2. /\ DOMAIN req' = Conn /\ DOMAIN coming' = Conn /\ DOMAIN net' = Conn
        /\ \A d \in Conn : d # c => /\ req'[d] = req[d] /\ coming'[d] = coming[d]
                                    /\ net'[d] = net[d]
        /\ req'[c] = Fresh
    BY DEF Drop, Close
  <1>3. DOMAIN Fresh = Fields
    BY DEF Fresh, Fields
  <1>4. job' = [job EXCEPT ![w] = Nothing] /\ queue' = queue /\ hung' = hung /\ asked' = asked
    BY DEF Drop
  <1>5. /\ asking' = asking /\ reply' = reply /\ DOMAIN asking = Worker /\ DOMAIN reply = Worker
        /\ asking[w] = Nothing /\ reply[w] = Nothing
    BY DEF IInv, Typed, busVars
  <1> QED
    BY <1>1, <1>2, <1>3, <1>4, <1>5 DEF Ends, OnlyOf

LEMMA EndsQuiet ==
    ASSUME IInv, NEW w \in Worker, NEW c \in Conn, NEW place, Ends(w, c, place)
    PROVE  Quiet(c)' /\ at'[c] = place
  BY DEF IInv, Typed, Places, Ends, Quiet

LEMMA ClosedIsFine ==
    ASSUME NEW c \in Conn, History(c)', at'[c] = "closed"
    PROVE  Fine(c)'
  BY DEF Fine, There

LEMMA ReadNothingKeeps ==
    ASSUME IInv, NEW w \in Worker, NEW c \in Conn, ReadNothing(w, c)
    PROVE  IInv'
  <1>1. Ends(w, c, "closed") /\ OnlyOf(c)
    <2>1. /\ job[w] = c /\ asking[w] = Nothing /\ Drop(w, c) /\ UNCHANGED busVars
          /\ got' = got
      BY DEF ReadNothing, Reading, Serves
    <2> QED
      BY <2>1, DropEnds DEF IInv, Typed
  <1>2. Fine(c)'
    <2>1. /\ Fine(c) /\ asked'[c] = asked[c] /\ got'[c] = got[c] /\ at'[c] = "closed"
      BY <1>1, EndsQuiet DEF OnlyOf, ReadNothing, IInv
    <2> QED
      BY <2>1, GoneIsFine
  <1> QED
    BY <1>1, <1>2, EndsKeeps

LEMMA WriteFailsKeeps ==
    ASSUME IInv, NEW w \in Worker, NEW c \in Conn, WriteFails(w, c)
    PROVE  IInv'
  <1>1. Ends(w, c, "closed") /\ OnlyOf(c)
    <2>1. /\ job[w] = c /\ asking[w] = Nothing /\ Drop(w, c) /\ UNCHANGED busVars
          /\ got' = got
      BY DEF WriteFails, Writing, Serves
    <2> QED
      BY <2>1, DropEnds DEF IInv, Typed
  <1>2. Fine(c)'
    <2>1. /\ Fine(c) /\ asked'[c] = asked[c] /\ got'[c] = got[c] /\ at'[c] = "closed"
      BY <1>1, EndsQuiet DEF OnlyOf, WriteFails, IInv
    <2> QED
      BY <2>1, GoneIsFine
  <1> QED
    BY <1>1, <1>2, EndsKeeps

LEMMA RefuseKeeps ==
    ASSUME IInv, NEW w \in Worker, NEW c \in Conn, Refuse(w, c)
    PROVE  IInv'
  <1>1. /\ Reading(w, c) /\ net[c] # <<>> /\ job[w] = c /\ asking[w] = Nothing
        /\ Parsed(c).flag = "error"
           \/ (Parsed(c).state = "analysis" /\ ~Supported(Parsed(c).line.method))
        /\ got' = [got EXCEPT ![c] = IF hung[c] THEN @ ELSE Append(@, "400")]
        /\ Drop(w, c) /\ UNCHANGED busVars
    BY DEF Refuse, Reading, Serves
  <1>2. /\ DOMAIN got' = Conn /\ \A d \in Conn : d # c => got'[d] = got[d]
        /\ got'[c] = IF hung[c] THEN got[c] ELSE Append(got[c], "400")
    BY <1>1 DEF IInv, Typed
  <1>3. Ends(w, c, "closed") /\ OnlyOf(c)
    BY <1>1, <1>2, DropEnds
  <1>4. at'[c] = "closed" /\ asked'[c] = asked[c]
    BY <1>3, EndsQuiet DEF OnlyOf
  <1>5. Fine(c)'
    <2>1. CASE hung[c]
      BY <1>2, <1>4, <2>1, GoneIsFine DEF IInv
    <2>2. CASE ~hung[c]
      <3>1. /\ History(c) /\ Waits(c)
            /\ \E m \in 1..Count(Last(c)) : Outcome(Last(c), Parsed(c), m)
        BY <1>1, <2>2, ReadingParses DEF Parsing
      <3>2. Refused(Last(c))
        BY <1>1, <3>1 DEF Outcome, Line, Refused
      <3>3. got'[c] = Append(got[c], Due(Last(c)))
        BY <1>2, <2>2, <3>2 DEF Due
      <3>4. History(c)'
        BY <1>4, <3>1, <3>3, AnswerGiven
      <3> QED
        BY <1>4, <3>4, ClosedIsFine
    <2> QED
      BY <2>1, <2>2
  <1> QED
    BY <1>3, <1>5, EndsKeeps

LEMMA ReadOnKeeps ==
    ASSUME IInv, NEW w \in Worker, NEW c \in Conn, ReadOn(w, c)
    PROVE  IInv'
  <1> DEFINE p == Parsed(c)
             r == Taken(c, p)
  <1>1. /\ Reading(w, c) /\ net[c] # <<>> /\ job[w] = c /\ asking[w] = Nothing
        /\ p.flag # "error" /\ p.state # "analysis" /\ Rearm(w, c, r, "in")
        /\ net' = [net EXCEPT ![c] = <<>>]
        /\ UNCHANGED <<busVars, coming, hung, asked, got>>
    BY DEF ReadOn, Reading, Serves
  <1>2. /\ DOMAIN r = Fields /\ r.state = p.state /\ r.line = p.line
        /\ r.headers = p.headers /\ r.inBuffer = p.inBuffer /\ r.outBuffer = req[c].outBuffer
    BY DEF Taken, IInv, Typed, Fields
  <1> HIDE DEF r, p
  <1>3. /\ DOMAIN asking' = Worker /\ DOMAIN reply' = Worker
        /\ asking'[w] = Nothing /\ reply'[w] = Nothing
        /\ \A v \in Worker : v # w => asking'[v] = asking[v] /\ reply'[v] = reply[v]
    BY <1>1 DEF IInv, Typed, busVars
  <1>4. /\ Ends(w, c, "epoll") /\ DOMAIN req' = Conn /\ DOMAIN req'[c] = Fields
        /\ \A d \in Conn : d # c => req'[d] = req[d]
        /\ req'[c].can = "read"
        /\ \A f \in Fields \ {"can", "events"} : req'[c][f] = r[f]
    BY <1>1, <1>2, <1>3, RearmEnds
  <1>5. /\ req'[c].state = p.state /\ req'[c].line = p.line /\ req'[c].headers = p.headers
        /\ req'[c].inBuffer = p.inBuffer /\ req'[c].outBuffer = req[c].outBuffer
    BY <1>2, <1>4 DEF Fields
  <1>6. /\ OnlyOf(c) /\ net'[c] = <<>> /\ coming'[c] = coming[c] /\ hung'[c] = hung[c]
        /\ asked'[c] = asked[c] /\ got'[c] = got[c]
    BY <1>1, <1>4 DEF OnlyOf, IInv, Typed
  <1>7. Quiet(c)' /\ at'[c] = "epoll"
    BY <1>4, EndsQuiet
  <1>8. Fine(c)'
    <2>1. CASE hung[c]
      BY <1>6, <1>7, <2>1, GoneIsFine DEF IInv
    <2>2. CASE ~hung[c]
      <3>1. History(c) /\ Parsing(c)
        BY <1>1, <2>2, ReadingParses
      <3>2. PICK m \in 1..Count(Last(c)) :
                /\ Piece(coming[c], Last(c), m, Count(Last(c)))
                /\ Outcome(Last(c), p, m)
        BY <1>1, <2>2, ReadingParses DEF p
      <3>3. /\ p.state \in {"headers", "body"} /\ p.inBuffer = <<>> /\ Steps[p.state] = m
            /\ ReadSoFar(Last(c), p)
        BY <1>1, <3>2 DEF Outcome
      <3>4. Last(c)' = Last(c) /\ Waits(c)' /\ History(c)'
        BY <1>6, <3>1 DEF Last, Waits, Parsing, History
      <3>5. Count(Last(c)) \in {2, 3}
        BY PartsAre
      <3>6. Piece(net'[c], Last(c), Steps[req'[c].state], m) /\ m \in 0..Count(Last(c))
        <4>1. Piece(<<>>, Last(c), m, m)
          BY <3>5 DEF Piece
        <4> QED
          BY <1>5, <1>6, <3>3, <3>5, <4>1
      <3>7. /\ req'[c].outBuffer = <<>> /\ req'[c].inBuffer = <<>>
            /\ req'[c].state \in {"uri", "headers", "body"}
        BY <1>5, <3>1, <3>3 DEF Parsing
      <3>8. /\ req'[c].line = Line(Last(c)) /\ Last(c).also \notin Before(Last(c).method)
            /\ req'[c].state = "body" => /\ req'[c].headers = Header(Last(c))
                                         /\ Last(c).method = "POST" /\ Last(c).length
        BY <1>5, <3>3 DEF ReadSoFar
      <3>9. Parsing(c)'
        BY <1>4, <1>6, <1>7, <3>2, <3>4, <3>6, <3>7, <3>8 DEF Parsing
      <3> QED
        BY <1>7, <3>4, <3>9 DEF Fine, Stage
    <2> QED
      BY <2>1, <2>2
  <1> QED
    BY <1>4, <1>6, <1>8, EndsKeeps

LEMMA WriteSomeKeeps ==
    ASSUME IInv, NEW w \in Worker, NEW c \in Conn, WriteSome(w, c)
    PROVE  IInv'
  <1>1. /\ Serves(w, c) /\ req[c].can = "write" /\ job[w] = c /\ asking[w] = Nothing
        /\ Rearm(w, c, req[c], "out")
        /\ UNCHANGED <<busVars, clientVars>>
    BY DEF WriteSome, Writing, Serves
  <1>2. DOMAIN req[c] = Fields
    BY DEF IInv, Typed
  <1>3. /\ DOMAIN asking' = Worker /\ DOMAIN reply' = Worker
        /\ asking'[w] = Nothing /\ reply'[w] = Nothing
        /\ \A v \in Worker : v # w => asking'[v] = asking[v] /\ reply'[v] = reply[v]
    BY <1>1 DEF IInv, Typed, busVars
  <1>4. /\ Ends(w, c, "epoll") /\ DOMAIN req' = Conn /\ DOMAIN req'[c] = Fields
        /\ \A d \in Conn : d # c => req'[d] = req[d]
        /\ req'[c].can = "write"
        /\ \A f \in Fields \ {"can", "events"} : req'[c][f] = req[c][f]
    BY <1>1, <1>2, <1>3, RearmEnds
  <1>5. /\ req'[c].state = req[c].state /\ req'[c].inBuffer = req[c].inBuffer
        /\ req'[c].outBuffer = req[c].outBuffer /\ req'[c].keep_alive = req[c].keep_alive
    BY <1>4 DEF Fields
  <1>6. /\ OnlyOf(c) /\ net'[c] = net[c] /\ coming'[c] = coming[c] /\ hung'[c] = hung[c]
        /\ asked'[c] = asked[c] /\ got'[c] = got[c]
    BY <1>1, <1>4 DEF OnlyOf, IInv, Typed, clientVars
  <1>7. Quiet(c)' /\ at'[c] = "epoll"
    BY <1>4, EndsQuiet
  <1>8. Fine(c)'
    <2>1. CASE hung[c]
      BY <1>6, <1>7, <2>1, GoneIsFine DEF IInv
    <2>2. CASE ~hung[c]
      <3>1. History(c) /\ Answered(c)
        BY <1>1, <2>2, Served DEF Idle, Parsing
      <3>2. Last(c)' = Last(c) /\ Waits(c)' /\ History(c)'
        BY <1>6, <3>1 DEF Last, Waits, Answered, History
      <3>3. Answered(c)'
        BY <1>4, <1>5, <1>6, <1>7, <3>1, <3>2 DEF Answered
      <3> QED
        BY <1>7, <3>2, <3>3 DEF Fine, Stage
    <2> QED
      BY <2>1, <2>2
  <1> QED
    BY <1>4, <1>6, <1>8, EndsKeeps

LEMMA WriteAllKeeps ==
    ASSUME IInv, NEW w \in Worker, NEW c \in Conn, WriteAll(w, c)
    PROVE  IInv'
  <1>1. /\ Serves(w, c) /\ req[c].can = "write" /\ job[w] = c /\ asking[w] = Nothing
        /\ got' = [got EXCEPT ![c] = IF hung[c] THEN @ ELSE @ \o req[c].outBuffer]
        /\ UNCHANGED busVars
    BY DEF WriteAll, Writing, Serves
  <1>2. /\ DOMAIN got' = Conn /\ \A d \in Conn : d # c => got'[d] = got[d]
        /\ got'[c] = IF hung[c] THEN got[c] ELSE got[c] \o req[c].outBuffer
    BY <1>1 DEF IInv, Typed
  <1>3. ASSUME ~hung[c]
        PROVE  /\ Answered(c) /\ History(c) /\ got'[c] = Append(got[c], Due(Last(c)))
               /\ asked'[c] = asked[c] => /\ History(c)'
                                          /\ Len(asked'[c]) = Len(got'[c])
    <2>1. History(c) /\ Answered(c) /\ Waits(c)
      BY <1>1, <1>3, Served DEF Idle, Parsing, Answered
    <2>2. got'[c] = got[c] \o <<Due(Last(c))>>
      BY <1>2, <1>3, <2>1 DEF Answered
    <2>3. got[c] \in Seq(Answers \cup {"400"}) /\ Due(Last(c)) \in Answers \cup {"400"}
      BY <2>1, LastIs DEF History
    <2>4. got'[c] = Append(got[c], Due(Last(c)))
      BY <2>2, <2>3, AppendIsConcat
    <2> QED
      BY <2>1, <2>4, AnswerGiven
  <1>4. CASE ~req[c].keep_alive
    <2>1. Ends(w, c, "closed") /\ OnlyOf(c)
      BY <1>1, <1>2, <1>4, DropEnds DEF WriteAll
    <2>2. at'[c] = "closed" /\ asked'[c] = asked[c]
      BY <2>1, EndsQuiet DEF OnlyOf
    <2>3. Fine(c)'
      <3>1. CASE hung[c]
        BY <1>2, <2>2, <3>1, GoneIsFine DEF IInv
      <3>2. CASE ~hung[c]
        BY <1>3, <2>2, <3>2, ClosedIsFine
      <3> QED
        BY <3>1, <3>2
    <2> QED
      BY <2>1, <2>3, EndsKeeps
  <1>5. CASE req[c].keep_alive
    <2> DEFINE r == Written(req[c])
    <2>1. /\ DOMAIN r = Fields /\ r.outBuffer = <<>> /\ r.state = req[c].state
          /\ r.inBuffer = req[c].inBuffer
      BY DEF Written, IInv, Typed, Fields
    <2>2. Rearm(w, c, r, "in") /\ UNCHANGED <<coming, net, hung, asked>>
      BY <1>5 DEF WriteAll
    <2> HIDE DEF r
    <2>3. /\ DOMAIN asking' = Worker /\ DOMAIN reply' = Worker
          /\ asking'[w] = Nothing /\ reply'[w] = Nothing
          /\ \A v \in Worker : v # w => asking'[v] = asking[v] /\ reply'[v] = reply[v]
      BY <1>1 DEF IInv, Typed, busVars
    <2>4. /\ Ends(w, c, "epoll") /\ DOMAIN req' = Conn /\ DOMAIN req'[c] = Fields
          /\ \A d \in Conn : d # c => req'[d] = req[d]
          /\ req'[c].can = "read"
          /\ \A f \in Fields \ {"can", "events"} : req'[c][f] = r[f]
      BY <1>1, <2>1, <2>2, <2>3, RearmEnds
    <2>5. /\ req'[c].state = req[c].state /\ req'[c].inBuffer = req[c].inBuffer
          /\ req'[c].outBuffer = <<>>
      BY <2>1, <2>4 DEF Fields
    <2>6. /\ OnlyOf(c) /\ net'[c] = net[c] /\ coming'[c] = coming[c] /\ hung'[c] = hung[c]
          /\ asked'[c] = asked[c]
      BY <1>2, <2>2, <2>4 DEF OnlyOf, IInv, Typed
    <2>7. Quiet(c)' /\ at'[c] = "epoll"
      BY <2>4, EndsQuiet
    <2>8. Fine(c)'
      <3>1. CASE hung[c]
        BY <1>2, <2>6, <2>7, <3>1, GoneIsFine DEF IInv
      <3>2. CASE ~hung[c]
        <4>1. Idle(c)'
          BY <1>3, <1>5, <2>4, <2>5, <2>6, <2>7, <3>2 DEF Answered, Idle
        <4> QED
          BY <1>3, <2>6, <2>7, <3>2, <4>1 DEF Fine, Stage
      <3> QED
        BY <3>1, <3>2
    <2> QED
      BY <2>4, <2>6, <2>8, EndsKeeps
  <1> QED
    BY <1>4, <1>5

LEMMA ReturnKeeps ==
    ASSUME IInv, NEW w \in Worker, NEW c \in Conn, Return(w, c)
    PROVE  IInv'
  <1> DEFINE keep == req[c].keep_alive \/ req[c].headers.keep
             k == [req[c] EXCEPT !.outBuffer = Append(@, reply[w]),
                                 !.keep_alive = keep, !.state = "finish"]
             r == IF keep THEN reset(k) ELSE k
  <1>1. /\ job[w] = c /\ Receive(w) /\ Rearm(w, c, r, "out") /\ UNCHANGED clientVars
    BY DEF Return
  <1>2. /\ DOMAIN k = Fields /\ k.outBuffer = Append(req[c].outBuffer, reply[w])
        /\ k.keep_alive = keep
    BY DEF IInv, Typed, Fields
  <1> HIDE DEF k
  <1>3. /\ DOMAIN r = Fields /\ r.outBuffer = Append(req[c].outBuffer, reply[w])
        /\ r.keep_alive = keep
        /\ keep => r.state = "uri" /\ r.inBuffer = <<>>
    BY <1>2 DEF reset, Fields
  <1> HIDE DEF r, keep
  <1>4. /\ DOMAIN asking' = Worker /\ DOMAIN reply' = Worker
        /\ asking'[w] = Nothing /\ reply'[w] = Nothing
        /\ \A v \in Worker : v # w => asking'[v] = asking[v] /\ reply'[v] = reply[v]
    BY <1>1 DEF IInv, Typed, Receive
  <1>5. /\ Ends(w, c, "epoll") /\ DOMAIN req' = Conn /\ DOMAIN req'[c] = Fields
        /\ \A d \in Conn : d # c => req'[d] = req[d]
        /\ req'[c].can = "write"
        /\ \A f \in Fields \ {"can", "events"} : req'[c][f] = r[f]
    BY <1>1, <1>3, <1>4, RearmEnds
  <1>6. /\ req'[c].outBuffer = Append(req[c].outBuffer, reply[w])
        /\ req'[c].keep_alive => req'[c].state = "uri" /\ req'[c].inBuffer = <<>>
    BY <1>3, <1>5 DEF Fields
  <1>7. /\ OnlyOf(c) /\ net'[c] = net[c] /\ coming'[c] = coming[c] /\ hung'[c] = hung[c]
        /\ asked'[c] = asked[c] /\ got'[c] = got[c]
    BY <1>1, <1>5 DEF OnlyOf, IInv, Typed, clientVars
  <1>8. Quiet(c)' /\ at'[c] = "epoll"
    BY <1>5, EndsQuiet
  <1>9. Fine(c)'
    <2>1. CASE hung[c]
      BY <1>7, <1>8, <2>1, GoneIsFine DEF IInv
    <2>2. CASE ~hung[c]
      <3>1. at[c] = "worker" /\ asking[w] # Nothing /\ reply[w] # Nothing
        BY <1>1 DEF Receive, IInv, Typed, Places
      <3>2. History(c) /\ AtBus(c)
        BY <1>1, <2>2, <3>1 DEF IInv, Fine, There, Stage, Idle, Parsing, Answered, Quiet
      <3>3. reply[w] = Due(Last(c))
        BY <1>1, <3>1, <3>2 DEF AtBus, Due
      <3>4. req'[c].outBuffer = <<Due(Last(c))>>
        BY <1>6, <3>2, <3>3 DEF AtBus
      <3>5. Last(c)' = Last(c) /\ Waits(c)' /\ History(c)'
        BY <1>7, <3>2 DEF Last, Waits, AtBus, History
      <3>6. Answered(c)'
        BY <1>5, <1>6, <1>7, <1>8, <3>2, <3>4, <3>5 DEF Answered, AtBus
      <3> QED
        BY <1>8, <3>5, <3>6 DEF Fine, Stage
    <2> QED
      BY <2>1, <2>2
  <1> QED
    BY <1>5, <1>7, <1>9, EndsKeeps

LEMMA AnalyseKeeps ==
    ASSUME IInv, NEW w \in Worker, NEW c \in Conn, Analyse(w, c)
    PROVE  IInv'
  <1> DEFINE p == Parsed(c)
  <1>1. /\ Reading(w, c) /\ net[c] # <<>> /\ job[w] = c /\ asking[w] = Nothing
        /\ at[c] = "worker" /\ p.state = "analysis" /\ Supported(p.line.method)
        /\ Ask(w, p.line.url) /\ req' = [req EXCEPT ![c] = Taken(c, p)]
        /\ net' = [net EXCEPT ![c] = <<>>]
        /\ UNCHANGED <<at, queue, job, coming, hung, asked, got>>
    BY DEF Analyse, Reading, Serves
  <1>2. DOMAIN Taken(c, p) = Fields /\ Taken(c, p).outBuffer = req[c].outBuffer
    BY DEF Taken, IInv, Typed, Fields
  <1> HIDE DEF p
  <1>3. /\ DOMAIN req' = Conn /\ DOMAIN net' = Conn /\ net'[c] = <<>>
        /\ DOMAIN req'[c] = Fields /\ req'[c].outBuffer = req[c].outBuffer
        /\ \A d \in Conn : d # c => req'[d] = req[d] /\ net'[d] = net[d]
    BY <1>1, <1>2 DEF IInv, Typed
  <1>4. /\ DOMAIN asking' = Worker /\ asking'[w] = p.line.url /\ reply' = reply
        /\ \A v \in Worker : v # w => asking'[v] = asking[v]
        /\ reply[w] = Nothing /\ \A v \in Worker : job[v] = c => v = w
    BY <1>1 DEF Ask, IInv, Typed, Places
  <1>5. Places'
    BY <1>1, <1>4 DEF IInv, Typed, Places
  <1>6. Typed'
    BY <1>1, <1>3, <1>4, <1>5 DEF IInv, Typed
  <1>7. Fine(c)'
    <2>1. CASE hung[c]
      BY <1>1, <2>1, GoneIsFine DEF IInv
    <2>2. CASE ~hung[c]
      <3>1. History(c) /\ Parsing(c)
        BY <1>1, <2>2, ReadingParses
      <3>2. PICK m \in 1..Count(Last(c)) :
                /\ Piece(coming[c], Last(c), m, Count(Last(c)))
                /\ Outcome(Last(c), p, m)
        BY <1>1, <2>2, ReadingParses DEF p
      <3>3. p.line = Line(Last(c)) /\ m = Count(Last(c)) /\ ~Refused(Last(c))
        BY <1>1, <3>2 DEF Outcome, Line
      <3>4. coming[c] = <<>>
        BY <3>2, <3>3, PartsAre, NoPart
      <3>5. Last(c)' = Last(c) /\ Waits(c)' /\ History(c)'
        BY <1>1, <3>1 DEF Last, Waits, Parsing, History
      <3>6. asking'[w] = Last(c).url
        BY <1>4, <3>3 DEF Line
      <3>7. AtBus(c)'
        BY <1>1, <1>3, <1>4, <3>1, <3>3, <3>4, <3>5, <3>6 DEF AtBus, Parsing
      <3> QED
        BY <1>1, <3>5, <3>7 DEF Fine, Stage
    <2> QED
      BY <2>1, <2>2
  <1>8. ASSUME NEW d \in Conn, d # c PROVE Fine(d)'
    <2>1. Same(d) /\ HandedOn(d)
      BY <1>1, <1>3, <1>8 DEF Same, HandedOn
    <2>2. SameWorker(d)
      BY <1>1, <1>4, <1>8 DEF SameWorker
    <2> QED
      BY <2>1, <2>2, SameIsFine DEF IInv
  <1> QED
    BY <1>6, <1>7, <1>8 DEF IInv

-----------------------------------------------------------------------------
(* Clients, and the bus.                                                    *)

LEMMA ClientKeeps ==
    ASSUME IInv, NEW c \in Conn, UNCHANGED <<busVars, frontVars, got>>,
           DOMAIN coming' = Conn, DOMAIN net' = Conn, DOMAIN asked' = Conn,
           hung' \in [Conn -> BOOLEAN],
           \A d \in Conn : d # c => /\ coming'[d] = coming[d] /\ net'[d] = net[d]
                                    /\ hung'[d] = hung[d] /\ asked'[d] = asked[d],
           Fine(c)'
    PROVE  IInv'
  <1>1. Typed'
    BY DEF IInv, Typed, Places, busVars, frontVars
  <1>2. ASSUME NEW d \in Conn, d # c PROVE Fine(d)'
    <2>1. Same(d) /\ HandedOn(d) /\ SameWorker(d)
      BY <1>2 DEF Same, HandedOn, SameWorker, busVars, frontVars
    <2> QED
      BY <2>1, SameIsFine DEF IInv
  <1> QED
    BY <1>1, <1>2 DEF IInv

\* A client that waits sends its request when nothing is asked.
LEMMA SendKeeps ==
    ASSUME ~Pipelining, IInv, NEW c \in Conn, NEW r \in Request[c], Send(c, r)
    PROVE  IInv'
  <1>1. /\ ~hung[c] /\ at[c] \notin {"new", "closed"} /\ Len(got[c]) = Len(asked[c])
        /\ coming' = [coming EXCEPT ![c] = @ \o Parts(r)]
        /\ asked' = [asked EXCEPT ![c] = Append(@, r)]
        /\ UNCHANGED <<busVars, frontVars, net, hung, got>>
    BY DEF Send
  <1>2. History(c) /\ Idle(c)
    <2>1. History(c) /\ Stage(c) /\ Len(asked[c]) \in Nat
      BY <1>1 DEF IInv, Fine, There, History
    <2> QED
      BY <1>1, <2>1 DEF Stage, Parsing, AtBus, Answered, Waits
  <1>3. coming'[c] = Parts(r) /\ asked'[c] = Append(asked[c], r)
    <2>1. Parts(r) \in Seq(PartOf(r))
      BY PartsAre DEF Piece
    <2>2. <<>> \o Parts(r) = Parts(r)
      BY <2>1, ConcatEmptySeq
    <2> QED
      BY <1>1, <1>2, <2>2 DEF IInv, Typed, Idle
  <1>4. asked[c] \in Seq(Request[c]) /\ Len(asked[c]) \in Nat
    BY <1>2 DEF History
  <1>5. Last(c)' = r /\ Waits(c)'
    BY <1>1, <1>3, <1>4 DEF Last, Waits
  <1>6. History(c)'
    <2>1. /\ asked'[c] \in Seq(Request[c]) /\ Len(asked'[c]) = Len(asked[c]) + 1
          /\ \A i \in 1..Len(asked[c]) : asked'[c][i] = asked[c][i]
      <3> DEFINE s == asked[c]
      <3>1. s \in Seq(Request[c]) /\ asked'[c] = Append(s, r)
        BY <1>3, <1>4
      <3> HIDE DEF s
      <3>2. /\ Append(s, r) \in Seq(Request[c]) /\ Len(Append(s, r)) = Len(s) + 1
            /\ \A i \in 1..Len(s) : Append(s, r)[i] = s[i]
        BY <3>1
      <3> QED
        BY <3>1, <3>2 DEF s
    <2>2. got'[c] = got[c] /\ Len(got[c]) = Len(asked[c])
      BY <1>1
    <2>3. \A i \in 1..Len(got[c]) : got'[c][i] = Due(asked'[c][i])
      BY <1>2, <2>1, <2>2 DEF History
    <2> QED
      BY <1>2, <1>4, <2>1, <2>2, <2>3 DEF History
  <1>7. Piece(net'[c], r, 0, 0) /\ Piece(coming'[c], r, 0, Count(r)) /\ 0 \in 0..Count(r)
    <2>1. net'[c] = <<>>
      BY <1>1, <1>2 DEF Idle
    <2> QED
      BY <1>3, <2>1, PartsAre DEF Piece
  <1>8. Parsing(c)'
    <2>1. Quiet(c)' /\ req' = req
      BY <1>1, <1>2 DEF Quiet, Idle, busVars, frontVars
    <2>2. Steps[req'[c].state] = 0
      BY <1>2, <2>1 DEF Steps, Idle
    <2> QED
      BY <1>2, <1>5, <1>7, <2>1, <2>2 DEF Parsing, Idle
  <1>9. Fine(c)'
    BY <1>1, <1>6, <1>8 DEF Fine, Stage, frontVars
  <1>10. /\ DOMAIN coming' = Conn /\ DOMAIN net' = Conn /\ DOMAIN asked' = Conn
         /\ hung' \in [Conn -> BOOLEAN]
         /\ \A d \in Conn : d # c => /\ coming'[d] = coming[d] /\ net'[d] = net[d]
                                     /\ hung'[d] = hung[d] /\ asked'[d] = asked[d]
    BY <1>1 DEF IInv, Typed
  <1> QED
    BY <1>1, <1>9, <1>10, ClientKeeps

LEMMA ArriveKeeps ==
    ASSUME IInv, NEW c \in Conn, Arrive(c)
    PROVE  IInv'
  <1>1. /\ coming[c] # <<>> /\ coming' = [coming EXCEPT ![c] = Tail(@)]
        /\ net' = [net EXCEPT ![c] = Append(@, Head(coming[c]))]
        /\ UNCHANGED <<busVars, frontVars, hung, asked, got>>
    BY DEF Arrive
  <1>2. /\ coming'[c] = Tail(coming[c]) /\ net'[c] = Append(net[c], Head(coming[c]))
        /\ DOMAIN coming' = Conn /\ DOMAIN net' = Conn /\ DOMAIN asked' = Conn
        /\ hung' \in [Conn -> BOOLEAN]
        /\ \A d \in Conn : d # c => /\ coming'[d] = coming[d] /\ net'[d] = net[d]
                                    /\ hung'[d] = hung[d] /\ asked'[d] = asked[d]
    BY <1>1 DEF IInv, Typed
  <1>3. at' = at /\ req' = req /\ job' = job /\ asking' = asking /\ at[c] # "new"
    BY <1>1 DEF busVars, frontVars, IInv, Fine, Idle
  <1>4. Fine(c)'
    <2>1. CASE hung[c] \/ at[c] = "closed"
      BY <1>1, <1>3, <2>1, GoneIsFine DEF IInv
    <2>2. CASE ~hung[c] /\ at[c] # "closed"
      <3>1. History(c) /\ Parsing(c)
        BY <1>1, <2>2 DEF IInv, Fine, There, Stage, Idle, AtBus, Answered
      <3>2. Last(c)' = Last(c) /\ Waits(c)' /\ History(c)' /\ Quiet(c)'
        BY <1>1, <1>3, <3>1 DEF Last, Waits, Parsing, History, Quiet
      <3>3. PICK m \in 0..Count(Last(c)) :
                /\ Piece(net[c], Last(c), Steps[req[c].state], m)
                /\ Piece(coming[c], Last(c), m, Count(Last(c)))
        BY <3>1 DEF Parsing
      <3>4. /\ Count(Last(c)) \in 0..3 /\ m \in 0..3 /\ Steps[req[c].state] \in 0..3
        BY <3>1, PartsAre DEF Steps, Parsing
      <3>5. /\ Piece(net'[c], Last(c), Steps[req[c].state], m + 1)
            /\ Piece(coming'[c], Last(c), m + 1, Count(Last(c)))
            /\ m + 1 \in 0..Count(Last(c))
        BY <1>1, <1>2, <3>3, <3>4, PieceArrives
      <3>6. Parsing(c)'
        BY <1>3, <3>1, <3>2, <3>5 DEF Parsing
      <3> QED
        BY <1>3, <3>2, <3>6 DEF Fine, Stage
    <2> QED
      BY <2>1, <2>2
  <1> QED
    BY <1>1, <1>2, <1>4, ClientKeeps

LEMMA HangupKeeps ==
    ASSUME IInv, NEW c \in Conn, Hangup(c)
    PROVE  IInv'
  <1>1. /\ at[c] \notin {"new", "closed"} /\ hung' = [hung EXCEPT ![c] = TRUE]
        /\ coming' = [coming EXCEPT ![c] = <<>>]
        /\ UNCHANGED <<busVars, frontVars, net, asked, got>>
    BY DEF Hangup
  <1>2. /\ hung'[c]
        /\ DOMAIN coming' = Conn /\ DOMAIN net' = Conn /\ DOMAIN asked' = Conn
        /\ hung' \in [Conn -> BOOLEAN]
        /\ \A d \in Conn : d # c => /\ coming'[d] = coming[d] /\ net'[d] = net[d]
                                    /\ hung'[d] = hung[d] /\ asked'[d] = asked[d]
    BY <1>1 DEF IInv, Typed
  <1>3. Fine(c)'
    BY <1>1, <1>2, GoneIsFine DEF IInv, frontVars
  <1> QED
    BY <1>1, <1>2, <1>3, ClientKeeps

LEMMA ServeKeeps ==
    ASSUME IInv, NEW w \in Worker, Serve(w), UNCHANGED <<frontVars, clientVars>>
    PROVE  IInv'
  <1> USE DEF frontVars, clientVars
  <1>1. /\ asking[w] # Nothing /\ reply[w] = Nothing /\ asking' = asking
        /\ DOMAIN reply' = Worker /\ reply'[w] = Answer[asking[w]]
        /\ \A v \in Worker : v # w => reply'[v] = reply[v]
    BY DEF Serve, IInv, Typed
  <1>2. Typed'
    BY <1>1 DEF IInv, Typed, Places
  <1>3. ASSUME NEW c \in Conn PROVE Fine(c)'
    <2>1. Last(c)' = Last(c) /\ (Waits(c)' <=> Waits(c)) /\ (Quiet(c)' <=> Quiet(c))
      BY <1>1 DEF Last, Waits, Quiet
    <2>2. (Idle(c) => Idle(c)') /\ (Parsing(c) => Parsing(c)') /\ (Answered(c) => Answered(c)')
      BY <2>1 DEF Idle, Parsing, Answered
    <2>3. AtBus(c) => AtBus(c)'
      BY <1>1, <2>1 DEF AtBus
    <2>4. Fine(c) /\ (History(c) => History(c)')
      BY DEF IInv, History
    <2> QED
      BY <2>2, <2>3, <2>4 DEF Fine, Stage, There
  <1> QED
    BY <1>2, <1>3 DEF IInv

-----------------------------------------------------------------------------
(* The event loop.                                                          *)

\* Connections X, which the epoll instance holds, are closed; the others stay where
\* they are or go on to epoll or the queue.
Turns(X, new) ==
    /\ at' = Gone(X, new) /\ Close(X)
    /\ UNCHANGED <<busVars, job, hung, asked, got>>
    /\ new \in [Conn -> {"new", "epoll", "queue", "worker", "closed"}]
    /\ X \subseteq Conn /\ \A d \in X : at[d] = "epoll"
    /\ \A d \in Conn \ X : \/ new[d] = at[d]
                           \/ at[d] \in {"new", "epoll"} /\ new[d] \in {"epoll", "queue"}

Queued(q) ==
    /\ q \in Seq(Conn)
    /\ \A i \in 1..Len(q) : at[q[i]] = "queue"
    /\ \A i, j \in 1..Len(q) : q[i] = q[j] => i = j

LEMMA TurnsKeep ==
    ASSUME IInv, NEW X, NEW new, Turns(X, new), Queued(queue)'
    PROVE  IInv'
  <1>1. /\ \A d \in Conn : at'[d] = IF d \in X THEN "closed" ELSE new[d]
        /\ at' \in [Conn -> {"new", "epoll", "queue", "worker", "closed"}]
        /\ asking' = asking /\ reply' = reply /\ job' = job /\ hung' = hung
        /\ asked' = asked /\ got' = got
    BY DEF Turns, Gone, busVars
  <1>2. /\ DOMAIN req' = Conn /\ DOMAIN coming' = Conn /\ DOMAIN net' = Conn
        /\ \A d \in Conn : IF d \in X THEN req'[d] = Fresh
                           ELSE /\ req'[d] = req[d] /\ coming'[d] = coming[d]
                                /\ net'[d] = net[d]
    BY DEF Turns, Close
  <1>3. \A d \in Conn : at[d] = "worker" => at'[d] = "worker"
    BY <1>1 DEF Turns
  <1>4. Places'
    BY <1>1, <1>3 DEF Queued, IInv, Typed, Places
  <1>5. \A d \in Conn : DOMAIN req'[d] = Fields
    <2>1. DOMAIN Fresh = Fields
      BY DEF Fresh, Fields
    <2> QED
      BY <1>2, <2>1 DEF IInv, Typed
  <1>6. Typed'
    BY <1>1, <1>2, <1>4, <1>5 DEF IInv, Typed
  <1>7. ASSUME NEW d \in Conn PROVE Fine(d)'
    <2>1. CASE d \in X
      BY <1>1, <2>1, GoneIsFine DEF IInv
    <2>2. CASE d \notin X
      <3>1. Same(d) /\ HandedOn(d) /\ SameWorker(d)
        BY <1>1, <1>2, <2>2 DEF Same, HandedOn, SameWorker, Turns
      <3> QED
        BY <3>1, SameIsFine DEF IInv
    <2> QED
      BY <2>1, <2>2
  <1> QED
    BY <1>6, <1>7 DEF IInv

LEMMA StillQueued ==
    ASSUME IInv, NEW X, NEW new, Turns(X, new), queue' = queue,
           \A d \in Conn : at[d] = "queue" => new[d] = "queue"
    PROVE  Queued(queue)'
  <1>1. \A d \in Conn : at[d] = "queue" => at'[d] = "queue"
    BY DEF Turns, Gone
  <1> QED
    BY <1>1 DEF Queued, IInv, Typed, Places

LEMMA AcceptKeeps ==
    ASSUME IInv, NEW c \in Conn, acceptConnection(c)
    PROVE  IInv'
  <1>1. PICK X \in Expired : at' = Gone(X, [at EXCEPT ![c] = "epoll"]) /\ Close(X)
    BY DEF acceptConnection
  <1> DEFINE new == [at EXCEPT ![c] = "epoll"]
  <1>2. /\ at[c] = "new" /\ queue' = queue
        /\ UNCHANGED <<busVars, job, hung, asked, got>>
    BY DEF acceptConnection
  <1>3. Turns(X, new)
    BY <1>1, <1>2 DEF Turns, Expired, IInv, Typed, Places
  <1>4. \A d \in Conn : at[d] = "queue" => new[d] = "queue"
    BY <1>2 DEF IInv, Typed, Places
  <1> QED
    BY <1>2, <1>3, <1>4, StillQueued, TurnsKeep

LEMMA ErrorEventKeeps ==
    ASSUME IInv, NEW c \in Conn, ErrorEvent(c)
    PROVE  IInv'
  <1>1. PICK X \in Expired : at' = Gone(X \cup {c}, at) /\ Close(X \cup {c})
    BY DEF ErrorEvent
  <1>2. /\ at[c] = "epoll" /\ queue' = queue
        /\ UNCHANGED <<busVars, job, hung, asked, got>>
    BY DEF ErrorEvent
  <1>3. Turns(X \cup {c}, at)
    BY <1>1, <1>2 DEF Turns, Expired, IInv, Typed, Places
  <1> QED
    BY <1>2, <1>3, StillQueued, TurnsKeep

LEMMA EventKeeps ==
    ASSUME IInv, NEW c \in Conn, Event(c)
    PROVE  IInv'
  <1> DEFINE new == [at EXCEPT ![c] = "queue"]
             dead(X) == (X \ {c}) \cup IF threadpool_add(c) = queue THEN {c} ELSE {}
  <1>1. PICK X \in Expired : at' = Gone(dead(X), new) /\ Close(dead(X))
    BY DEF Event
  <1>2. /\ at[c] = "epoll" /\ queue' = threadpool_add(c)
        /\ UNCHANGED <<busVars, job, hung, asked, got>>
    BY DEF Event, HasEvent
  <1>3. Turns(dead(X), new)
    BY <1>1, <1>2 DEF Turns, Expired, IInv, Typed, Places
  <1>4. Queued(queue)'
    <2>1. CASE Len(queue) = QueueSize
      <3>1. queue' = queue /\ \A d \in Conn : at[d] = "queue" => new[d] = "queue"
        BY <1>2, <2>1 DEF threadpool_add, IInv, Typed, Places
      <3> QED
        BY <1>3, <3>1, StillQueued
    <2>2. CASE Len(queue) # QueueSize
      <3>1. queue' = Append(queue, c) /\ queue \in Seq(Conn)
        BY <1>2, <2>2 DEF threadpool_add, IInv, Typed, Places
      <3>2. /\ queue' \in Seq(Conn) /\ Len(queue') = Len(queue) + 1 /\ Len(queue) \in Nat
            /\ \A i \in 1..Len(queue) : queue'[i] = queue[i]
            /\ queue'[Len(queue) + 1] = c
        BY <3>1
      <3>3. threadpool_add(c) # queue
        BY <1>2, <3>2
      <3>4. c \notin dead(X) /\ \A d \in X : at[d] = "epoll"
        BY <3>3 DEF Expired
      <3>5. \A d \in Conn : at[d] = "queue" \/ d = c => at'[d] = "queue"
        BY <1>1, <1>2, <3>4 DEF Gone, IInv, Typed, Places
      <3>6. \A i \in 1..Len(queue) : queue[i] \in Conn /\ at[queue[i]] = "queue"
        BY <3>1 DEF IInv, Typed, Places
      <3>7. \A i \in 1..Len(queue') : at'[queue'[i]] = "queue"
        BY <3>2, <3>5, <3>6
      <3>8. \A i, j \in 1..Len(queue') : queue'[i] = queue'[j] => i = j
        <4>1. \A i, j \in 1..Len(queue) : queue[i] = queue[j] => i = j
          BY DEF IInv, Typed, Places
        <4>2. \A i \in 1..Len(queue) : queue[i] # c
          BY <1>2, <3>6
        <4> HIDE DEF new, dead
        <4> QED
          BY <3>2, <4>1, <4>2
      <3> QED
        BY <3>2, <3>7, <3>8 DEF Queued
    <2> QED
      BY <2>1, <2>2
  <1> QED
    BY <1>3, <1>4, TurnsKeep

LEMMA TakeKeeps ==
    ASSUME IInv, NEW w \in Worker, Take(w)
    PROVE  IInv'
  <1> DEFINE c == Head(queue)
  <1>1. /\ job[w] = Nothing /\ queue # <<>> /\ job' = [job EXCEPT ![w] = c]
        /\ at' = [at EXCEPT ![c] = "worker"] /\ queue' = Tail(queue)
        /\ UNCHANGED <<busVars, req, clientVars>>
    BY DEF Take
  <1>2. /\ queue \in Seq(Conn) /\ Len(queue) \in Nat \ {0} /\ c = queue[1] /\ c \in Conn
        /\ queue' \in Seq(Conn) /\ Len(queue') = Len(queue) - 1
        /\ \A i \in 1..Len(queue') : queue'[i] = queue[i + 1]
    BY <1>1 DEF IInv, Typed, Places
  <1>3. at[c] = "queue" /\ asking[w] = Nothing
    BY <1>1, <1>2 DEF IInv, Typed, Places
  <1> HIDE DEF c
  <1>4. /\ \A d \in Conn : at'[d] = IF d = c THEN "worker" ELSE at[d]
        /\ \A v \in Worker : job'[v] = IF v = w THEN c ELSE job[v]
        /\ asking' = asking /\ reply' = reply
    BY <1>1 DEF IInv, Typed, Places, busVars
  <1>5. Places'
    <2>1. /\ at' \in [Conn -> {"new", "epoll", "queue", "worker", "closed"}]
          /\ job' \in [Worker -> Conn \cup {Nothing}]
      BY <1>1, <1>2 DEF IInv, Typed, Places
    <2>2. \A i \in 1..Len(queue') : /\ i + 1 \in 1..Len(queue) /\ queue[i + 1] # c
                                    /\ queue[i + 1] \in Conn /\ at[queue[i + 1]] = "queue"
      BY <1>2 DEF IInv, Typed, Places
    <2>3. \A i \in 1..Len(queue') : at'[queue'[i]] = "queue"
      BY <1>2, <1>4, <2>2
    <2>4. \A i, j \in 1..Len(queue') : queue'[i] = queue'[j] => i = j
      <3>1. \A i, j \in 1..Len(queue) : queue[i] = queue[j] => i = j
        BY DEF IInv, Typed, Places
      <3> QED
        BY <1>2, <2>2, <3>1
    <2>5. \A v \in Worker : IF job'[v] = Nothing THEN asking'[v] = Nothing
                                                ELSE at'[job'[v]] = "worker"
      BY <1>1, <1>2, <1>4 DEF IInv, Typed, Places
    <2>6. \A u, v \in Worker : job'[u] = job'[v] /\ job'[u] # Nothing => u = v
      BY <1>3, <1>4 DEF IInv, Typed, Places
    <2> QED
      BY <1>2, <2>1, <2>3, <2>4, <2>5, <2>6 DEF Places
  <1>6. Typed'
    BY <1>1, <1>4, <1>5 DEF IInv, Typed, clientVars
  <1>7. ASSUME NEW d \in Conn PROVE Fine(d)'
    <2>1. Same(d) /\ HandedOn(d)
      BY <1>1, <1>3, <1>4 DEF Same, HandedOn, clientVars
    <2>2. SameWorker(d)
      BY <1>3, <1>4 DEF SameWorker
    <2> QED
      BY <2>1, <2>2, SameIsFine DEF IInv
  <1> QED
    BY <1>6, <1>7 DEF IInv

-----------------------------------------------------------------------------

LEMMA InitIInv == Init => IInv
  <1> SUFFICES ASSUME Init PROVE IInv
    OBVIOUS
  <1>1. /\ \A w \in Worker : asking[w] = Nothing /\ reply[w] = Nothing /\ job[w] = Nothing
        /\ DOMAIN asking = Worker /\ DOMAIN reply = Worker
        /\ at = [c \in Conn |-> "new"] /\ queue = <<>> /\ job \in [Worker -> {Nothing}]
        /\ hung = [c \in Conn |-> FALSE]
    BY DEF Init, BusInit
  <1>2. \A c \in Conn : /\ req[c] = Fresh /\ coming[c] = <<>> /\ net[c] = <<>>
                        /\ asked[c] = <<>> /\ got[c] = <<>>
    BY DEF Init
  <1>3. Places
    BY <1>1 DEF Places
  <1>4. Typed
    <2>1. DOMAIN Fresh = Fields
      BY DEF Fresh, Fields
    <2> QED
      BY <1>1, <1>2, <1>3, <2>1 DEF Typed, Init
  <1>5. ASSUME NEW c \in Conn PROVE Fine(c)
    <2>1. History(c)
      <3>1. \A S : <<>> \in Seq(S)
        OBVIOUS
      <3>2. asked[c] = <<>> /\ got[c] = <<>> /\ asked[c] \in Seq(Request[c])
        BY <1>2, <3>1
      <3>3. got[c] \in Seq(Answers \cup {"400"}) /\ Len(asked[c]) = 0 /\ Len(got[c]) = 0
        BY <3>1, <3>2
      <3>4. \A i \in 1..Len(got[c]) : got[c][i] = Due(asked[c][i])
        BY <3>3
      <3> QED
        BY <3>2, <3>3, <3>4 DEF History
    <2>2. /\ Fresh.can = "read" /\ Fresh.state = "uri"
          /\ Fresh.inBuffer = <<>> /\ Fresh.outBuffer = <<>>
      BY DEF Fresh
    <2>3. Idle(c)
      BY <1>1, <1>2, <2>2 DEF Idle, Quiet
    <2> QED
      BY <1>1, <2>1, <2>3 DEF Fine, Stage
  <1> QED
    BY <1>4, <1>5 DEF IInv

LEMMA HandleKeeps ==
    ASSUME IInv, NEW w \in Worker, NEW c \in Conn, Handle(w, c)
    PROVE  IInv'
  BY ReadNothingKeeps, ReadOnKeeps, RefuseKeeps, AnalyseKeeps, ReturnKeeps,
     WriteAllKeeps, WriteSomeKeeps, WriteFailsKeeps DEF Handle

LEMMA NextIInv ==
    ASSUME ~Pipelining, IInv, [Next]_vars
    PROVE  IInv'
  <1>1. CASE UNCHANGED vars
    <2> USE <1>1 DEF vars
    <2>1. Typed'
      BY DEF IInv, Typed, Places
    <2>2. ASSUME NEW c \in Conn PROVE Fine(c)'
      <3>1. Same(c) /\ HandedOn(c) /\ SameWorker(c)
        BY DEF Same, HandedOn, SameWorker
      <3> QED
        BY <3>1, SameIsFine DEF IInv
    <2> QED
      BY <2>1, <2>2 DEF IInv
  <1>2. ASSUME NEW c \in Conn,
               \/ \E r \in Request[c] : Send(c, r)
               \/ Arrive(c) \/ Hangup(c)
               \/ acceptConnection(c) \/ Event(c) \/ ErrorEvent(c)
        PROVE  IInv'
    BY <1>2, SendKeeps, ArriveKeeps, HangupKeeps, AcceptKeeps, EventKeeps, ErrorEventKeeps
  <1>3. ASSUME NEW w \in Worker,
               \/ Take(w)
               \/ \E c \in Conn : Handle(w, c)
               \/ Serve(w) /\ UNCHANGED <<frontVars, clientVars>>
        PROVE  IInv'
    BY <1>3, TakeKeeps, HandleKeeps, ServeKeeps
  <1> QED
    BY <1>1, <1>2, <1>3 DEF Next

\* The answers a client receives are those to its requests, in their order and each
\* once, whichever of any number of workers serve them, wherever its requests are cut
\* between parts, and whatever other clients, timers and a full queue do - provided it
\* asks only when it has its last answer (RequestData::reset empties what came early).
THEOREM InOrder ==
    ASSUME ~Pipelining
    PROVE  Spec => []AnswersInOrder
  <1>1. Init => IInv
    BY InitIInv
  <1>2. IInv /\ [Next]_vars => IInv'
    BY NextIInv
  <1>3. IInv => AnswersInOrder
    BY DEF IInv, Fine, History, AnswersInOrder
  <1> QED
    BY <1>1, <1>2, <1>3, PTL DEF Spec

===============================================================================
