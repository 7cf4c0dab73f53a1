------------------------------ MODULE HttpRequest ------------------------------
(***************************************************************************)
(* The HTTP side of one connection of myprj/webServer (RequestData.cpp):   *)
(* handleRead appends what has arrived to inBuffer and resumes the parser  *)
(* where the last call left it; a complete request is answered, a bad one  *)
(* ends the connection, and with keep_alive the next one follows.  TCP     *)
(* cuts the bytes into segments; Cuts says where.                          *)
(*                                                                         *)
(* A token stands for a piece of text the parser never looks into: a       *)
(* request line, a field name or value, a character of the body.  The      *)
(* separators are tokens of their own.                                     *)
(***************************************************************************)
EXTENDS Integers, Sequences, TLC

CONSTANTS Token,        \* the pieces of text
          Requests,     \* what a client may send
          MaxRequests,  \* bounds the requests on the connection
          Cuts          \* where segments end: "safe", "head" or "any"

Separators == {"CR", "LF", ":", "SP"}

ASSUME HttpAssumption ==
    /\ Separators \subseteq Token
    /\ MaxRequests \in Nat /\ Cuts \in {"safe", "head", "any"}

VARIABLES sent,      \* the requests the client began to send
          rest,      \* the tokens of the last one that are still on their way
          inBuffer, state, h_state, headers, line, keep_alive,
          status,    \* "open", "error" or "closed"
          out,       \* an answer waits in outBuffer
          served     \* what analysisRequest was given and answered (history)

parser == <<inBuffer, state, h_state, headers, line>>
vars   == <<sent, rest, parser, keep_alive, status, out, served>>

NoHeaders == [k \in {} |-> <<>>]

Init ==
    /\ sent = <<>> /\ rest = <<>>
    /\ inBuffer = <<>> /\ state = "uri" /\ h_state = "start"
    /\ headers = NoHeaders /\ line = <<>>
    /\ keep_alive = FALSE /\ status = "open" /\ out = FALSE
    /\ served = <<>>

-----------------------------------------------------------------------------
(* The client: requests [line, fields, body], a field being <<name, value>>.*)

Field(f) == <<f[1], ":", "SP", f[2], "CR", "LF">>
FieldLines(r) ==
    [p \in 1..(6 * Len(r.fields)) |->
        Field(r.fields[((p - 1) \div 6) + 1])[((p - 1) % 6) + 1]]
LineText(r) == <<r.line, "CR", "LF">>
HeadText(r) == LineText(r) \o FieldLines(r) \o <<"CR", "LF">>
Wire(r)  == HeadText(r) \o r.body

\* The first n header lines of r as a map: the last of several with one name counts.
MapOf(r, n) ==
    [k \in {<<r.fields[i][1]>> : i \in 1..n} |->
        <<r.fields[CHOOSE i \in 1..n :
                      /\ <<r.fields[i][1]>> = k
                      /\ \A j \in (i + 1)..n : <<r.fields[j][1]>> # k][2]>>]
FieldMap(r) == MapOf(r, Len(r.fields))

\* The methods in the order the line is searched for them
MethodOf(l) ==
    IF l \in {"GET page", "GET none"} THEN "GET"
    ELSE IF l \in {"POST form", "POST none"} THEN "POST"
    ELSE IF l = "PUT page" THEN "PUT" ELSE "none"

Length == <<"Content-Length">>
stoi(v) == CHOOSE n \in 0..9 : <<ToString(n)>> = v

\* A request has header lines, lengths are numbers, the length of a form is that of its
\* body, and a page is asked for without one.
Wellformed(r) ==
    /\ r \in [line : Token, fields : Seq(Token \X Token), body : Seq(Token)]
    /\ r.line \notin Separators
    /\ r.fields # <<>>
    /\ \A i \in 1..Len(r.fields) :
          r.fields[i][1] \notin Separators /\ r.fields[i][2] \notin Separators
    /\ Length \in DOMAIN FieldMap(r) =>
          /\ stoi(FieldMap(r)[Length]) \in Nat
          /\ MethodOf(r.line) = "POST" => Len(r.body) = stoi(FieldMap(r)[Length])
    /\ r.line = "GET page" => r.body = <<>>

ASSUME RequestsAssumption == \A r \in Requests : Wellformed(r)

\* A client waits for the answer before it sends the next request.
Send(r) ==
    /\ status = "open" /\ rest = <<>> /\ ~out
    /\ Len(served) = Len(sent) /\ Len(sent) < MaxRequests
    /\ sent' = Append(sent, r) /\ rest' = Wire(r)
    /\ UNCHANGED <<parser, keep_alive, status, out, served>>

\* Segments may end here, k tokens into the request.  Ends inside the header
\* lines are not safe, nor is one between the blank line and the body.
MayEnd(r, k) ==
    \/ k <= Len(LineText(r)) \/ k = Len(Wire(r)) \/ k > Len(HeadText(r))
    \/ Cuts = "head" /\ k = Len(HeadText(r))
    \/ Cuts = "any"

-----------------------------------------------------------------------------
(* parseURI.                                                                *)

\* The request line's token among what precedes the first CR, if it has one
LineIn(text) ==
    LET found == {i \in 1..Len(text) : MethodOf(text[i]) # "none"}
    IN IF found = {} THEN <<>>
       ELSE <<text[CHOOSE i \in found : \A j \in found : i <= j]>>

CRs(buf) == {i \in 1..Len(buf) : buf[i] = "CR"}

-----------------------------------------------------------------------------
(* parseHeaders: one call scans the buffer from its start in the state the  *)
(* last call left, but with the positions unset (0 here, -1 there).         *)

\* str.begin() + a up to str.begin() + b: from an unset position the text
\* begins with the byte before the buffer.
Text(buf, a, b) ==
    IF a > 0 THEN SubSeq(buf, a, b - 1)
    ELSE IF b = 0 THEN <<>> ELSE <<"?">> \o SubSeq(buf, 1, b - 1)

Put(map, k, v) == [x \in DOMAIN map \cup {k} |-> IF x = k THEN v ELSE map[x]]

\* One turn of the loop on character i
Step(buf, i, s) ==
    LET c == buf[i]
        newline == c \in {"CR", "LF"}
        to(h) == [s EXCEPT !.h = h]
        bad == [s EXCEPT !.error = TRUE]
    IN CASE s.h = "start" ->
              IF newline THEN s ELSE [to("key") EXCEPT !.key = i, !.begin = i]
         [] s.h = "key" ->
              IF c = ":" THEN IF i > s.key THEN [to("colon") EXCEPT !.keyEnd = i]
                              ELSE bad
              ELSE IF newline THEN bad ELSE s
         [] s.h = "colon" -> IF c = "SP" THEN to("spaces") ELSE bad
         [] s.h = "spaces" -> [to("value") EXCEPT !.value = i]
         [] s.h = "value" ->
              IF c # "CR" THEN s
              ELSE IF i > s.value THEN [to("cr") EXCEPT !.valueEnd = i] ELSE bad
         [] s.h = "cr" ->
              IF c = "LF"
              THEN [to("lf") EXCEPT
                      !.begin = i,
                      !.headers = Put(@, Text(buf, s.key, s.keyEnd),
                                         Text(buf, s.value, s.valueEnd))]
              ELSE bad
         [] s.h = "lf" ->
              IF c = "CR" THEN to("end_cr") ELSE [to("key") EXCEPT !.key = i]
         [] s.h = "end_cr" -> IF c = "LF" THEN to("end_lf") ELSE bad
         [] s.h = "end_lf" -> [s EXCEPT !.stop = TRUE, !.begin = i]

\* The scanner after the first i characters of buf, from where the last call ended
Scanned[buf \in Seq(Token)] == [i \in Nat |->
    IF i = 0
    THEN [h |-> h_state, headers |-> headers, begin |-> 1, error |-> FALSE,
          stop |-> FALSE, key |-> 0, keyEnd |-> 0, value |-> 0, valueEnd |-> 0]
    ELSE LET s == Scanned[buf][i - 1]
         IN IF s.error \/ s.stop THEN s ELSE Step(buf, i, s)]

-----------------------------------------------------------------------------
(* handleRead: the stages fall through to one another in one call.  Each is *)
(* a relation between what it is given and what the call leaves behind.     *)

WantsKeepAlive(map) ==
    <<"Connection">> \in DOMAIN map /\ map[<<"Connection">>] = <<"Keep-Alive">>

\* The call ends and waits for more: EPOLLIN.
Again(buf, st, h, map, l) ==
    /\ inBuffer' = buf /\ state' = st /\ h_state' = h
    /\ headers' = map /\ line' = l
    /\ UNCHANGED <<keep_alive, status, out, served>>

\* handleError, and the connection goes with all it has parsed.
Refuse ==
    /\ status' = "error"
    /\ UNCHANGED <<parser, keep_alive, out, served>>

\* reset(), for the next request
Reset_KeepsHeaders ==
    /\ inBuffer' = <<>> /\ state' = "uri" /\ h_state' = "start"
    /\ headers' = headers /\ line' = <<>>
Reset_KeepsHState ==
    /\ inBuffer' = <<>> /\ state' = "uri" /\ h_state' = "end_lf"
    /\ headers' = NoHeaders /\ line' = <<>>
Reset ==
    /\ inBuffer' = <<>> /\ state' = "uri" /\ h_state' = "start"
    /\ headers' = NoHeaders /\ line' = <<>>

\* STATE_FINISH.  Without keep_alive and without an answer the connection goes.
Finish(keep, answered, buf, h, map, l) ==
    /\ keep_alive' = keep /\ out' = answered
    /\ status' = IF keep \/ answered THEN "open" ELSE "closed"
    /\ IF keep THEN Reset
       ELSE /\ state' = "finish" /\ inBuffer' = buf /\ h_state' = h
            /\ headers' = map /\ line' = l

\* The first n bytes, or as many as there are
substr(buf, n) == SubSeq(buf, 1, IF n < Len(buf) THEN n ELSE Len(buf))

\* analysisRequest.  A POST to any other name leaves the function without a
\* return value: the caller sees one or the other.
Analyse(buf, h, map, l) ==
    LET keep == keep_alive \/ WantsKeepAlive(map)
        body == IF Length \in DOMAIN map
                THEN substr(buf, stoi(map[Length])) ELSE <<>>
    IN \/ /\ l \in {<<"GET page">>, <<"POST form">>}
          /\ served' = Append(served, [line |-> l[1], headers |-> map, body |-> body])
          /\ Finish(keep, TRUE, buf, h, map, l)
       \/ /\ l \notin {<<"GET page">>, <<"POST form">>}
          /\ Refuse
       \/ /\ l = <<"POST none">>
          /\ Finish(keep_alive, FALSE, buf, h, map, l)
          /\ UNCHANGED served

\* A POST waits for Content-Length bytes after the header lines.
Missing_OneFewer(buf, map) == Len(buf) < stoi(map[Length]) - 1
Missing_OneMore(buf, map) == Len(buf) <= stoi(map[Length])
Missing(buf, map) == Len(buf) < stoi(map[Length])

Body(buf, h, map, l) ==
    IF Length \notin DOMAIN map THEN Refuse
    ELSE IF Missing(buf, map) THEN Again(buf, "body", h, map, l)
    ELSE Analyse(buf, h, map, l)

Headers(buf, l) ==
    LET s == Scanned[buf][Len(buf)]
        left == SubSeq(buf, s.begin, Len(buf))
    IN IF s.error THEN Refuse
       ELSE IF s.h # "end_lf" THEN Again(left, "headers", s.h, s.headers, l)
       ELSE IF MethodOf(l[1]) = "POST" THEN Body(left, s.h, s.headers, l)
       ELSE Analyse(left, s.h, s.headers, l)

Uri(buf) ==
    IF CRs(buf) = {} THEN Again(buf, "uri", h_state, headers, line)
    ELSE LET cr == CHOOSE i \in CRs(buf) : \A j \in CRs(buf) : i <= j
             l  == LineIn(SubSeq(buf, 1, cr - 1))
         IN IF l = <<>> THEN Refuse
            ELSE Headers(SubSeq(buf, cr + 1, Len(buf)), l)

Read(n) ==
    /\ status = "open" /\ ~out /\ n <= Len(rest)
    /\ LET r == sent[Len(sent)] IN MayEnd(r, Len(Wire(r)) - Len(rest) + n)
    /\ rest' = SubSeq(rest, n + 1, Len(rest))
    /\ UNCHANGED sent
    /\ LET buf == inBuffer \o SubSeq(rest, 1, n) IN
       \/ state = "uri" /\ Uri(buf)
       \/ state = "headers" /\ Headers(buf, line)
       \/ state = "body" /\ Body(buf, h_state, headers, line)

\* handleWrite, to the end of the answer.
Write ==
    /\ status = "open" /\ out
    /\ out' = FALSE
    /\ status' = IF keep_alive THEN "open" ELSE "closed"
    /\ UNCHANGED <<sent, rest, parser, keep_alive, served>>

Next ==
    \/ \E r \in Requests : Send(r)
    \/ \E n \in 1..Len(rest) : Read(n)
    \/ Write

Spec == Init /\ [][Next]_vars

-----------------------------------------------------------------------------

TypeOK ==
    /\ sent \in Seq(Requests) /\ Len(sent) <= MaxRequests
    /\ state \in {"uri", "headers", "body", "finish"}
    /\ h_state \in {"start", "key", "colon", "spaces", "value", "cr", "lf",
                    "end_cr", "end_lf"}
    /\ keep_alive \in BOOLEAN /\ out \in BOOLEAN
    /\ status \in {"open", "error", "closed"}
    /\ Len(served) <= Len(sent)

\* Every answer is to the request sent in that place, with exactly the header
\* map the request had: nothing of an earlier request on the connection, and
\* nothing lost where segments end (RequestData.cpp:479-595, reset 151-168).
HeadersKept ==
    \A i \in 1..Len(served) :
        /\ served[i].line = sent[i].line
        /\ served[i].headers = FieldMap(sent[i])

\* A form is evaluated on the body the client sent, whatever segments it came in
\* (RequestData.cpp:250-269, 650-663).
BodyKept ==
    \A i \in 1..Len(served) :
        MethodOf(sent[i].line) = "POST" => served[i].body = sent[i].body

\* A request is refused only for what it is: an unknown name or method, or a POST
\* without its length.
Refusable(r) ==
    \/ r.line \notin {"GET page", "POST form"}
    \/ r.line = "POST form" /\ Length \notin DOMAIN FieldMap(r)
OnlyBadRefused == status = "error" => Refusable(sent[Len(sent)])

\* The call that reads the last byte of a request answers or refuses it: the
\* server never waits for more than was sent.  Only a form that no handler knows
\* can be left without an answer (the missing return, RequestData.cpp:729).
CompleteIsServed ==
    rest = <<>> /\ status = "open" =>
       \/ Len(served) = Len(sent)
       \/ sent[Len(sent)].line = "POST none"
=============================================================================
