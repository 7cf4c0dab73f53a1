------------------------------- MODULE RestStore -------------------------------
(***************************************************************************)
(* The resources of myprj/restfulApp (RequestData.cpp): rest_uri, a static *)
(* map all workers use without a lock, and the files get.json, post.json,  *)
(* put.json and delete.json through which every answer passes.  A request  *)
(* has reached analysisRequest.  Nothing keeps two workers apart: a step is *)
(* one scan or one change of the map, or one use of the file, and another   *)
(* worker may come between any two.  What a race inside jsoncpp may do      *)
(* beyond that is left out; it only adds to what the violations show.       *)
(*                                                                         *)
(* An item is an id and one value for its other members.  The collection   *)
(* has texts for ids on the wire and numbers in memory.                    *)
(***************************************************************************)
EXTENDS Integers, Sequences, FiniteSets, TLC

CONSTANTS Worker, Value, None,
          IdText,     \* the ids clients write; every POST has one
          MaxId,      \* their largest number
          Careful     \* whether clients avoid what the program cannot do: delete
                      \* the last item, or change anything beside another request

\* What stands alone in the path, or is no member of the form, is written NoText.
NoText == "none"

ASSUME RestAssumption ==
    /\ MaxId \in Nat \ {0} /\ Careful \in BOOLEAN
    /\ None \notin Value /\ NoText \notin IdText

\* Numbers print differently, and clients write ids as numbers are printed.
ASSUME TextAssumption ==
    /\ \A m, n \in 0..MaxId : ToString(m) = ToString(n) => m = n
    /\ \A text \in IdText : \E n \in 0..MaxId : ToString(n) = text

VARIABLES rest_uri,   \* per name: a JSON value
          file,       \* per method: the worker whose pending answer its file holds
          pc, req,    \* per worker: where it is, and its request
          next        \* per worker: the array DELETE builds

vars == <<rest_uri, file, pc, req, next>>

\* JSON values
Null         == [type |-> "null"]
Object(v)    == [type |-> "object", value |-> v]
Array(items) == [type |-> "array", items |-> items]

Uri == {"posts", "profile"}

Methods == {"GET", "POST", "PUT", "DELETE"}
After == IdText \cup {NoText}
Requests ==
    [method : {"GET", "DELETE"}, uri : Uri, after : After, id : {NoText}, value : {None}]
    \cup [method : {"PUT"}, uri : Uri, after : After, id : {NoText}, value : Value]
    \cup [method : {"POST"}, uri : Uri, after : After, id : IdText, value : Value]
Idle == [method |-> "none", uri |-> "posts", after |-> NoText, id |-> NoText, value |-> None]

Init ==
    /\ \E v \in Value :
          rest_uri = [u \in Uri |-> IF u = "posts" THEN Array(<<[id |-> 1, value |-> v]>>)
                                    ELSE Object(v)]
    /\ file = [m \in Methods |-> None]
    /\ pc = [w \in Worker |-> "idle"] /\ req = [w \in Worker |-> Idle]
    /\ next = [w \in Worker |-> Null]

-----------------------------------------------------------------------------

atoi(text) == CHOOSE n \in 0..MaxId : ToString(n) = text

\* The member id, printed, is this text.
HasId(i, text) == ToString(i.id) = text

Matches(items, text) == {k \in 1..Len(items) : HasId(items[k], text)}

Goto(w, label) == pc' = [pc EXCEPT ![w] = label]

\* realFile = "": the common part finds no file and answers 404.
Refuse(w) == Goto(w, "idle") /\ req' = [req EXCEPT ![w] = Idle]

Answer(w) == Goto(w, "open") /\ UNCHANGED req

Busy == {w \in Worker : pc[w] # "idle"}
MayRun(r) ==
    /\ \A w \in Busy : r.method = "GET" /\ req[w].method = "GET"
    /\ r.method = "DELETE" /\ r.uri = "posts" => Len(rest_uri["posts"].items) > 1

Begin(w, r) ==
    /\ pc[w] = "idle"
    /\ Careful => MayRun(r)
    /\ Goto(w, "map")
    /\ req' = [req EXCEPT ![w] = r]
    /\ UNCHANGED <<rest_uri, file, next>>

-----------------------------------------------------------------------------
(* analysisGetRequest works on a copy: all of it, or the item that is named. *)

Get(w) ==
    LET r == req[w]  root == rest_uri[r.uri] IN
    /\ pc[w] = "map" /\ r.method = "GET"
    /\ IF \/ r.after = NoText \/ root.type = "null"
          \/ root.type = "array" /\ Matches(root.items, r.after) # {}
       THEN Answer(w) ELSE Refuse(w)
    /\ UNCHANGED <<rest_uri, file, next>>

\* analysisPostRequest works on the map itself: it compares the ids ...
Taken_Never(items, r) == FALSE
Taken(items, r) == Matches(items, r.id) # {}

Scan(w) ==
    LET r == req[w]  root == rest_uri[r.uri] IN
    /\ pc[w] = "map" /\ r.method = "POST"
    /\ IF r.after # NoText \/ (root.type = "array" /\ Taken(root.items, r))
       THEN Refuse(w)
       ELSE Goto(w, "append") /\ UNCHANGED req
    /\ UNCHANGED <<rest_uri, file, next>>

\* ... and appends the item, or replaces an object.  Null takes nothing.
PostedId_Counts(items, r) == Len(items)
PostedId(items, r) == atoi(r.id)

Post(w) ==
    LET r == req[w]  root == rest_uri[r.uri] IN
    /\ pc[w] = "append"
    /\ Answer(w)
    /\ rest_uri' = [rest_uri EXCEPT ![r.uri] =
          CASE root.type = "object" -> Object(r.value)
            [] root.type = "array" ->
                 Array(Append(root.items, [id |-> PostedId(root.items, r),
                                           value |-> r.value]))
            [] OTHER -> root]
    /\ UNCHANGED <<file, next>>

\* analysisPutRequest: every item with the id, in place, or the object when the
\* name stands alone.  What is neither is answered with null.
Updated_All(items, r) == [k \in 1..Len(items) |-> [items[k] EXCEPT !.value = r.value]]
Updated(items, r) ==
    [k \in 1..Len(items) |-> IF k \in Matches(items, r.after)
                             THEN [items[k] EXCEPT !.value = r.value] ELSE items[k]]

Put(w) ==
    LET r == req[w]
        root == rest_uri[r.uri]
        object == root.type = "object" /\ r.after = NoText
        item   == root.type = "array" /\ r.after # NoText
        found  == item /\ Matches(root.items, r.after) # {}
    IN
    /\ pc[w] = "map" /\ r.method = "PUT"
    /\ \/ /\ object \/ found
          /\ rest_uri' = [rest_uri EXCEPT ![r.uri] =
                IF object THEN Object(r.value) ELSE Array(Updated(root.items, r))]
          /\ Answer(w)
       \/ item /\ ~found /\ Refuse(w) /\ UNCHANGED rest_uri
       \/ ~object /\ ~item /\ Answer(w) /\ UNCHANGED rest_uri
    /\ UNCHANGED <<file, next>>

\* analysisDeleteRequest builds a new array from a copy of the old, without the
\* item; the others keep their order.  One that stays empty is no array.
Remaining(items, text) ==
    LET kept  == {k \in 1..Len(items) : ~HasId(items[k], text)}
        last  == Cardinality(kept)
        order == CHOOSE f \in [1..last -> kept] :
                    \A i, j \in 1..last : i < j => f[i] < f[j]
    IN  [i \in 1..last |-> items[order[i]]]

Copy(w) ==
    LET r == req[w]  root == rest_uri[r.uri] IN
    /\ pc[w] = "map" /\ r.method = "DELETE"
    /\ IF root.type = "array" /\ r.after # NoText /\ Matches(root.items, r.after) # {}
       THEN /\ Goto(w, "store") /\ UNCHANGED req
            /\ next' = [next EXCEPT ![w] =
                  LET left == Remaining(root.items, r.after)
                  IN IF left = <<>> THEN Null ELSE Array(left)]
       ELSE Refuse(w) /\ UNCHANGED next
    /\ UNCHANGED <<rest_uri, file>>

\* ... and puts it in the old one's place.
Store(w) ==
    /\ pc[w] = "store"
    /\ rest_uri' = [rest_uri EXCEPT ![req[w].uri] = next[w]]
    /\ next' = [next EXCEPT ![w] = Null]
    /\ Goto(w, "open")
    /\ UNCHANGED <<file, req>>

-----------------------------------------------------------------------------
(* The answer goes through the method's file: truncated, written and closed,*)
(* then mapped.                                                             *)

OpenFile(w) ==
    /\ pc[w] = "open" /\ Goto(w, "write")
    /\ file' = [file EXCEPT ![req[w].method] = None]
    /\ UNCHANGED <<rest_uri, req, next>>

WriteFile(w) ==
    /\ pc[w] = "write" /\ Goto(w, "reply")
    /\ file' = [file EXCEPT ![req[w].method] = w]
    /\ UNCHANGED <<rest_uri, req, next>>

\* The common part of analysisRequest: stat, mmap, outBuffer.  What stays in the
\* file answers nobody any more.
Reply(w) ==
    /\ pc[w] = "reply" /\ Goto(w, "idle")
    /\ req' = [req EXCEPT ![w] = Idle]
    /\ file' = [m \in Methods |-> IF file[m] = w THEN None ELSE file[m]]
    /\ UNCHANGED <<rest_uri, next>>

Next ==
    \E w \in Worker :
        \/ \E r \in Requests : Begin(w, r)
        \/ Get(w) \/ Scan(w) \/ Post(w) \/ Put(w) \/ Copy(w) \/ Store(w)
        \/ OpenFile(w) \/ WriteFile(w) \/ Reply(w)

Spec == Init /\ [][Next]_vars

-----------------------------------------------------------------------------

Item == [id : 0..MaxId, value : Value]
IsResource(v) ==
    \/ v = Null
    \/ v \in {Object(x) : x \in Value}
    \/ v.type = "array" /\ v.items \in Seq(Item)

TypeOK ==
    /\ \A u \in Uri : IsResource(rest_uri[u])
    /\ pc \in [Worker -> {"idle", "map", "append", "store", "open", "write", "reply"}]
    /\ \A w \in Worker : req[w] \in Requests \cup {Idle} /\ IsResource(next[w])
    /\ file \in [Methods -> Worker \cup {None}]

Items == IF rest_uri["posts"].type = "array" THEN rest_uri["posts"].items ELSE <<>>

\* No id is in the collection twice: "what exists cannot be posted"
\* (RequestData.cpp:665).
UniqueIds ==
    \A j, k \in 1..Len(Items) : Items[j].id = Items[k].id => j = k

\* A POST that is not refused has put its item into the collection
\* (RequestData.cpp:712).
PostedIsThere ==
    [][\A w \in Worker :
          pc[w] = "append" /\ pc'[w] = "open"
             /\ req[w].uri = "posts"
          => \E k \in 1..Len(Items') : /\ Items'[k].id = atoi(req[w].id)
                                       /\ Items'[k].value = req[w].value]_vars

\* The file a worker is about to answer from holds what it wrote itself, not
\* the answer to somebody else's request, nor a part of one.
ReplyIsOwn ==
    \A w \in Worker : pc[w] = "reply" => file[req[w].method] = w

\* What a collection with these items holds under each id.
Held(items) ==
    [n \in 0..MaxId |->
        LET places == {k \in 1..Len(items) : items[k].id = n}
        IN  IF places = {} THEN None ELSE items[CHOOSE k \in places : TRUE].value]

Collection == INSTANCE RestCollection WITH Id <- 0..MaxId, item <- Held(Items)

\* Every request is one operation on one item, as a client of the collection sees
\* it: nothing else is lost or changed, and an item goes only by its DELETE
\* (the list of verbs, RequestData.cpp:643-650).
ImplementsCollection == Collection!Spec
=============================================================================
