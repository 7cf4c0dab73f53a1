------------------------------ MODULE RestProofs ------------------------------
(***************************************************************************)
(* For any number of workers, ids, values and messages: while clients are   *)
(* careful, the collection keeps its ids apart, every request is one        *)
(* operation on one of its items, and a connection asks for what its client *)
(* sent.  StoreInv is what a worker that has looked at the collection may    *)
(* rely on before it changes it; FrontInv says of every connection how far  *)
(* the request that is asked has come.                                      *)
(***************************************************************************)
EXTENDS RestFront, FiniteSetTheorems, FunctionTheorems, SequenceTheorems, TLAPS

\* No two items have one id.
Unique(items) == \A j, k \in 1..Len(items) : items[j].id = items[k].id => j = k

Resources ==
    /\ DOMAIN rest_uri = Uri
    /\ rest_uri["posts"] = Array(Items)
    /\ Items \in Seq(Item) /\ Unique(Items)
    /\ \E v \in Value : rest_uri["profile"] = Object(v)

Variables ==
    /\ pc \in [Worker -> {"idle", "map", "append", "store", "open", "write", "reply"}]
    /\ DOMAIN req = Worker /\ DOMAIN next = Worker
    /\ file \in [Methods -> Worker \cup {None}]

\* What a worker has seen of the collection before the step it is about to take.
AtMap(w) ==
    pc[w] = "map" /\ req[w].method = "DELETE" /\ req[w].uri = "posts" => Len(Items) > 1
AtAppend(w) ==
    pc[w] = "append" =>
        /\ req[w].method = "POST" /\ req[w].after = NoText
        /\ req[w].uri = "posts" => Matches(Items, req[w].id) = {}
AtStore(w) ==
    pc[w] = "store" =>
        /\ req[w].method = "DELETE" /\ req[w].uri = "posts" /\ Len(Items) > 1
        /\ req[w].after \in IdText /\ Matches(Items, req[w].after) # {}
        /\ next[w] = Array(Remaining(Items, req[w].after))

Working(w) ==
    /\ IF pc[w] = "idle" THEN req[w] = Idle ELSE req[w] \in Requests
    /\ AtMap(w) /\ AtAppend(w) /\ AtStore(w)

\* Who changes the resources is alone with them.
Alone == \A v, w \in Busy : v # w => req[v].method = "GET"

StoreInv == Resources /\ Variables /\ Alone /\ \A w \in Worker : Working(w)

-----------------------------------------------------------------------------

USE RestAssumption

LEMMA Numbers ==
    ASSUME NEW text \in IdText
    PROVE  /\ atoi(text) \in 0..MaxId
           /\ \A n \in 0..MaxId : ToString(n) = text <=> n = atoi(text)
  <1>1. atoi(text) \in 0..MaxId /\ ToString(atoi(text)) = text
    BY TextAssumption DEF atoi
  <1> QED
    BY <1>1, TextAssumption

LEMMA Matching ==
    ASSUME NEW items \in Seq(Item), NEW text \in IdText
    PROVE  \A k \in 1..Len(items) :
              /\ k \in Matches(items, text) <=> items[k].id = atoi(text)
              /\ HasId(items[k], text) <=> items[k].id = atoi(text)
  <1> TAKE k \in 1..Len(items)
  <1>1. items[k] \in Item
    OBVIOUS
  <1>2. items[k].id \in 0..MaxId
    BY <1>1 DEF Item
  <1> QED
    BY <1>2, Numbers DEF Matches, HasId

Rises(f, n) == \A i, j \in 1..n : i < j => f[i] < f[j]

\* The n numbers in kept can be listed in their order, and such a list has them
\* all, each once.
Listed(kept, n) ==
    /\ Cardinality(kept) = n
    /\ \E f \in [1..n -> kept] : Rises(f, n)
    /\ \A f \in [1..n -> kept] :
          Rises(f, n) => /\ \A k \in kept : \E j \in 1..n : f[j] = k
                         /\ \A i, j \in 1..n : f[i] = f[j] => i = j

LEMMA WithoutOne ==
    ASSUME NEW n \in Nat, NEW m \in 1..n
    PROVE  Listed((1..n) \ {m}, n - 1)
  <1> DEFINE kept == (1..n) \ {m}
  <1>1. n - 1 \in Nat /\ 0 < n
    OBVIOUS
  <1>2. IsFiniteSet(1..n) /\ Cardinality(1..n) = n
    BY FS_Interval, <1>1
  <1>3. IsFiniteSet(kept) /\ Cardinality(kept) = n - 1
    BY <1>2, FS_RemoveElement, ZenonT(60)
  <1>4. \E f \in [1..(n - 1) -> kept] : Rises(f, n - 1)
    <2> DEFINE skip == [i \in 1..(n - 1) |-> IF i < m THEN i ELSE i + 1]
    <2>1. \A i \in 1..(n - 1) : (IF i < m THEN i ELSE i + 1) \in kept
      OBVIOUS
    <2>2. skip \in [1..(n - 1) -> kept]
      BY <2>1
    <2>3. Rises(skip, n - 1)
      BY DEF Rises
    <2> QED
      BY <2>2, <2>3
  <1>5. ASSUME NEW f \in [1..(n - 1) -> kept], Rises(f, n - 1)
        PROVE  /\ \A k \in kept : \E j \in 1..(n - 1) : f[j] = k
               /\ \A i, j \in 1..(n - 1) : f[i] = f[j] => i = j
    <2>1. \A i \in 1..(n - 1) : f[i] \in Int
      OBVIOUS
    <2>2. \A i, j \in 1..(n - 1) : f[i] = f[j] => i = j
      BY <1>5, <2>1 DEF Rises
    <2>3. f \in Injection(1..(n - 1), kept)
      BY <2>2 DEF Injection, IsInjective
    <2>4. IsFiniteSet(1..(n - 1)) /\ Cardinality(1..(n - 1)) = n - 1
      BY FS_Interval, <1>1
    <2>5. f \in Surjection(1..(n - 1), kept)
      BY <2>3, <2>4, <1>3, FS_Injection
    <2> QED
      BY <2>2, <2>5 DEF Surjection
  <1> QED
    BY <1>3, <1>4, <1>5 DEF Listed

\* DELETE leaves the items it does not name, each once and in their order.
LEMMA RemainingItems ==
    ASSUME NEW items \in Seq(Item), Unique(items), NEW text \in IdText,
           Matches(items, text) # {}
    PROVE  /\ Remaining(items, text) \in Seq(Item)
           /\ Len(Remaining(items, text)) = Len(items) - 1
           /\ Unique(Remaining(items, text))
           /\ \A j \in 1..Len(Remaining(items, text)) :
                 \E k \in 1..Len(items) : /\ items[k].id # atoi(text)
                                          /\ Remaining(items, text)[j] = items[k]
           /\ \A k \in 1..Len(items) : items[k].id # atoi(text) =>
                 \E j \in 1..Len(Remaining(items, text)) :
                    Remaining(items, text)[j] = items[k]
  <1> DEFINE n     == Len(items)
             kept  == {k \in 1..n : ~HasId(items[k], text)}
             order == CHOOSE f \in [1..Cardinality(kept) -> kept] :
                         \A i, j \in 1..Cardinality(kept) : i < j => f[i] < f[j]
             R     == Remaining(items, text)
  <1>1. n \in Nat /\ items \in [1..n -> Item]
    OBVIOUS
  <1>2. PICK m \in 1..n : items[m].id = atoi(text)
    BY Matching DEF Matches
  <1>3. kept = {k \in 1..n : items[k].id # atoi(text)}
    BY Matching
  <1>4. kept = (1..n) \ {m}
    BY <1>2, <1>3 DEF Unique
  <1>5. R = [i \in 1..Cardinality(kept) |-> items[order[i]]]
    BY DEF Remaining
  <1> HIDE DEF kept, n, R
  <1>6. Listed(kept, n - 1)
    BY <1>1, <1>4, WithoutOne
  <1>7. /\ order \in [1..(n - 1) -> kept] /\ Rises(order, n - 1)
    BY <1>6 DEF Listed, Rises
  <1> HIDE DEF order
  <1>8. /\ \A k \in kept : \E j \in 1..(n - 1) : order[j] = k
        /\ \A i, j \in 1..(n - 1) : order[i] = order[j] => i = j
    BY <1>6, <1>7 DEF Listed
  <1>9. \A i \in 1..(n - 1) : /\ order[i] \in 1..n /\ items[order[i]].id # atoi(text)
                              /\ R[i] = items[order[i]]
    BY <1>3, <1>5, <1>6, <1>7 DEF Listed
  <1>10. R \in Seq(Item) /\ Len(R) = n - 1
    <2>1. n - 1 \in Nat
      BY <1>1, <1>2
    <2>2. \A i \in 1..(n - 1) : items[order[i]] \in Item
      BY <1>1, <1>9
    <2> QED
      BY <2>1, <2>2, <1>5, <1>6 DEF Listed
  <1>11. Unique(R)
    <2> SUFFICES ASSUME NEW j \in 1..(n - 1), NEW k \in 1..(n - 1), R[j].id = R[k].id
                 PROVE  j = k
      BY <1>10 DEF Unique
    <2>1. order[j] \in 1..n /\ order[k] \in 1..n
      BY <1>9
    <2>2. items[order[j]].id = items[order[k]].id
      BY <1>9
    <2>3. order[j] = order[k]
      BY <2>1, <2>2, Zenon DEF Unique, n
    <2> QED
      BY <2>3, <1>8
  <1>12. \A k \in 1..n : items[k].id # atoi(text) => \E j \in 1..(n - 1) : R[j] = items[k]
    BY <1>3, <1>8, <1>9
  <1> QED
    BY <1>9, <1>10, <1>11, <1>12 DEF n, R

-----------------------------------------------------------------------------
(* The resources, for clients that are careful.                             *)

USE DEF Methods, Uri

\* What a step of w needs to keep the invariant for the others: it leaves the
\* resources alone, or w is alone with them.
LEMMA Elsewhere ==
    ASSUME StoreInv, NEW w \in Worker, pc[w] # "idle",
           Resources', Variables', Working(w)',
           \A v \in Worker \ {w} : pc'[v] = pc[v] /\ req'[v] = req[v] /\ next'[v] = next[v],
           pc'[w] = "idle" \/ req'[w] = req[w],
           rest_uri' = rest_uri \/ req[w].method # "GET"
    PROVE  StoreInv'
  <1>1. Alone'
    BY DEF StoreInv, Alone, Busy
  <1>2. ASSUME NEW v \in Worker, v # w PROVE Working(v)'
    <2>1. CASE rest_uri' = rest_uri
      <3>1. Items' = Items
        BY <2>1 DEF Items
      <3>2. Working(v)
        BY DEF StoreInv
      <3> QED
        BY <1>2, <3>1, <3>2 DEF Working, AtMap, AtAppend, AtStore
    <2>2. CASE req[w].method # "GET"
      <3>1. pc[v] = "idle"
        BY <1>2, <2>2 DEF StoreInv, Alone, Busy
      <3>2. Working(v)
        BY DEF StoreInv
      <3> QED
        BY <1>2, <3>1, <3>2 DEF Working, AtMap, AtAppend, AtStore
    <2> QED
      BY <2>1, <2>2
  <1> QED
    BY <1>1, <1>2 DEF StoreInv

LEMMA RequestType ==
    ASSUME NEW r \in Requests
    PROVE  /\ r.method \in Methods /\ r.uri \in Uri /\ r.after \in IdText \cup {NoText}
           /\ r.method = "POST" => r.id \in IdText
           /\ r.method \in {"POST", "PUT"} => r.value \in Value
  BY DEF Requests, After

LEMMA BeginKeeps ==
    ASSUME StoreInv, Careful, NEW w \in Worker, NEW r \in Requests, Begin(w, r)
    PROVE  StoreInv'
  <1>1. MayRun(r) /\ pc[w] = "idle"
    BY DEF Begin
  <1>2. /\ rest_uri' = rest_uri /\ file' = file /\ next' = next
        /\ pc' = [pc EXCEPT ![w] = "map"] /\ req' = [req EXCEPT ![w] = r]
    BY DEF Begin, Goto
  <1>3. Items' = Items
    BY <1>2 DEF Items
  <1>4. Resources'
    BY <1>2, <1>3 DEF StoreInv, Resources
  <1>5. Variables'
    BY <1>2 DEF StoreInv, Variables
  <1>6. \A v \in Worker : IF v = w THEN pc'[v] = "map" /\ req'[v] = r
                                   ELSE pc'[v] = pc[v] /\ req'[v] = req[v]
    BY <1>2 DEF StoreInv, Variables
  <1>7. Alone'
    BY <1>1, <1>6 DEF StoreInv, Alone, Busy, MayRun
  <1>8. Working(w)'
    <2>1. r.method = "DELETE" /\ r.uri = "posts" => Len(Items) > 1
      BY <1>1 DEF MayRun, StoreInv, Resources, Array
    <2> QED
      BY <1>3, <1>6, <2>1 DEF Working, AtMap, AtAppend, AtStore
  <1>9. ASSUME NEW v \in Worker, v # w PROVE Working(v)'
    <2>1. Working(v)
      BY DEF StoreInv
    <2> QED
      BY <1>2, <1>3, <1>6, <1>9, <2>1 DEF Working, AtMap, AtAppend, AtStore
  <1> QED
    BY <1>4, <1>5, <1>7, <1>8, <1>9 DEF StoreInv

\* The steps that leave the resources alone.
LEMMA LooksKeep ==
    ASSUME StoreInv, NEW w \in Worker,
           Get(w) \/ Scan(w) \/ Copy(w) \/ OpenFile(w) \/ WriteFile(w) \/ Reply(w)
    PROVE  StoreInv'
  <1>1. rest_uri' = rest_uri /\ pc[w] # "idle"
    BY DEF Get, Scan, Copy, OpenFile, WriteFile, Reply
  <1>2. Items' = Items
    BY <1>1 DEF Items
  <1>3. Resources'
    BY <1>1, <1>2 DEF StoreInv, Resources
  <1>4. Working(w) /\ req[w] \in Requests
    BY <1>1 DEF StoreInv, Working
  <1>5. /\ DOMAIN pc = Worker /\ DOMAIN req = Worker /\ DOMAIN next = Worker
        /\ file \in [Methods -> Worker \cup {None}] /\ req[w].method \in Methods
    BY <1>4, RequestType DEF StoreInv, Variables
  <1>6. Variables'
    BY <1>1, <1>5 DEF Get, Scan, Copy, OpenFile, WriteFile, Reply, Answer, Refuse, Goto,
                      StoreInv, Variables
  <1>7. /\ \A v \in Worker \ {w} : pc'[v] = pc[v] /\ req'[v] = req[v] /\ next'[v] = next[v]
        /\ pc'[w] = "idle" \/ req'[w] = req[w]
    BY <1>5 DEF Get, Scan, Copy, OpenFile, WriteFile, Reply, Answer, Refuse, Goto
  <1>8. Working(w)'
    <2>1. CASE Get(w) \/ OpenFile(w) \/ WriteFile(w) \/ Reply(w)
      <3>1. \/ pc'[w] \in {"open", "write", "reply"} /\ req'[w] = req[w]
            \/ pc'[w] = "idle" /\ req'[w] = Idle
        BY <2>1, <1>5 DEF Get, OpenFile, WriteFile, Reply, Answer, Refuse, Goto
      <3> QED
        BY <3>1, <1>4 DEF Working, AtMap, AtAppend, AtStore
    <2>2. CASE Scan(w)
      <3>1. \/ /\ pc'[w] = "append" /\ req'[w] = req[w]
               /\ req[w].method = "POST" /\ req[w].after = NoText
               /\ ~(rest_uri[req[w].uri].type = "array"
                      /\ Taken(rest_uri[req[w].uri].items, req[w]))
            \/ pc'[w] = "idle" /\ req'[w] = Idle
        BY <2>2, <1>5 DEF Scan, Refuse, Goto
      <3>2. rest_uri["posts"].type = "array" /\ rest_uri["posts"].items = Items
        BY DEF StoreInv, Resources, Array
      <3> QED
        BY <3>1, <3>2, <1>2, <1>4 DEF Working, AtMap, AtAppend, AtStore, Taken
    <2>3. CASE Copy(w)
      <3>1. \/ /\ pc'[w] = "store" /\ req'[w] = req[w] /\ req[w].method = "DELETE"
               /\ rest_uri[req[w].uri].type = "array"
               /\ req[w].after # NoText
               /\ Matches(rest_uri[req[w].uri].items, req[w].after) # {}
               /\ next'[w] = LET left == Remaining(rest_uri[req[w].uri].items, req[w].after)
                             IN IF left = <<>> THEN Null ELSE Array(left)
               /\ pc[w] = "map"
            \/ pc'[w] = "idle" /\ req'[w] = Idle
        BY <2>3, <1>5 DEF Copy, Refuse, Goto
      <3>2. CASE pc'[w] = "idle" /\ req'[w] = Idle
        BY <3>2 DEF Working, AtMap, AtAppend, AtStore
      <3>3. CASE pc'[w] # "idle"
        <4> DEFINE left == Remaining(Items, req[w].after)
        <4>1. req[w].uri = "posts"
          <5>1. rest_uri["profile"].type = "object"
            BY DEF StoreInv, Resources, Object
          <5> QED
            BY <3>1, <3>3, <1>4, <5>1, RequestType
        <4>2. rest_uri["posts"].items = Items
          BY DEF StoreInv, Resources, Array
        <4>3. Len(Items) > 1
          BY <1>4, <3>1, <3>3, <4>1 DEF Working, AtMap
        <4>4. req[w].after \in IdText
          BY <3>1, <3>3, <1>4, RequestType
        <4>5. left # <<>>
          <5>1. left \in Seq(Item) /\ Len(left) = Len(Items) - 1
            BY <3>1, <3>3, <4>1, <4>2, <4>4, RemainingItems DEF StoreInv, Resources
          <5> QED
            BY <5>1, <4>3
        <4>6. next'[w] = Array(left)
          BY <3>1, <3>3, <4>1, <4>2, <4>5
        <4> HIDE DEF left
        <4> QED
          BY <3>1, <3>3, <4>1, <4>2, <4>3, <4>4, <4>6, <1>2, <1>4
             DEF left, Working, AtMap, AtAppend, AtStore
      <3> QED
        BY <3>1, <3>2, <3>3
    <2> QED
      BY <2>1, <2>2, <2>3
  <1> QED
    BY <1>1, <1>3, <1>6, <1>7, <1>8, Elsewhere

\* What is in the two resources, field by field.
LEMMA ResourceFields ==
    ASSUME StoreInv
    PROVE  /\ rest_uri["posts"].type = "array" /\ rest_uri["posts"].items = Items
           /\ rest_uri["profile"].type = "object"
           /\ DOMAIN rest_uri = {"posts", "profile"}
           /\ Items \in Seq(Item) /\ Unique(Items)
  BY DEF StoreInv, Resources, Array, Object

LEMMA NewItems ==
    ASSUME StoreInv, NEW items \in Seq(Item), Unique(items),
           rest_uri' = [rest_uri EXCEPT !["posts"] = Array(items)]
    PROVE  Resources' /\ Items' = items
  <1>1. rest_uri'["posts"] = Array(items) /\ DOMAIN rest_uri' = {"posts", "profile"}
    BY ResourceFields
  <1>2. Items' = items
    BY <1>1 DEF Items, Array
  <1>3. rest_uri'["profile"] = rest_uri["profile"]
    BY ResourceFields
  <1> QED
    BY <1>1, <1>2, <1>3 DEF Resources, StoreInv

LEMMA NewProfile ==
    ASSUME StoreInv, NEW v \in Value,
           rest_uri' = [rest_uri EXCEPT !["profile"] = Object(v)]
    PROVE  Resources' /\ Items' = Items
  <1>1. rest_uri'["posts"] = rest_uri["posts"] /\ DOMAIN rest_uri' = {"posts", "profile"}
    BY ResourceFields
  <1>2. Items' = Items
    BY <1>1 DEF Items
  <1>3. rest_uri'["profile"] = Object(v)
    BY ResourceFields
  <1> QED
    BY <1>1, <1>2, <1>3 DEF Resources, StoreInv

\* What Post does: a new item at the end of the collection, or a new object.
LEMMA PostStep ==
    ASSUME StoreInv, NEW w \in Worker, Post(w)
    PROVE  LET r == req[w]
               new == [id |-> atoi(r.id), value |-> r.value] IN
           /\ r \in Requests /\ r.method = "POST" /\ r.value \in Value /\ r.id \in IdText
           /\ \/ /\ r.uri = "posts" /\ new \in Item /\ Items' = Append(Items, new)
                 /\ \A k \in 1..Len(Items) : Items[k].id # new.id
              \/ r.uri = "profile" /\ Items' = Items
           /\ Resources'
  <1> DEFINE r   == req[w]
             new == [id |-> atoi(r.id), value |-> r.value]
  <1>1. /\ r \in Requests /\ r.method = "POST"
        /\ r.uri = "posts" => Matches(Items, r.id) = {}
    BY DEF Post, StoreInv, Working, AtAppend
  <1>2. r.value \in Value /\ r.id \in IdText /\ r.uri \in {"posts", "profile"}
    BY <1>1, RequestType
  <1>3. new \in Item /\ new.id = atoi(r.id)
    BY <1>2, Numbers DEF Item
  <1>4. CASE r.uri = "posts"
    <2>1. rest_uri' = [rest_uri EXCEPT !["posts"] = Array(Append(Items, new))]
      BY <1>4, ResourceFields DEF Post, PostedId
    <2>2. \A k \in 1..Len(Items) : Items[k].id # new.id
      BY <1>1, <1>2, <1>3, <1>4, Matching, ResourceFields
    <2> HIDE DEF new
    <2>3. Append(Items, new) \in Seq(Item)
      BY <1>3, ResourceFields
    <2>4. Unique(Append(Items, new))
      <3>1. Len(Append(Items, new)) = Len(Items) + 1 /\ Len(Items) \in Nat
        BY ResourceFields
      <3>2. \A k \in 1..(Len(Items) + 1) :
               Append(Items, new)[k] = IF k = Len(Items) + 1 THEN new ELSE Items[k]
        BY ResourceFields
      <3>3. \A k \in 1..(Len(Items) + 1) : k = Len(Items) + 1 \/ k \in 1..Len(Items)
        BY <3>1
      <3> QED
        BY <2>2, <3>1, <3>2, <3>3, ResourceFields DEF Unique
    <2> QED
      BY <1>1, <1>2, <1>3, <1>4, <2>1, <2>2, <2>3, <2>4, NewItems DEF new
  <1>5. CASE r.uri = "profile"
    <2>1. rest_uri' = [rest_uri EXCEPT !["profile"] = Object(r.value)]
      BY <1>5, ResourceFields DEF Post
    <2> QED
      BY <1>1, <1>2, <1>5, <2>1, NewProfile
  <1> QED
    BY <1>2, <1>4, <1>5

\* What Put does: a new value for the one item it names, or a new object, or
\* nothing.
LEMMA PutStep ==
    ASSUME StoreInv, NEW w \in Worker, Put(w)
    PROVE  LET r == req[w] IN
           /\ r \in Requests /\ r.method = "PUT" /\ r.value \in Value
           /\ \/ /\ r.uri = "posts" /\ r.after \in IdText
                 /\ Matches(Items, r.after) # {} /\ Items' = Updated(Items, r)
              \/ Items' = Items
           /\ Resources'
  <1> DEFINE r == req[w]
  <1>1. r \in Requests /\ r.method = "PUT"
    BY DEF Put, StoreInv, Working
  <1>2. r.value \in Value /\ r.uri \in {"posts", "profile"} /\ r.after \in IdText \cup {NoText}
    BY <1>1, RequestType
  <1>3. CASE rest_uri' = rest_uri
    BY <1>1, <1>2, <1>3 DEF StoreInv, Resources, Items
  <1>4. CASE /\ r.uri = "posts" /\ r.after \in IdText /\ Matches(Items, r.after) # {}
             /\ rest_uri' = [rest_uri EXCEPT !["posts"] = Array(Updated(Items, r))]
    <2>1. Items \in Seq(Item) /\ Unique(Items)
      BY ResourceFields
    <2>2. \A k \in 1..Len(Items) : Items[k] \in Item
      BY <2>1
    <2>3. \A k \in 1..Len(Items) : /\ [Items[k] EXCEPT !.value = r.value] \in Item
                                   /\ [Items[k] EXCEPT !.value = r.value].id = Items[k].id
      BY <1>2, <2>2 DEF Item
    <2>4. Updated(Items, r) \in Seq(Item) /\ Len(Updated(Items, r)) = Len(Items)
      BY <2>1, <2>2, <2>3 DEF Updated
    <2>5. \A k \in 1..Len(Items) : Updated(Items, r)[k].id = Items[k].id
      BY <2>3 DEF Updated
    <2>6. Unique(Updated(Items, r))
      BY <2>1, <2>4, <2>5 DEF Unique
    <2> QED
      BY <1>1, <1>2, <1>4, <2>4, <2>6, NewItems
  <1>5. CASE /\ r.uri = "profile"
             /\ rest_uri' = [rest_uri EXCEPT !["profile"] = Object(r.value)]
    BY <1>1, <1>2, <1>5, NewProfile
  <1>6. \/ rest_uri' = rest_uri
        \/ /\ r.uri = "profile"
           /\ rest_uri' = [rest_uri EXCEPT !["profile"] = Object(r.value)]
        \/ /\ r.uri = "posts" /\ r.after \in IdText /\ Matches(Items, r.after) # {}
           /\ rest_uri' = [rest_uri EXCEPT !["posts"] = Array(Updated(Items, r))]
    BY <1>2, ResourceFields DEF Put
  <1> QED
    BY <1>3, <1>4, <1>5, <1>6

\* What Store does: the collection without the item that is named.
LEMMA StoreStep ==
    ASSUME StoreInv, NEW w \in Worker, Store(w)
    PROVE  LET r == req[w] IN
           /\ r \in Requests /\ r.method = "DELETE" /\ r.after \in IdText
           /\ Matches(Items, r.after) # {} /\ Items' = Remaining(Items, r.after)
           /\ Resources'
  <1> DEFINE r == req[w]
  <1>1. /\ r \in Requests /\ r.method = "DELETE" /\ r.uri = "posts" /\ r.after \in IdText
        /\ Matches(Items, r.after) # {}
        /\ next[w] = Array(Remaining(Items, r.after))
    BY DEF Store, StoreInv, Working, AtStore
  <1>2. Remaining(Items, r.after) \in Seq(Item) /\ Unique(Remaining(Items, r.after))
    BY <1>1, RemainingItems, ResourceFields
  <1>3. rest_uri' = [rest_uri EXCEPT !["posts"] = Array(Remaining(Items, r.after))]
    BY <1>1 DEF Store
  <1> QED
    BY <1>1, <1>2, <1>3, NewItems

LEMMA ChangesKeep ==
    ASSUME StoreInv, NEW w \in Worker, Post(w) \/ Put(w) \/ Store(w)
    PROVE  StoreInv'
  <1>1. Resources' /\ req[w].method # "GET"
    BY PostStep, PutStep, StoreStep
  <1>2. pc[w] # "idle" /\ file' = file
    BY DEF Post, Put, Store
  <1>3. DOMAIN pc = Worker /\ DOMAIN req = Worker /\ DOMAIN next = Worker
    BY DEF StoreInv, Variables
  <1>4. /\ \/ pc'[w] = "idle" /\ req'[w] = Idle
           \/ pc'[w] = "open" /\ req'[w] = req[w]
        /\ \A v \in Worker \ {w} : pc'[v] = pc[v] /\ req'[v] = req[v] /\ next'[v] = next[v]
    <2>1. \/ pc' = [pc EXCEPT ![w] = "open"] /\ req' = req
          \/ pc' = [pc EXCEPT ![w] = "idle"] /\ req' = [req EXCEPT ![w] = Idle]
      BY DEF Post, Put, Store, Answer, Refuse, Goto
    <2>2. next' = next \/ next' = [next EXCEPT ![w] = Null]
      BY DEF Post, Put, Store
    <2> QED
      BY <1>3, <2>1, <2>2
  <1>5. Variables'
    BY <1>2, <1>3 DEF Post, Put, Store, Answer, Refuse, Goto, StoreInv, Variables
  <1>6. req[w] \in Requests
    BY <1>2 DEF StoreInv, Working
  <1>7. Working(w)'
    BY <1>4, <1>6 DEF Working, AtMap, AtAppend, AtStore
  <1> QED
    BY <1>1, <1>2, <1>4, <1>5, <1>7, Elsewhere

LEMMA StoreInit ==
    ASSUME Init
    PROVE  StoreInv
  <1>1. PICK v \in Value :
           rest_uri = [u \in Uri |-> IF u = "posts" THEN Array(<<[id |-> 1, value |-> v]>>)
                                     ELSE Object(v)]
    BY DEF Init
  <1> DEFINE first == [id |-> 1, value |-> v]
  <1>2. first \in Item
    BY DEF Item
  <1> HIDE DEF first
  <1>3. rest_uri["posts"] = Array(<<first>>) /\ rest_uri["profile"] = Object(v)
    BY <1>1 DEF first
  <1>4. Items = <<first>>
    BY <1>3 DEF Items, Array
  <1>5. Items \in Seq(Item) /\ Unique(Items)
    BY <1>2, <1>4 DEF Unique
  <1>6. Resources
    BY <1>1, <1>3, <1>4, <1>5 DEF Resources
  <1>7. Variables /\ \A w \in Worker : pc[w] = "idle" /\ req[w] = Idle
    BY DEF Init, Variables
  <1> QED
    BY <1>6, <1>7 DEF StoreInv, Alone, Busy, Working, AtMap, AtAppend, AtStore

LEMMA StoreKeeps ==
    ASSUME StoreInv, Careful, [Next]_vars
    PROVE  StoreInv'
  <1>1. CASE UNCHANGED vars
    BY <1>1 DEF vars, StoreInv, Resources, Items, Variables, Alone, Busy, Working, AtMap,
                AtAppend, AtStore
  <1>2. CASE Next
    BY <1>2, BeginKeeps, LooksKeep, ChangesKeep DEF Next
  <1> QED
    BY <1>1, <1>2

-----------------------------------------------------------------------------
(* The resources implement a collection.                                    *)

LEMMA HeldAt ==
    ASSUME NEW items \in Seq(Item), Unique(items)
    PROVE  /\ Held(items) = [n \in 0..MaxId |-> Held(items)[n]]
           /\ \A k \in 1..Len(items) : /\ items[k].id \in 0..MaxId
                                       /\ items[k].value \in Value
                                       /\ Held(items)[items[k].id] = items[k].value
           /\ \A n \in 0..MaxId :
                 (\A k \in 1..Len(items) : items[k].id # n) => Held(items)[n] = None
  <1>1. Held(items) = [n \in 0..MaxId |-> Held(items)[n]]
    BY DEF Held
  <1>2. ASSUME NEW k \in 1..Len(items)
        PROVE  /\ items[k].id \in 0..MaxId /\ items[k].value \in Value
               /\ Held(items)[items[k].id] = items[k].value
    <2>1. items[k] \in Item
      OBVIOUS
    <2>2. items[k].id \in 0..MaxId /\ items[k].value \in Value
      BY <2>1 DEF Item
    <2>3. {j \in 1..Len(items) : items[j].id = items[k].id} = {k}
      BY DEF Unique
    <2> QED
      BY <2>2, <2>3 DEF Held
  <1>3. ASSUME NEW n \in 0..MaxId, \A k \in 1..Len(items) : items[k].id # n
        PROVE  Held(items)[n] = None
    <2>1. {j \in 1..Len(items) : items[j].id = n} = {}
      BY <1>3
    <2> QED
      BY <2>1 DEF Held
  <1> QED
    BY <1>1, <1>2, <1>3

\* The same items but for the one with id n.
SameBut(old, new, n) ==
    /\ \A k \in 1..Len(old) : old[k].id # n => \E j \in 1..Len(new) : new[j] = old[k]
    /\ \A j \in 1..Len(new) : new[j].id # n => \E k \in 1..Len(old) : old[k] = new[j]

LEMMA HeldBecomes ==
    ASSUME NEW old \in Seq(Item), Unique(old), NEW new \in Seq(Item), Unique(new),
           NEW n \in 0..MaxId, NEW x,
           Held(new)[n] = x, SameBut(old, new, n)
    PROVE  Held(new) = [Held(old) EXCEPT ![n] = x]
  <1>1. ASSUME NEW i \in 0..MaxId, i # n PROVE Held(new)[i] = Held(old)[i]
    <2>1. CASE \E k \in 1..Len(old) : old[k].id = i
      <3>1. PICK k \in 1..Len(old) : old[k].id = i
        BY <2>1
      <3>2. PICK j \in 1..Len(new) : new[j] = old[k]
        BY <1>1, <3>1 DEF SameBut
      <3>3. Held(old)[i] = old[k].value
        BY <3>1, HeldAt
      <3>4. Held(new)[i] = new[j].value
        BY <3>1, <3>2, HeldAt
      <3> QED
        BY <3>2, <3>3, <3>4
    <2>2. CASE \A k \in 1..Len(old) : old[k].id # i
      <3>1. \A j \in 1..Len(new) : new[j].id # i
        BY <1>1, <2>2 DEF SameBut
      <3>2. Held(old)[i] = None
        BY <2>2, HeldAt
      <3>3. Held(new)[i] = None
        BY <3>1, HeldAt
      <3> QED
        BY <3>2, <3>3
    <2> QED
      BY <2>1, <2>2
  <1>2. Held(new) = [i \in 0..MaxId |-> Held(new)[i]]
        /\ Held(old) = [i \in 0..MaxId |-> Held(old)[i]]
    BY HeldAt
  <1> HIDE DEF Held
  <1>3. [Held(old) EXCEPT ![n] = x] = [i \in 0..MaxId |-> IF i = n THEN x ELSE Held(old)[i]]
    BY <1>2
  <1> QED
    BY <1>1, <1>2, <1>3

LEMMA PostCreates ==
    ASSUME StoreInv, NEW w \in Worker, Post(w)
    PROVE  [Collection!Next]_(Held(Items))
  <1> DEFINE r   == req[w]
             new == [id |-> atoi(r.id), value |-> r.value]
  <1>1. CASE Items' = Items
    BY <1>1
  <1>2. CASE /\ r.uri = "posts" /\ new \in Item /\ Items' = Append(Items, new)
             /\ \A k \in 1..Len(Items) : Items[k].id # new.id
    <2>1. /\ Items \in Seq(Item) /\ Unique(Items) /\ Items' \in Seq(Item) /\ Unique(Items')
      BY <1>2, ResourceFields, PostStep DEF Resources
    <2>2. new.id \in 0..MaxId /\ new.value \in Value
      BY <1>2 DEF Item
    <2> HIDE DEF new
    <2>3. /\ Len(Items') = Len(Items) + 1 /\ Len(Items) \in Nat
          /\ \A k \in 1..(Len(Items) + 1) :
                Items'[k] = IF k = Len(Items) + 1 THEN new ELSE Items[k]
      BY <1>2, <2>1
    <2>4. Held(Items)[new.id] = None
      BY <1>2, <2>1, <2>2, HeldAt
    <2>5. Held(Items')[new.id] = new.value
      <3>1. Len(Items) + 1 \in 1..Len(Items') /\ Items'[Len(Items) + 1] = new
        BY <2>3
      <3> QED
        BY <2>1, <3>1, HeldAt
    <2>6. Held(Items') = [Held(Items) EXCEPT ![new.id] = new.value]
      <3>1. \A k \in 1..Len(Items) : k \in 1..Len(Items') /\ Items'[k] = Items[k]
        BY <2>3
      <3>2. \A j \in 1..Len(Items') : Items'[j].id # new.id =>
               j \in 1..Len(Items) /\ Items[j] = Items'[j]
        BY <2>3
      <3>3. SameBut(Items, Items', new.id)
        BY <3>1, <3>2 DEF SameBut
      <3> QED
        BY <2>1, <2>2, <2>5, <3>3, HeldBecomes
    <2> QED
      BY <2>2, <2>4, <2>6 DEF Collection!Next, Collection!Create
  <1> QED
    BY <1>1, <1>2, PostStep

LEMMA PutChanges ==
    ASSUME StoreInv, NEW w \in Worker, Put(w)
    PROVE  [Collection!Next]_(Held(Items))
  <1> DEFINE r == req[w]
             n == atoi(r.after)
  <1>1. CASE Items' = Items
    BY <1>1
  <1>2. CASE /\ r.uri = "posts" /\ r.after \in IdText
             /\ Matches(Items, r.after) # {} /\ Items' = Updated(Items, r)
    <2>1. /\ Items \in Seq(Item) /\ Unique(Items) /\ Items' \in Seq(Item) /\ Unique(Items')
      BY <1>2, ResourceFields, PutStep DEF Resources
    <2>2. r.value \in Value /\ n \in 0..MaxId
      BY <1>2, PutStep, Numbers
    <2>3. PICK m \in 1..Len(Items) : Items[m].id = n
      BY <1>2, <2>1, Matching DEF Matches
    <2>4. \A k \in 1..Len(Items) :
             Updated(Items, r)[k] = IF Items[k].id = n THEN [Items[k] EXCEPT !.value = r.value]
                                                       ELSE Items[k]
      BY <1>2, <2>1, Matching DEF Updated
    <2> HIDE DEF n, r
    <2>5. Len(Items') = Len(Items)
      BY <1>2, <2>1 DEF Updated
    <2>6. Items'[m].id = n /\ Items'[m].value = r.value
      <3>1. Items[m] \in Item
        BY <2>1
      <3>2. [Items[m] EXCEPT !.value = r.value].id = n
            /\ [Items[m] EXCEPT !.value = r.value].value = r.value
        BY <2>3, <3>1 DEF Item
      <3> QED
        BY <1>2, <2>3, <2>4, <3>2
    <2>7. Held(Items)[n] # None
      BY <2>1, <2>3, HeldAt
    <2>8. Held(Items')[n] = r.value
      BY <2>1, <2>5, <2>6, HeldAt
    <2>9. Held(Items') = [Held(Items) EXCEPT ![n] = r.value]
      <3>1. \A k \in 1..Len(Items) : Items[k].id # n => Items'[k] = Items[k]
        BY <1>2, <2>4
      <3>2. \A k \in 1..Len(Items) : Items[k].id = n => Items'[k].id = n
        <4> TAKE k \in 1..Len(Items)
        <4>1. Items[k].id = n => k = m
          BY <2>1, <2>3 DEF Unique
        <4> QED
          BY <2>6, <4>1
      <3>3. SameBut(Items, Items', n)
        BY <3>1, <3>2, <2>5 DEF SameBut
      <3> QED
        BY <2>1, <2>2, <2>8, <3>3, HeldBecomes
    <2> QED
      BY <2>2, <2>7, <2>9 DEF Collection!Next, Collection!Change
  <1> QED
    BY <1>1, <1>2, PutStep

LEMMA StoreRemoves ==
    ASSUME StoreInv, NEW w \in Worker, Store(w)
    PROVE  [Collection!Next]_(Held(Items))
  <1> DEFINE text == req[w].after
             n    == atoi(text)
  <1>1. text \in IdText /\ Matches(Items, text) # {} /\ Items' = Remaining(Items, text)
    BY StoreStep
  <1>2. Items \in Seq(Item) /\ Unique(Items) /\ n \in 0..MaxId
    BY <1>1, ResourceFields, Numbers
  <1>3. PICK m \in 1..Len(Items) : Items[m].id = n
    BY <1>1, <1>2, Matching DEF Matches
  <1>4. /\ Items' \in Seq(Item) /\ Unique(Items')
        /\ \A j \in 1..Len(Items') :
              \E k \in 1..Len(Items) : Items[k].id # n /\ Items'[j] = Items[k]
        /\ \A k \in 1..Len(Items) : Items[k].id # n =>
              \E j \in 1..Len(Items') : Items'[j] = Items[k]
    <2> DEFINE R == Remaining(Items, text)
    <2>1. /\ R \in Seq(Item) /\ Unique(R)
          /\ \A j \in 1..Len(R) : \E k \in 1..Len(Items) : Items[k].id # n /\ R[j] = Items[k]
          /\ \A k \in 1..Len(Items) : Items[k].id # n => \E j \in 1..Len(R) : R[j] = Items[k]
      BY <1>1, <1>2, RemainingItems
    <2>2. Items' = R
      BY <1>1
    <2> HIDE DEF R, n
    <2> QED
      BY <2>1, <2>2
  <1> HIDE DEF n, text
  <1>5. Held(Items)[n] # None
    BY <1>2, <1>3, HeldAt
  <1>6. Held(Items')[n] = None
    <2>1. \A j \in 1..Len(Items') : Items'[j].id # n
      BY <1>4
    <2> QED
      BY <1>2, <1>4, <2>1, HeldAt
  <1>7. Held(Items') = [Held(Items) EXCEPT ![n] = None]
    <2>1. SameBut(Items, Items', n)
      BY <1>4 DEF SameBut
    <2> QED
      BY <1>2, <1>4, <1>6, <2>1, HeldBecomes
  <1> QED
    BY <1>2, <1>5, <1>7 DEF Collection!Next, Collection!Remove

LEMMA OthersLeave ==
    ASSUME NEW w \in Worker,
           \/ \E r \in Requests : Begin(w, r)
           \/ Get(w) \/ Scan(w) \/ Copy(w) \/ OpenFile(w) \/ WriteFile(w) \/ Reply(w)
    PROVE  Items' = Items
  <1>1. rest_uri' = rest_uri
    BY DEF Begin, Get, Scan, Copy, OpenFile, WriteFile, Reply
  <1> QED
    BY <1>1 DEF Items

LEMMA StepRefines ==
    ASSUME StoreInv, [Next]_vars
    PROVE  [Collection!Next]_(Held(Items))
  <1>1. CASE UNCHANGED vars
    <2>1. Items' = Items
      BY <1>1 DEF vars, Items
    <2> QED
      BY <2>1
  <1>2. CASE Next
    <2>1. PICK w \in Worker :
             \/ \E r \in Requests : Begin(w, r)
             \/ Get(w) \/ Scan(w) \/ Post(w) \/ Put(w) \/ Copy(w) \/ Store(w)
             \/ OpenFile(w) \/ WriteFile(w) \/ Reply(w)
      BY <1>2 DEF Next
    <2>2. CASE Items' = Items
      BY <2>2
    <2> QED
      BY <2>1, <2>2, OthersLeave, PostCreates, PutChanges, StoreRemoves
  <1> QED
    BY <1>1, <1>2

LEMMA InitRefines ==
    ASSUME StoreInv
    PROVE  Collection!Init
  <1>1. Items \in Seq(Item) /\ Unique(Items)
    BY ResourceFields
  <1>2. \A n \in 0..MaxId : Held(Items)[n] \in Value \cup {None}
    BY <1>1, HeldAt
  <1>3. Held(Items) = [n \in 0..MaxId |-> Held(Items)[n]]
    BY <1>1, HeldAt
  <1> HIDE DEF Held
  <1>4. Held(Items) \in [0..MaxId -> Value \cup {None}]
    BY <1>2, <1>3
  <1> QED
    BY <1>4 DEF Collection!Init

\* A step of one worker leaves another where it is.
LEMMA OthersStay ==
    ASSUME StoreInv, NEW v \in Worker, NEW w \in Worker, v # w,
           \/ \E r \in Requests : Begin(w, r)
           \/ Get(w) \/ Scan(w) \/ Post(w) \/ Put(w) \/ Copy(w) \/ Store(w)
           \/ OpenFile(w) \/ WriteFile(w) \/ Reply(w)
    PROVE  pc'[v] = pc[v] /\ req'[v] = req[v]
  <1>1. \E label : pc' = [pc EXCEPT ![w] = label]
    BY DEF Begin, Get, Scan, Post, Put, Copy, Store, OpenFile, WriteFile, Reply, Answer,
           Refuse, Goto
  <1>2. \E r : req' = req \/ req' = [req EXCEPT ![w] = r]
    BY DEF Begin, Get, Scan, Post, Put, Copy, Store, OpenFile, WriteFile, Reply, Answer,
           Refuse, Goto
  <1> QED
    BY <1>1, <1>2 DEF StoreInv, Variables

PostPuts ==
    \A w \in Worker :
        pc[w] = "append" /\ pc'[w] = "open" /\ req[w].uri = "posts"
        => \E k \in 1..Len(Items') : /\ Items'[k].id = atoi(req[w].id)
                                     /\ Items'[k].value = req[w].value

LEMMA StepPosts ==
    ASSUME StoreInv, [Next]_vars
    PROVE  PostPuts
  <1> SUFFICES ASSUME NEW w \in Worker,
                      pc[w] = "append", pc'[w] = "open", req[w].uri = "posts"
               PROVE  \E k \in 1..Len(Items') : /\ Items'[k].id = atoi(req[w].id)
                                                /\ Items'[k].value = req[w].value
    BY DEF PostPuts
  <1>1. Next
    BY DEF vars
  <1>2. PICK v \in Worker :
           \/ \E r \in Requests : Begin(v, r)
           \/ Get(v) \/ Scan(v) \/ Post(v) \/ Put(v) \/ Copy(v) \/ Store(v)
           \/ OpenFile(v) \/ WriteFile(v) \/ Reply(v)
    BY <1>1 DEF Next
  <1>3. v = w
    BY <1>2, OthersStay
  <1>4. Post(w)
    BY <1>2, <1>3 DEF Begin, Get, Scan, Put, Copy, Store, OpenFile, WriteFile, Reply
  <1> DEFINE new == [id |-> atoi(req[w].id), value |-> req[w].value]
  <1>5. Items \in Seq(Item) /\ new \in Item /\ Items' = Append(Items, new)
    BY <1>4, PostStep, ResourceFields
  <1>6. new.id = atoi(req[w].id) /\ new.value = req[w].value
    OBVIOUS
  <1> HIDE DEF new
  <1>7. Len(Items) + 1 \in 1..Len(Items') /\ Items'[Len(Items) + 1] = new
    BY <1>5
  <1> QED
    BY <1>6, <1>7

LEMMA Resting ==
    ASSUME Careful
    PROVE  Spec => []StoreInv
  <1>1. Init => StoreInv
    BY StoreInit
  <1>2. StoreInv /\ [Next]_vars => StoreInv'
    BY StoreKeeps
  <1> QED
    BY <1>1, <1>2, PTL DEF Spec

\* While clients change nothing beside another request and keep an item, no two
\* items of the collection have one id: whatever POSTs, PUTs and DELETEs come.
THEOREM StoreKeepsIdsUnique ==
    ASSUME Careful
    PROVE  Spec => []UniqueIds
  <1>1. StoreInv => UniqueIds
    BY DEF StoreInv, Resources, Unique, UniqueIds
  <1> QED
    BY <1>1, Resting, PTL

\* ... and every POST that is not refused is in the collection when it is answered.
THEOREM StoreTakesPosts ==
    ASSUME Careful
    PROVE  Spec => PostedIsThere
  <1>1. StoreInv /\ [Next]_vars => [PostPuts]_vars
    BY StepPosts
  <1>2. [][PostPuts]_vars => PostedIsThere
    BY PTL DEF PostPuts, PostedIsThere
  <1> QED
    BY <1>1, <1>2, Resting, PTL DEF Spec

\* ... and each request is one operation on one item of a collection: rest_uri
\* implements RestCollection.
THEOREM StoreImplements ==
    ASSUME Careful
    PROVE  Spec => ImplementsCollection
  <1>1. StoreInv => Collection!Init
    BY InitRefines
  <1>2. StoreInv /\ [Next]_vars => [Collection!Next]_(Held(Items))
    BY StepRefines
  <1> QED
    BY <1>1, <1>2, Resting, PTL DEF Spec, ImplementsCollection, Collection!Spec

-----------------------------------------------------------------------------
(* The connections, for clients that are careful.                           *)

Form(m) == m.r.method \in {"POST", "PUT"}
Size(m) == IF Form(m) THEN 4 ELSE 2

Part(m) == {Parts(m)[k] : k \in 1..Size(m)}

\* The parts of m from the i-th to the j-th.
Piece(m, i, j) == SubSeq(Parts(m), i, j)

\* Nothing is asked: the parser is at its start and nothing is on its way.
AtRest(w) ==
    /\ pc[w] = "idle" /\ asked[w] = None /\ coming[w] = <<>>
    /\ ~conn[w].out /\ conn[w].state = "uri" /\ conn[w].inBuffer = <<>>

\* m is asked and k parts of it are read: none, the line, or all of a POST but the
\* last member.
Awaits(w, m, k) ==
    /\ pc[w] = "idle" /\ asked[w] = m /\ coming[w] = Piece(m, k + 1, Size(m))
    /\ conn[w].up /\ ~conn[w].out
    /\ \/ k = 0 /\ conn[w].state = "uri" /\ conn[w].inBuffer = <<>>
       \/ /\ k = 1 /\ conn[w].state = "headers" /\ conn[w].inBuffer = <<>>
          /\ conn[w].line = Line(m)
       \/ /\ k = 3 /\ conn[w].state = "body" /\ conn[w].inBuffer = Piece(m, 3, 3)
          /\ conn[w].line = Line(m) /\ conn[w].header = Header(m) /\ m.r.method = "POST"

\* m is what the worker carries out.
Serves(w, m) ==
    /\ pc[w] # "idle" /\ asked[w] = m /\ req[w] = m.r /\ coming[w] = <<>>
    /\ conn[w].up /\ ~conn[w].out

\* The answer to m waits to be written.
Answered(w, m) ==
    /\ pc[w] = "idle" /\ asked[w] = m /\ coming[w] = <<>>
    /\ conn[w].up /\ conn[w].out
    /\ conn[w].keep_alive => conn[w].state = "uri" /\ conn[w].inBuffer = <<>>

Stage(w) ==
    \/ AtRest(w)
    \/ \E m \in Messages : \/ \E k \in {0, 1, 3} : Awaits(w, m, k)
                           \/ Serves(w, m) \/ Answered(w, m)

Fields == {"up", "state", "inBuffer", "line", "header", "m_paramsMap", "keep_alive", "out"}

FrontVariables ==
    /\ DOMAIN conn = Worker /\ DOMAIN coming = Worker /\ DOMAIN asked = Worker
    /\ \A w \in Worker : DOMAIN conn[w] = Fields /\ DOMAIN conn[w].m_paramsMap = {"id", "value"}

FrontInv == FrontVariables /\ \A w \in Worker : Stage(w)

-----------------------------------------------------------------------------
(* The parts of a message.                                                  *)

LEMMA MessageType ==
    ASSUME NEW m \in Messages
    PROVE  /\ m # None /\ m.r.method \in {"GET", "POST", "PUT", "DELETE", "HEAD"}
           /\ Known(Line(m)) => m.r \in Requests
  BY MessagesAssumption DEF Known, Line

LEMMA PartsAre ==
    ASSUME NEW m \in Messages
    PROVE  /\ Parts(m) \in Seq(Part(m)) /\ Len(Parts(m)) = Size(m)
           /\ Parts(m)[1] = Line(m) /\ Parts(m)[2] = Header(m)
           /\ Form(m) => /\ Parts(m)[3].part = "member" /\ Parts(m)[3].key = "id"
                         /\ m.r.method = "POST" => Parts(m)[3].text = m.r.id
                         /\ Parts(m)[4].part = "member" /\ Parts(m)[4].key = "value"
                         /\ Parts(m)[4].text = m.r.value
  <1> DEFINE id == [part |-> "member", key |-> "id",
                    text |-> IF m.r.method = "PUT" THEN m.r.after ELSE m.r.id]
             value == [part |-> "member", key |-> "value", text |-> m.r.value]
             S == {Line(m), Header(m), id, value}
  <1>1. /\ id.part = "member" /\ id.key = "id"
        /\ m.r.method = "POST" => id.text = m.r.id
        /\ value.part = "member" /\ value.key = "value" /\ value.text = m.r.value
    OBVIOUS
  <1>2. Members(m) = IF Form(m) THEN <<id, value>> ELSE <<>>
    BY DEF Members, Form
  <1> HIDE DEF id, value
  <1>3. <<Line(m), Header(m)>> \in Seq(S) /\ Members(m) \in Seq(S)
    <2>1. <<Line(m), Header(m)>> \in Seq(S)
      OBVIOUS
    <2>2. <<id, value>> \in Seq(S)
      OBVIOUS
    <2> HIDE DEF S
    <2> QED
      BY <1>2, <2>1, <2>2
  <1>4. Parts(m) \in Seq(S) /\ Len(Parts(m)) = Size(m)
    BY <1>2, <1>3 DEF Parts, Size
  <1>5. Parts(m)[1] = Line(m) /\ Parts(m)[2] = Header(m)
    BY <1>2, <1>3 DEF Parts
  <1>6. Form(m) => Parts(m)[3] = id /\ Parts(m)[4] = value
    BY <1>2, <1>3 DEF Parts
  <1>7. Parts(m) \in Seq(Part(m))
    <2>1. \A k \in 1..Size(m) : Parts(m)[k] \in Part(m)
      BY DEF Part
    <2> QED
      BY <1>4, <2>1
  <1> QED
    BY <1>1, <1>4, <1>5, <1>6, <1>7

LEMMA PieceIs ==
    ASSUME NEW m \in Messages, NEW i \in 1..5, NEW j \in 0..4, i <= j + 1, j <= Size(m)
    PROVE  /\ Piece(m, i, j) \in Seq(Part(m))
           /\ Len(Piece(m, i, j)) = j - i + 1
           /\ \A k \in 1..(j - i + 1) : Piece(m, i, j)[k] = Parts(m)[i + k - 1]
  <1>1. Size(m) \in {2, 4}
    BY DEF Size
  <1>2. \A k \in i..j : Parts(m)[k] \in Part(m)
    BY <1>1 DEF Part
  <1>3. /\ Piece(m, i, j) \in Seq(Part(m))
        /\ Len(Piece(m, i, j)) = IF i <= j THEN j - i + 1 ELSE 0
        /\ \A k \in 1..(j - i + 1) : Piece(m, i, j)[k] = Parts(m)[i + k - 1]
    BY <1>2, SubSeqProperties DEF Piece
  <1> QED
    BY <1>3

\* The parts of m from the c-th to the d-th are those from the a-th to the b-th of
\* the parts from the i-th to the j-th.
Within(m, i, j, a, b, c, d) ==
    /\ i \in 1..5 /\ j \in 0..4 /\ i <= j + 1 /\ j <= Size(m)
    /\ a \in 1..5 /\ b \in 0..4 /\ a <= b + 1 /\ b <= j - i + 1
    /\ c = i + a - 1 /\ d = i + b - 1

LEMMA PieceOfPiece ==
    ASSUME NEW m \in Messages, NEW i, NEW j, NEW a, NEW b, NEW c, NEW d,
           Within(m, i, j, a, b, c, d)
    PROVE  SubSeq(Piece(m, i, j), a, b) = Piece(m, c, d)
  <1> DEFINE s == Piece(m, i, j)
             t == Piece(m, c, d)
  <1> USE DEF Within
  <1>0. Size(m) \in {2, 4}
    BY DEF Size
  <1>1. /\ s \in Seq(Part(m)) /\ Len(s) = j - i + 1
        /\ \A k \in 1..(j - i + 1) : s[k] = Parts(m)[i + k - 1]
    BY PieceIs
  <1>2. /\ t \in Seq(Part(m)) /\ Len(t) = b - a + 1
        /\ \A k \in 1..(b - a + 1) : t[k] = Parts(m)[i + a + k - 2]
    <2>1. c \in 1..5 /\ d \in 0..4 /\ c <= d + 1 /\ d <= Size(m)
      BY <1>0
    <2>2. d - c + 1 = b - a + 1 /\ \A k \in Int : c + k - 1 = i + a + k - 2
      OBVIOUS
    <2>3. /\ t \in Seq(Part(m)) /\ Len(t) = d - c + 1
          /\ \A k \in 1..(d - c + 1) : t[k] = Parts(m)[c + k - 1]
      BY <2>1, PieceIs, ZenonT(60)
    <2> HIDE DEF t
    <2> QED
      BY <2>2, <2>3
  <1> HIDE DEF s, t
  <1>3. /\ SubSeq(s, a, b) \in Seq(Part(m)) /\ Len(SubSeq(s, a, b)) = b - a + 1
        /\ \A k \in 1..(b - a + 1) : SubSeq(s, a, b)[k] = s[a + k - 1]
    <2>1. \A k \in a..b : s[k] \in Part(m)
      BY <1>1, SMTT(20)
    <2> QED
      BY <2>1, SubSeqProperties
  <1>4. \A k \in 1..(b - a + 1) : SubSeq(s, a, b)[k] = t[k]
    <2> TAKE k \in 1..(b - a + 1)
    <2>1. a + k - 1 \in 1..(j - i + 1)
      OBVIOUS
    <2>2. s[a + k - 1] = Parts(m)[i + (a + k - 1) - 1]
      BY <1>1, <2>1
    <2>3. i + (a + k - 1) - 1 = i + a + k - 2
      BY <2>1
    <2> QED
      BY <1>2, <1>3, <2>1, <2>2, <2>3
  <1>5. SubSeq(s, a, b) = t
    BY <1>2, <1>3, <1>4, SeqEqual
  <1> QED
    BY <1>5 DEF s, t

\* What stays of the parts from the i-th on when n of them are taken.
LEMMA Rest ==
    ASSUME NEW m \in Messages, NEW i \in 1..4, NEW n \in 1..4, i + n - 1 <= Size(m)
    PROVE  /\ Len(Piece(m, i, Size(m))) = Size(m) - i + 1
           /\ SubSeq(Piece(m, i, Size(m)), n + 1, Len(Piece(m, i, Size(m))))
                 = Piece(m, i + n, Size(m))
           /\ Piece(m, i, Size(m))[n] = Parts(m)[i + n - 1]
  <1> DEFINE s == Size(m)
             a == n + 1
             c == i + n
             l == s - i + 1
  <1>0. s \in {2, 4}
    BY DEF Size
  <1>1. Within(m, i, s, a, l, c, s)
    BY <1>0 DEF Within
  <1>2. i <= s + 1 /\ i \in 1..5 /\ s \in 0..4 /\ s <= Size(m) /\ n \in 1..(s - i + 1)
    BY <1>0
  <1> HIDE DEF s, a, c, l
  <1>3. SubSeq(Piece(m, i, s), a, l) = Piece(m, c, s)
    BY <1>1, PieceOfPiece
  <1>4. Len(Piece(m, i, s)) = l /\ Piece(m, i, s)[n] = Parts(m)[i + n - 1]
    BY <1>2, PieceIs, ZenonT(60) DEF l
  <1> QED
    BY <1>3, <1>4 DEF s, a, c, l

LEMMA LastPieces ==
    ASSUME NEW m \in Messages, Size(m) = 4
    PROVE  Piece(m, 3, 3) \o Piece(m, 4, 4) = Piece(m, 3, 4)
  <1>1. Parts(m) \in Seq(Part(m)) /\ Len(Parts(m)) = 4
    BY PartsAre
  <1> QED
    BY <1>1, ConcatAdjacentSubSeq DEF Piece

LEMMA HeadOfPiece ==
    ASSUME NEW m \in Messages, NEW j \in 2..Size(m)
    PROVE  /\ Piece(m, 2, j) # <<>>
           /\ Head(Piece(m, 2, j)) = Header(m) /\ Tail(Piece(m, 2, j)) = Piece(m, 3, j)
  <1>1. Parts(m) \in Seq(Part(m)) /\ Len(Parts(m)) = Size(m) /\ Parts(m)[2] = Header(m)
    BY PartsAre
  <1>2. Size(m) \in {2, 4}
    BY DEF Size
  <1>3. Len(Piece(m, 2, j)) > 0
    <2>1. j \in 0..4 /\ j <= Size(m) /\ 2 <= j
      BY <1>2
    <2> QED
      BY <1>2, <2>1, PieceIs
  <1> QED
    BY <1>1, <1>2, <1>3, HeadTailOfSubSeq DEF Piece

-----------------------------------------------------------------------------
(* The parser, on the parts of one message.                                 *)

LEMMA PartNames ==
    ASSUME NEW m \in Messages
    PROVE  /\ Line(m).part = "line" /\ Header(m).part = "header"
           /\ Line(m).method = m.r.method /\ Line(m).uri = m.r.uri /\ Line(m).after = m.r.after
           /\ Header(m).length = m.length
           /\ \A k \in 2..Size(m) : Parts(m)[k].part # "line"
  <1>1. Size(m) \in {2, 4} /\ (Form(m) <=> Size(m) = 4)
    BY DEF Size
  <1>2. Line(m).part = "line" /\ Header(m).part = "header"
    BY DEF Line, Header
  <1>3. /\ Line(m).method = m.r.method /\ Line(m).uri = m.r.uri /\ Line(m).after = m.r.after
        /\ Header(m).length = m.length
    BY DEF Line, Header
  <1>4. \A k \in 2..Size(m) : k = 2 \/ ((k = 3 \/ k = 4) /\ Form(m))
    BY <1>1
  <1> QED
    BY <1>2, <1>3, <1>4, PartsAre

\* Where the parser stands with j parts of m read.
AtURI(q, m, j)     == /\ q.state = "uri" /\ q.inBuffer = Piece(m, 1, j)
AtHeaders(q, m, j) == /\ q.state = "headers" /\ q.inBuffer = Piece(m, 2, j)
                      /\ q.line = Line(m)
AtBody(q, m, j)    == /\ q.state = "body" /\ q.inBuffer = Piece(m, 3, j)
                      /\ q.line = Line(m) /\ q.header = Header(m)
                      /\ m.r.method = "POST" /\ j >= 2
AtEnd(q, m, j)     == /\ q.state = "analysis" /\ q.inBuffer = Piece(m, 3, j)
                      /\ q.line = Line(m)
                      /\ j >= 2 /\ (m.r.method = "POST" => j = 4)

Parser == {"state", "line", "header", "flag", "inBuffer"}

LEMMA URIRead ==
    ASSUME NEW m \in Messages, NEW j \in 1..4, j <= Size(m),
           NEW q, DOMAIN q = Parser, q = [f \in Parser |-> q[f]], q.flag = "ok", AtURI(q, m, j)
    PROVE  LET p == parseURI(q) IN
           /\ DOMAIN p = Parser /\ p = [f \in Parser |-> p[f]]
           /\ \/ p.flag = "error" /\ p.state = "uri"
              \/ p.flag = "ok" /\ AtHeaders(p, m, j)
  <1> DEFINE buf   == q.inBuffer
             lines == {k \in 1..Len(buf) : buf[k].part = "line"}
             first == CHOOSE k \in lines : \A i \in lines : k <= i
  <1>0. Size(m) \in {2, 4}
    BY DEF Size
  <1>1. /\ buf = Piece(m, 1, j) /\ Len(buf) = j
        /\ \A k \in 1..j : buf[k] = Parts(m)[k]
    <2>1. 1 <= j + 1 /\ 1 \in 1..5 /\ j \in 0..4
      OBVIOUS
    <2>2. /\ Len(Piece(m, 1, j)) = j - 1 + 1
          /\ \A k \in 1..(j - 1 + 1) : Piece(m, 1, j)[k] = Parts(m)[1 + k - 1]
      BY <2>1, PieceIs
    <2>3. j - 1 + 1 = j /\ \A k \in 1..j : 1 + k - 1 = k
      OBVIOUS
    <2> QED
      BY <2>2, <2>3 DEF AtURI
  <1>2. lines = {1}
    <2>1. \A k \in 1..j : k = 1 \/ k \in 2..Size(m)
      BY <1>0
    <2>2. Parts(m)[1].part = "line" /\ \A k \in 2..Size(m) : Parts(m)[k].part # "line"
      BY PartNames, PartsAre
    <2>3. \A k \in 1..j : buf[k].part = "line" <=> k = 1
      BY <1>1, <2>1, <2>2
    <2> QED
      BY <1>1, <2>3
  <1>3. first = 1 /\ buf[first] = Line(m)
    <2>1. first = 1
      BY <1>2
    <2>2. Parts(m)[1] = Line(m) /\ 1 \in 1..j
      BY PartsAre
    <2> HIDE DEF first
    <2> QED
      BY <1>1, <2>1, <2>2
  <1>4. SubSeq(buf, first + 1, Len(buf)) = Piece(m, 2, j)
    <2>1. SubSeq(Piece(m, 1, j), 2, j) = Piece(m, 2, j)
      <3>1. Within(m, 1, j, 2, j, 2, j)
        BY DEF Within
      <3> QED
        BY <3>1, PieceOfPiece
    <2> HIDE DEF first, lines
    <2>2. first + 1 = 2
      BY <1>3
    <2> QED
      BY <1>1, <2>1, <2>2
  <1>5. q.state = "uri"
    BY DEF AtURI
  <1>6. parseURI(q) = IF Line(m).also \in Before(Line(m).method) THEN Error(q)
                      ELSE [q EXCEPT !.state = "headers", !.line = Line(m),
                                     !.inBuffer = Piece(m, 2, j)]
    <2> HIDE DEF Line, Before
    <2>1. lines # {}
      BY <1>2
    <2> QED
      BY <1>3, <1>4, <1>5, <2>1, Zenon DEF parseURI
  <1> QED
    BY <1>5, <1>6 DEF Error, Parser, AtHeaders

LEMMA HeadersRead ==
    ASSUME NEW m \in Messages, NEW j \in 1..4, j <= Size(m),
           NEW q, DOMAIN q = Parser, q = [f \in Parser |-> q[f]], q.flag = "ok", AtHeaders(q, m, j)
    PROVE  LET p == parseHeaders(q) IN
           /\ DOMAIN p = Parser /\ p = [f \in Parser |-> p[f]]
           /\ \/ p.flag = "again" /\ j = 1 /\ AtHeaders(p, m, j)
              \/ p.flag = "ok" /\ AtBody(p, m, j)
              \/ p.flag = "ok" /\ AtEnd(p, m, j)
  <1>1. CASE j = 1
    <2>1. q.inBuffer = <<>>
      <3>1. Len(Piece(m, 2, j)) = 0 /\ Piece(m, 2, j) \in Seq(Part(m))
        BY <1>1, PieceIs
      <3> QED
        BY <3>1 DEF AtHeaders
    <2>2. parseHeaders(q) = Again(q)
      BY <2>1 DEF parseHeaders, AtHeaders
    <2> QED
      BY <1>1, <2>2 DEF Again, Parser, AtHeaders
  <1>2. CASE j # 1
    <2>1. j \in 2..Size(m) /\ j >= 2
      BY <1>2
    <2>2. /\ q.inBuffer # <<>> /\ Head(q.inBuffer) = Header(m)
          /\ Tail(q.inBuffer) = Piece(m, 3, j)
      BY <2>1, HeadOfPiece DEF AtHeaders
    <2>3. parseHeaders(q) = [q EXCEPT !.header = Header(m), !.inBuffer = Piece(m, 3, j),
                                      !.state = IF m.r.method = "POST" THEN "body"
                                                ELSE "analysis"]
      BY <2>2, PartNames, ZenonT(60) DEF parseHeaders, AtHeaders, WaitsForBody
    <2> QED
      BY <2>1, <2>3 DEF Parser, AtHeaders, AtBody, AtEnd
  <1> QED
    BY <1>1, <1>2

LEMMA BodyRead ==
    ASSUME NEW m \in Messages, NEW j \in 1..4, j <= Size(m),
           NEW q, DOMAIN q = Parser, q = [f \in Parser |-> q[f]], q.flag = "ok", AtBody(q, m, j)
    PROVE  LET p == recvBody(q) IN
           \/ p.flag = "error"
           \/ p.flag = "again" /\ AtBody(p, m, j) /\ j < 4
           \/ p.flag = "ok" /\ AtEnd(p, m, j)
  <1>1. j \in 2..4 /\ q.header.length = m.length
    BY PartNames DEF AtBody
  <1>2. Len(q.inBuffer) = j - 2
    <2>1. Len(Piece(m, 3, j)) = j - 3 + 1
      <3>1. 3 \in 1..5 /\ j \in 0..4 /\ 3 <= j + 1
        BY <1>1
      <3> QED
        BY <3>1, PieceIs
    <2> QED
      BY <1>1, <2>1 DEF AtBody
  <1>3. \/ recvBody(q) = Error(q)
        \/ recvBody(q) = Again(q) /\ j < 4
        \/ recvBody(q) = [q EXCEPT !.state = "analysis"] /\ j = 4
    BY <1>1, <1>2 DEF recvBody, AtBody
  <1> QED
    BY <1>3 DEF Error, Again, Parser, AtBody, AtEnd

\* What a read makes of the next n parts when k of m are read.
LEMMA ParsedIs ==
    ASSUME NEW w \in Worker, NEW m \in Messages, NEW k \in {0, 1, 3}, Awaits(w, m, k),
           NEW n \in 1..4, k + n <= Size(m)
    PROVE  LET p == Parsed(w, n) IN
           \/ p.flag = "error"
           \/ p.flag = "again" /\ \/ k + n = 1 /\ AtHeaders(p, m, 1)
                                  \/ k + n < 4 /\ AtBody(p, m, k + n)
           \/ p.flag = "ok" /\ AtEnd(p, m, k + n)
  <1> DEFINE c == conn[w]
             buf == c.inBuffer \o SubSeq(coming[w], 1, n)
             q == [state |-> c.state, line |-> c.line, header |-> c.header, flag |-> "ok",
                   inBuffer |-> buf]
             j == k + n
  <1>0. Size(m) \in {2, 4}
    BY DEF Size
  <1>1. j \in 1..4 /\ j <= Size(m) /\ k <= Size(m)
    BY <1>0
  <1>2. SubSeq(coming[w], 1, n) = Piece(m, k + 1, j)
    <2> DEFINE o == 1
               i == k + 1
               s == Size(m)
    <2>1. Within(m, i, s, o, n, i, j)
      BY <1>0 DEF Within
    <2>2. coming[w] = Piece(m, i, s)
      BY DEF Awaits
    <2> HIDE DEF o, i, s, j
    <2>3. SubSeq(Piece(m, i, s), o, n) = Piece(m, i, j)
      BY <2>1, PieceOfPiece
    <2>4. SubSeq(coming[w], o, n) = Piece(m, i, j)
      BY <2>2, <2>3
    <2> QED
      BY <2>4 DEF o, i
  <1>3. Parsed(w, n) = recvBody(parseHeaders(parseURI(q)))
    BY DEF Parsed
  <1>4. /\ DOMAIN q = Parser /\ q = [f \in Parser |-> q[f]] /\ q.flag = "ok"
        /\ q.state = c.state /\ q.line = c.line /\ q.header = c.header /\ q.inBuffer = buf
    BY DEF Parser
  <1>5. Piece(m, k + 1, j) \in Seq(Part(m))
    BY <1>0, <1>1, PieceIs, SMTT(20)
  <1> HIDE DEF q, buf, j
  <1>6. \/ AtURI(q, m, j)
        \/ AtHeaders(q, m, j)
        \/ AtBody(q, m, j)
    <2>1. CASE k = 0
      <3>1. buf = <<>> \o Piece(m, 1, j)
        <4>1. c.inBuffer = <<>> /\ k + 1 = 1
          BY <2>1 DEF Awaits
        <4> QED
          BY <4>1, <1>2 DEF buf
      <3>2. Piece(m, 1, j) \in Seq(Part(m))
        BY <2>1, <1>5
      <3>3. buf = Piece(m, 1, j)
        BY <3>1, <3>2, ConcatEmptySeq
      <3> QED
        BY <2>1, <3>3, <1>4 DEF Awaits, AtURI
    <2>2. CASE k = 1
      <3>1. buf = <<>> \o Piece(m, 2, j)
        <4>1. c.inBuffer = <<>> /\ k + 1 = 2
          BY <2>2 DEF Awaits
        <4> QED
          BY <4>1, <1>2 DEF buf
      <3>2. Piece(m, 2, j) \in Seq(Part(m))
        BY <2>2, <1>5
      <3>3. buf = Piece(m, 2, j)
        BY <3>1, <3>2, ConcatEmptySeq
      <3> QED
        BY <2>2, <3>3, <1>4 DEF Awaits, AtHeaders
    <2>3. CASE k = 3
      <3>1. j = 4 /\ Size(m) = 4
        BY <2>3, <1>0 DEF j
      <3>2. buf = Piece(m, 3, 4)
        <4>1. c.inBuffer = Piece(m, 3, 3) /\ k + 1 = 4
          BY <2>3 DEF Awaits
        <4> QED
          BY <4>1, <3>1, <1>2, LastPieces DEF buf
      <3> QED
        BY <2>3, <3>1, <3>2, <1>4 DEF Awaits, AtBody
    <2> QED
      BY <2>1, <2>2, <2>3
  <1>7. CASE AtBody(q, m, j)
    <2>1. parseURI(q) = q /\ parseHeaders(q) = q
      BY <1>7 DEF AtBody, parseURI, parseHeaders
    <2> QED
      BY <1>1, <1>3, <1>4, <1>7, <2>1, BodyRead DEF j
  <1>8. ASSUME NEW p, DOMAIN p = Parser, p = [f \in Parser |-> p[f]], p.flag = "ok",
               AtHeaders(p, m, j)
        PROVE  LET s == recvBody(parseHeaders(p)) IN
               \/ s.flag = "error"
               \/ s.flag = "again" /\ \/ j = 1 /\ AtHeaders(s, m, 1)
                                      \/ j < 4 /\ AtBody(s, m, j)
               \/ s.flag = "ok" /\ AtEnd(s, m, j)
    <2> DEFINE h == parseHeaders(p)
    <2>1. /\ DOMAIN h = Parser /\ h = [f \in Parser |-> h[f]]
          /\ \/ h.flag = "again" /\ j = 1 /\ AtHeaders(h, m, j)
             \/ h.flag = "ok" /\ AtBody(h, m, j)
             \/ h.flag = "ok" /\ AtEnd(h, m, j)
      BY <1>1, <1>8, HeadersRead
    <2> HIDE DEF h
    <2>2. CASE h.flag = "again" /\ j = 1 /\ AtHeaders(h, m, j)
      <3>1. recvBody(h) = h
        BY <2>2 DEF recvBody, AtHeaders
      <3> QED
        BY <2>2, <3>1 DEF h
    <2>3. CASE h.flag = "ok" /\ AtBody(h, m, j)
      BY <1>1, <2>1, <2>3, BodyRead DEF h
    <2>4. CASE h.flag = "ok" /\ AtEnd(h, m, j)
      <3>1. recvBody(h) = h
        BY <2>4 DEF recvBody, AtEnd
      <3> QED
        BY <2>4, <3>1 DEF h
    <2> QED
      BY <2>1, <2>2, <2>3, <2>4
  <1>9. CASE AtHeaders(q, m, j)
    <2>1. parseURI(q) = q
      BY <1>9 DEF AtHeaders, parseURI
    <2> QED
      BY <1>3, <1>4, <1>8, <1>9, <2>1 DEF j
  <1>10. CASE AtURI(q, m, j)
    <2> DEFINE u == parseURI(q)
    <2>1. /\ DOMAIN u = Parser /\ u = [f \in Parser |-> u[f]]
          /\ \/ u.flag = "error" /\ u.state = "uri"
             \/ u.flag = "ok" /\ AtHeaders(u, m, j)
      BY <1>1, <1>4, <1>10, URIRead
    <2> HIDE DEF u
    <2>2. CASE u.flag = "error" /\ u.state = "uri"
      <3>1. parseHeaders(u) = u /\ recvBody(u) = u
        BY <2>2 DEF parseHeaders, recvBody
      <3> QED
        BY <2>2, <3>1, <1>3 DEF u
    <2>3. CASE u.flag = "ok" /\ AtHeaders(u, m, j)
      BY <2>1, <2>3, <1>3, <1>8 DEF u, j
    <2> QED
      BY <2>1, <2>2, <2>3
  <1> QED
    BY <1>6, <1>7, <1>9, <1>10

-----------------------------------------------------------------------------
(* The steps of a connection.                                               *)

\* A step of w touches no other connection.
Untouched(w) ==
    \A v \in Worker \ {w} : /\ pc'[v] = pc[v] /\ req'[v] = req[v]
                            /\ conn'[v] = conn[v] /\ coming'[v] = coming[v]
                            /\ asked'[v] = asked[v]

LEMMA FrontElsewhere ==
    ASSUME FrontInv, NEW w \in Worker, FrontVariables', Stage(w)', Untouched(w)
    PROVE  FrontInv'
  <1>1. ASSUME NEW v \in Worker, v # w PROVE Stage(v)'
    <2>1. /\ Stage(v) /\ pc'[v] = pc[v] /\ req'[v] = req[v]
          /\ conn'[v] = conn[v] /\ coming'[v] = coming[v] /\ asked'[v] = asked[v]
      BY <1>1 DEF FrontInv, Untouched
    <2>2. AtRest(v) => AtRest(v)'
      BY <2>1 DEF AtRest
    <2>3. ASSUME NEW m \in Messages
          PROVE  /\ \A k \in {0, 1, 3} : Awaits(v, m, k) => Awaits(v, m, k)'
                 /\ Serves(v, m) => Serves(v, m)'
                 /\ Answered(v, m) => Answered(v, m)'
      BY <2>1 DEF Awaits, Serves, Answered
    <2>4. CASE AtRest(v)
      BY <2>2, <2>4 DEF Stage
    <2>5. CASE \E m \in Messages : \/ \E k \in {0, 1, 3} : Awaits(v, m, k)
                                  \/ Serves(v, m) \/ Answered(v, m)
      <3>1. PICK m \in Messages : \/ \E k \in {0, 1, 3} : Awaits(v, m, k)
                                 \/ Serves(v, m) \/ Answered(v, m)
        BY <2>5
      <3>2. \/ \E k \in {0, 1, 3} : Awaits(v, m, k)'
            \/ Serves(v, m)' \/ Answered(v, m)'
        BY <2>3, <3>1
      <3> QED
        BY <3>2 DEF Stage
    <2> QED
      BY <2>1, <2>4, <2>5 DEF Stage
  <1> QED
    BY <1>1 DEF FrontInv

LEMMA Dropped ==
    ASSUME FrontInv, NEW w \in Worker, Drop(w), pc'[w] = "idle",
           \A v \in Worker \ {w} : pc'[v] = pc[v] /\ req'[v] = req[v]
    PROVE  FrontInv'
  <1>1. /\ conn' = [conn EXCEPT ![w] = Closed] /\ coming' = [coming EXCEPT ![w] = <<>>]
        /\ asked' = [asked EXCEPT ![w] = None]
    BY DEF Drop
  <1>2. /\ DOMAIN conn = Worker /\ DOMAIN coming = Worker /\ DOMAIN asked = Worker
        /\ \A v \in Worker : DOMAIN conn[v] = Fields
                             /\ DOMAIN conn[v].m_paramsMap = {"id", "value"}
    BY DEF FrontInv, FrontVariables
  <1>3. DOMAIN Closed = Fields /\ DOMAIN Closed.m_paramsMap = {"id", "value"}
        /\ ~Closed.out /\ Closed.state = "uri" /\ Closed.inBuffer = <<>>
    BY DEF Closed, Fields
  <1>4. FrontVariables'
    BY <1>1, <1>2, <1>3 DEF FrontVariables
  <1>5. AtRest(w)'
    BY <1>1, <1>2, <1>3 DEF AtRest
  <1>6. Untouched(w)
    BY <1>1, <1>2 DEF Untouched
  <1> QED
    BY <1>4, <1>5, <1>6, FrontElsewhere DEF Stage

\* What is read goes to a message that is asked, as far as it has parts.
LEMMA ReadingIs ==
    ASSUME FrontInv, NEW w \in Worker, NEW n \in 1..4, Reading(w, n)
    PROVE  \E m \in Messages : \E k \in {0, 1, 3} :
              /\ Awaits(w, m, k) /\ k + n <= Size(m)
              /\ SubSeq(coming[w], n + 1, Len(coming[w])) = Piece(m, k + n + 1, Size(m))
              /\ \/ k + n = Size(m)
                 \/ Parts(m)[k + n].part # "header" /\ (Careful => m.r.method # "PUT")
  <1>1. /\ pc[w] = "idle" /\ ~conn[w].out /\ n \in 1..Len(coming[w]) /\ MayEnd(w, n)
    BY DEF Reading
  <1>2. coming[w] # <<>>
    BY <1>1
  <1>3. PICK m \in Messages, k \in {0, 1, 3} : Awaits(w, m, k)
    BY <1>1, <1>2 DEF FrontInv, Stage, AtRest, Serves, Answered
  <1> DEFINE s == Size(m)
             i == k + 1
  <1>4. /\ s \in {2, 4} /\ i \in 1..4 /\ i <= s + 1 /\ s = Size(m) /\ i = k + 1
        /\ coming[w] = Piece(m, i, s) /\ asked[w] = m
    <2>1. s \in {2, 4} /\ (k = 3 => s = 4)
      BY <1>3 DEF Awaits, Size, Form
    <2> QED
      BY <1>3, <2>1 DEF Awaits
  <1> HIDE DEF s, i
  <1>5. Len(Piece(m, i, s)) = s - i + 1
    <2>1. i \in 1..5 /\ s \in 0..4 /\ i <= s + 1 /\ s <= Size(m)
      BY <1>4
    <2> QED
      BY <2>1, PieceIs
  <1>6. k + n <= s /\ i + n - 1 <= s /\ n <= s - i + 1
    <2>1. n <= Len(coming[w])
      BY <1>1
    <2>2. Len(coming[w]) = s - i + 1
      BY <1>4, <1>5
    <2>3. n <= s - i + 1
      BY <2>1, <2>2
    <2>4. k \in {0, 1, 3} /\ n \in 1..4 /\ s \in {2, 4} /\ i = k + 1
      BY <1>4
    <2> QED
      BY ONLY <2>3, <2>4
  <1>7. /\ SubSeq(coming[w], n + 1, Len(coming[w])) = Piece(m, i + n, s)
        /\ coming[w][n] = Parts(m)[i + n - 1]
    <2>1. /\ Len(Piece(m, i, Size(m))) = Size(m) - i + 1
          /\ SubSeq(Piece(m, i, Size(m)), n + 1, Len(Piece(m, i, Size(m))))
                = Piece(m, i + n, Size(m))
          /\ Piece(m, i, Size(m))[n] = Parts(m)[i + n - 1]
      BY <1>4, <1>6, Rest
    <2> QED
      BY <1>4, <2>1
  <1>8. i + n = k + n + 1 /\ i + n - 1 = k + n
    BY <1>4
  <1>9. \/ k + n = s
        \/ Parts(m)[k + n].part # "header" /\ (Careful => m.r.method # "PUT")
    <2>1. CASE n = Len(coming[w])
      <3>1. n = s - i + 1
        BY <1>4, <1>5, <2>1
      <3> QED
        BY <1>4, <3>1
    <2>2. CASE coming[w][n].part # "header" /\ ~(Careful /\ asked[w].r.method = "PUT")
      BY <1>4, <1>7, <1>8, <2>2
    <2> QED
      BY <1>1, <2>1, <2>2 DEF MayEnd
  <1> QED
    BY <1>3, <1>4, <1>6, <1>7, <1>8, <1>9

LEMMA ReadOnKeeps ==
    ASSUME FrontInv, NEW w \in Worker, NEW n \in 1..4, ReadOn(w, n)
    PROVE  FrontInv'
  <1> DEFINE p == Parsed(w, n)
  <1>1. PICK m \in Messages, k \in {0, 1, 3} :
           /\ Awaits(w, m, k) /\ k + n <= Size(m)
           /\ SubSeq(coming[w], n + 1, Len(coming[w])) = Piece(m, k + n + 1, Size(m))
           /\ k + n = Size(m) \/ Parts(m)[k + n].part # "header"
    BY ReadingIs DEF ReadOn
  <1> DEFINE j == k + n
  <1>2. \/ j = 1 /\ AtHeaders(p, m, 1)
        \/ j < 4 /\ AtBody(p, m, j)
    BY <1>1, ParsedIs DEF ReadOn
  <1>3. \/ j = 1 /\ AtHeaders(p, m, 1)
        \/ j = 3 /\ AtBody(p, m, 3)
    <2>1. AtBody(p, m, 2) /\ j = 2 => FALSE
      <3> SUFFICES ASSUME AtBody(p, m, 2), j = 2 PROVE FALSE
        OBVIOUS
      <3>1. Size(m) = 4
        BY DEF AtBody, Size, Form
      <3>2. Parts(m)[2].part = "header"
        BY PartsAre, PartNames
      <3> QED
        BY <1>1, <3>1, <3>2
    <2>2. AtBody(p, m, j) => j >= 2
      BY DEF AtBody
    <2> QED
      BY <1>2, <2>1, <2>2
  <1> HIDE DEF p, j
  <1>4. /\ conn' = [conn EXCEPT ![w] = [conn[w] EXCEPT !.state = p.state, !.line = p.line,
                                                       !.header = p.header, !.inBuffer = p.inBuffer]]
        /\ coming' = [coming EXCEPT ![w] = SubSeq(@, n + 1, Len(@))]
        /\ asked' = asked /\ pc' = pc /\ req' = req
    BY DEF ReadOn, Resumed, Consume, vars, p
  <1>5. /\ DOMAIN conn = Worker /\ DOMAIN coming = Worker /\ DOMAIN asked = Worker
        /\ \A v \in Worker : DOMAIN conn[v] = Fields
                             /\ DOMAIN conn[v].m_paramsMap = {"id", "value"}
    BY DEF FrontInv, FrontVariables
  <1>6. /\ DOMAIN conn'[w] = Fields /\ conn'[w].m_paramsMap = conn[w].m_paramsMap
        /\ conn'[w].state = p.state /\ conn'[w].line = p.line /\ conn'[w].header = p.header
        /\ conn'[w].inBuffer = p.inBuffer /\ conn'[w].up = conn[w].up
        /\ conn'[w].out = conn[w].out
    BY <1>4, <1>5 DEF Fields
  <1>7. FrontVariables'
    BY <1>4, <1>5, <1>6 DEF FrontVariables
  <1>8. coming'[w] = Piece(m, j + 1, Size(m))
    BY <1>1, <1>4, <1>5 DEF j
  <1>9. Awaits(w, m, j)'
    <2>1. CASE j = 1 /\ AtHeaders(p, m, 1)
      <3>1. p.inBuffer = <<>>
        <4>1. 2 \in 1..5 /\ 1 \in 0..4 /\ 2 <= 1 + 1 /\ 1 <= Size(m)
          BY DEF Size
        <4>2. Piece(m, 2, 1) \in Seq(Part(m)) /\ Len(Piece(m, 2, 1)) = 1 - 2 + 1
          BY <4>1, PieceIs
        <4>3. Piece(m, 2, 1) = <<>>
          BY <4>2
        <4> QED
          BY <2>1, <4>3 DEF AtHeaders
      <3> QED
        BY <1>1, <1>4, <1>6, <1>8, <2>1, <3>1 DEF Awaits, AtHeaders
    <2>2. CASE j = 3 /\ AtBody(p, m, 3)
      BY <1>1, <1>4, <1>6, <1>8, <2>2 DEF Awaits, AtBody
    <2> QED
      BY <1>3, <2>1, <2>2
  <1>10. Stage(w)'
    BY <1>3, <1>9 DEF Stage
  <1>11. Untouched(w)
    BY <1>4, <1>5 DEF Untouched
  <1> QED
    BY <1>7, <1>10, <1>11, FrontElsewhere

-----------------------------------------------------------------------------
(* What a request that is read to its end asks for.                         *)

\* The members of a form, all of them read.
LEMMA FormRead ==
    ASSUME NEW m \in Messages, Form(m), NEW params, DOMAIN params = {"id", "value"}
    PROVE  LET got == parseContent(params, Piece(m, 3, 4)) IN
           /\ DOMAIN got = {"id", "value"}
           /\ m.r.method = "POST" => got.id = m.r.id
           /\ got.value = m.r.value
  <1> DEFINE body == Piece(m, 3, 4)
             got == parseContent(params, body)
  <1>1. Len(body) = 2 /\ body[1] = Parts(m)[3] /\ body[2] = Parts(m)[4]
    <2>1. 3 \in 1..5 /\ 4 \in 0..4 /\ 3 <= 4 + 1 /\ 4 <= Size(m)
      BY DEF Size
    <2>2. /\ Len(body) = 4 - 3 + 1
          /\ \A k \in 1..(4 - 3 + 1) : body[k] = Parts(m)[3 + k - 1]
      BY <2>1, PieceIs
    <2> HIDE DEF body
    <2> QED
      BY <2>2
  <1>2. /\ body[1].key = "id" /\ body[2].key = "value"
        /\ m.r.method = "POST" => body[1].text = m.r.id
        /\ body[2].text = m.r.value
    BY <1>1, PartsAre
  <1> HIDE DEF body
  <1>3. Given(body, "id") = {1} /\ Given(body, "value") = {2}
    BY <1>1, <1>2 DEF Given
  <1>4. LastOf(body, "id") = body[1].text /\ LastOf(body, "value") = body[2].text
    <2>1. (CHOOSE i \in {1} : \A j \in {1} : j <= i) = 1
      OBVIOUS
    <2>2. (CHOOSE i \in {2} : \A j \in {2} : j <= i) = 2
      OBVIOUS
    <2> QED
      BY <1>3, <2>1, <2>2 DEF LastOf
  <1>5. /\ DOMAIN got = {"id", "value"}
        /\ got["id"] = LastOf(body, "id") /\ got["value"] = LastOf(body, "value")
    <2>1. Given(body, "id") # {} /\ Given(body, "value") # {}
      BY <1>3
    <2> QED
      BY <2>1 DEF parseContent
  <1> QED
    BY <1>2, <1>4, <1>5 DEF body

LEMMA AsksForIt ==
    ASSUME NEW m \in Messages, Known(Line(m)), NEW got,
           m.r.method = "POST" => got.id = m.r.id,
           Form(m) => got.value = m.r.value
    PROVE  m.r \in Requests /\ Asks(Line(m), got) = m.r
  <1>1. m.r \in Requests
    BY MessageType
  <1>2. /\ Line(m).method = m.r.method /\ Line(m).uri = m.r.uri /\ Line(m).after = m.r.after
    BY PartNames
  <1>3. /\ m.r = [method |-> m.r.method, uri |-> m.r.uri, after |-> m.r.after,
                  id |-> m.r.id, value |-> m.r.value]
        /\ m.r.method # "POST" => m.r.id = NoText
        /\ ~Form(m) => m.r.value = None
    BY <1>1 DEF Requests, Form
  <1>4. Asks(Line(m), got) = [method |-> m.r.method, uri |-> m.r.uri, after |-> m.r.after,
                              id |-> m.r.id, value |-> m.r.value]
    BY <1>2, <1>3 DEF Asks, Form
  <1> QED
    BY <1>1, <1>3, <1>4

LEMMA ReadToItsEnd ==
    ASSUME FrontInv, Careful, NEW w \in Worker, NEW n \in 1..4, Reading(w, n),
           Parsed(w, n).flag = "ok", Known(Parsed(w, n).line)
    PROVE  \E m \in Messages :
              /\ asked[w] = m /\ m.r \in Requests
              /\ SubSeq(coming[w], n + 1, Len(coming[w])) = <<>>
              /\ LET p == Parsed(w, n)
                     params == IF p.line.method \in {"POST", "PUT"}
                               THEN parseContent(conn[w].m_paramsMap, p.inBuffer)
                               ELSE conn[w].m_paramsMap
                 IN  DOMAIN params = {"id", "value"} /\ Asks(p.line, params) = m.r
  <1> DEFINE p == Parsed(w, n)
             params == IF p.line.method \in {"POST", "PUT"}
                       THEN parseContent(conn[w].m_paramsMap, p.inBuffer)
                       ELSE conn[w].m_paramsMap
  <1>1. PICK m \in Messages, k \in {0, 1, 3} :
           /\ Awaits(w, m, k) /\ k + n <= Size(m)
           /\ SubSeq(coming[w], n + 1, Len(coming[w])) = Piece(m, k + n + 1, Size(m))
           /\ k + n = Size(m) \/ m.r.method # "PUT"
    BY ReadingIs
  <1>2. AtEnd(p, m, k + n)
    BY <1>1, ParsedIs
  <1>3. k + n = Size(m) /\ Size(m) \in {2, 4} /\ (Form(m) <=> Size(m) = 4)
    <2>1. Size(m) \in {2, 4} /\ (Form(m) <=> Size(m) = 4)
      BY DEF Size
    <2>2. k + n >= 2 /\ (m.r.method = "POST" => k + n = 4)
      BY <1>2 DEF AtEnd
    <2> QED
      BY <1>1, <2>1, <2>2 DEF Form
  <1>4. p.line = Line(m) /\ p.line.method = m.r.method
        /\ (Form(m) => p.inBuffer = Piece(m, 3, 4))
    BY <1>2, <1>3, PartNames DEF AtEnd
  <1> HIDE DEF p
  <1>5. Piece(m, k + n + 1, Size(m)) = <<>>
    <2> DEFINE s == Size(m)
               i == k + n + 1
    <2>1. i \in 1..5 /\ s \in 0..4 /\ i <= s + 1 /\ s <= Size(m) /\ s - i + 1 = 0
      BY <1>3
    <2> HIDE DEF s, i
    <2>2. Piece(m, i, s) \in Seq(Part(m)) /\ Len(Piece(m, i, s)) = 0
      BY <2>1, PieceIs
    <2>3. Piece(m, i, s) = <<>>
      BY <2>2
    <2> QED
      BY <2>3 DEF s, i
  <1>6. DOMAIN conn[w].m_paramsMap = {"id", "value"}
    BY DEF FrontInv, FrontVariables
  <1>7. /\ DOMAIN params = {"id", "value"}
        /\ m.r.method = "POST" => params.id = m.r.id
        /\ Form(m) => params.value = m.r.value
    <2>1. CASE Form(m)
      <3>1. params = parseContent(conn[w].m_paramsMap, Piece(m, 3, 4))
        BY <1>4, <2>1 DEF Form
      <3> HIDE DEF params
      <3> QED
        BY <1>6, <2>1, <3>1, FormRead
    <2>2. CASE ~Form(m)
      <3>1. params = conn[w].m_paramsMap
        BY <1>4, <2>2 DEF Form
      <3> QED
        BY <1>6, <2>2, <3>1 DEF Form
    <2> QED
      BY <2>1, <2>2
  <1> HIDE DEF params
  <1>8. m.r \in Requests /\ Asks(p.line, params) = m.r
    <2>1. Known(Line(m))
      BY <1>4 DEF p
    <2> QED
      BY <1>4, <1>7, <2>1, AsksForIt
  <1> QED
    BY <1>1, <1>5, <1>7, <1>8 DEF p, params, Awaits

-----------------------------------------------------------------------------
(* Every step keeps each connection at one of its stages.                   *)

LEMMA AnalysisKeeps ==
    ASSUME FrontInv, StoreInv, Careful, NEW w \in Worker, NEW n \in 1..4,
           analysisRequest(w, n)
    PROVE  FrontInv' /\ \E r \in Requests : Begin(w, r)
  <1> DEFINE p == Parsed(w, n)
             params == IF p.line.method \in {"POST", "PUT"}
                       THEN parseContent(conn[w].m_paramsMap, p.inBuffer)
                       ELSE conn[w].m_paramsMap
  <1>1. /\ Reading(w, n) /\ p.flag = "ok" /\ Known(p.line)
        /\ Begin(w, Asks(p.line, params))
        /\ conn' = [conn EXCEPT ![w] = [Resumed(w, p) EXCEPT !.m_paramsMap = params]]
        /\ coming' = [coming EXCEPT ![w] = SubSeq(@, n + 1, Len(@))]
        /\ asked' = asked
    BY DEF analysisRequest, Consume
  <1>2. PICK m \in Messages :
           /\ asked[w] = m /\ m.r \in Requests
           /\ SubSeq(coming[w], n + 1, Len(coming[w])) = <<>>
           /\ DOMAIN params = {"id", "value"} /\ Asks(p.line, params) = m.r
    BY <1>1, ReadToItsEnd
  <1> HIDE DEF p, params
  <1>3. Begin(w, m.r)
    BY <1>1, <1>2
  <1>4. \A v \in Worker \ {w} : pc'[v] = pc[v] /\ req'[v] = req[v]
    BY <1>2, <1>3, OthersStay
  <1>5. pc'[w] = "map" /\ req'[w] = m.r
    BY <1>3 DEF Begin, Goto, StoreInv, Variables
  <1>6. /\ DOMAIN conn = Worker /\ DOMAIN coming = Worker /\ DOMAIN asked = Worker
        /\ \A v \in Worker : DOMAIN conn[v] = Fields
                             /\ DOMAIN conn[v].m_paramsMap = {"id", "value"}
    BY DEF FrontInv, FrontVariables
  <1>7. /\ DOMAIN conn'[w] = Fields /\ conn'[w].m_paramsMap = params
        /\ conn'[w].up = conn[w].up /\ conn'[w].out = conn[w].out
    BY <1>1, <1>6 DEF Resumed, Fields
  <1>8. FrontVariables'
    BY <1>1, <1>2, <1>6, <1>7 DEF FrontVariables
  <1>9. conn[w].up /\ ~conn[w].out
    BY <1>1 DEF Reading
  <1>10. Serves(w, m)'
    BY <1>1, <1>2, <1>5, <1>6, <1>7, <1>9 DEF Serves
  <1>11. Untouched(w)
    BY <1>1, <1>4, <1>6 DEF Untouched
  <1>12. Stage(w)'
    BY <1>10 DEF Stage
  <1> QED
    BY <1>2, <1>3, <1>8, <1>11, <1>12, FrontElsewhere

LEMMA ConnectKeeps ==
    ASSUME FrontInv, NEW w \in Worker, Connect(w)
    PROVE  FrontInv'
  <1>1. /\ conn' = [conn EXCEPT ![w] = [conn[w] EXCEPT !.up = TRUE]]
        /\ ~conn[w].up /\ coming' = coming /\ asked' = asked /\ pc' = pc /\ req' = req
    BY DEF Connect, vars
  <1>2. /\ DOMAIN conn = Worker /\ DOMAIN coming = Worker /\ DOMAIN asked = Worker
        /\ \A v \in Worker : DOMAIN conn[v] = Fields
                             /\ DOMAIN conn[v].m_paramsMap = {"id", "value"}
    BY DEF FrontInv, FrontVariables
  <1>3. AtRest(w)
    BY <1>1 DEF FrontInv, Stage, Awaits, Serves, Answered
  <1>4. /\ DOMAIN conn'[w] = Fields /\ conn'[w].m_paramsMap = conn[w].m_paramsMap
        /\ conn'[w].out = conn[w].out /\ conn'[w].state = conn[w].state
        /\ conn'[w].inBuffer = conn[w].inBuffer
    BY <1>1, <1>2 DEF Fields
  <1>5. FrontVariables'
    BY <1>1, <1>2, <1>4 DEF FrontVariables
  <1>6. AtRest(w)'
    BY <1>1, <1>3, <1>4 DEF AtRest
  <1>7. Untouched(w)
    BY <1>1, <1>2 DEF Untouched
  <1> QED
    BY <1>5, <1>6, <1>7, FrontElsewhere DEF Stage

LEMMA SendKeeps ==
    ASSUME FrontInv, NEW w \in Worker, NEW m \in Messages, Send(w, m)
    PROVE  FrontInv'
  <1>1. /\ conn[w].up /\ asked[w] = None /\ asked' = [asked EXCEPT ![w] = m]
        /\ coming' = [coming EXCEPT ![w] = coming[w] \o Parts(m)]
        /\ conn' = conn /\ pc' = pc /\ req' = req
    BY DEF Send, vars
  <1>2. DOMAIN conn = Worker /\ DOMAIN coming = Worker /\ DOMAIN asked = Worker
    BY DEF FrontInv, FrontVariables
  <1>3. AtRest(w)
    BY <1>1, MessageType DEF FrontInv, Stage, Awaits, Serves, Answered
  <1>4. coming[w] \o Parts(m) = Piece(m, 1, Size(m))
    <2>1. Parts(m) \in Seq(Part(m)) /\ Len(Parts(m)) = Size(m)
      BY PartsAre
    <2>2. coming[w] \o Parts(m) = Parts(m)
      BY <1>3, <2>1, ConcatEmptySeq DEF AtRest
    <2>3. SubSeq(Parts(m), 1, Len(Parts(m))) = Parts(m)
      BY <2>1, SubSeqFull
    <2> QED
      BY <2>1, <2>2, <2>3 DEF Piece
  <1>5. FrontVariables'
    BY <1>1, <1>2 DEF FrontInv, FrontVariables
  <1>6. Awaits(w, m, 0)'
    BY <1>1, <1>2, <1>3, <1>4 DEF Awaits, AtRest
  <1>7. Untouched(w)
    BY <1>1, <1>2 DEF Untouched
  <1>8. Stage(w)'
    BY <1>6 DEF Stage
  <1> QED
    BY <1>5, <1>7, <1>8, FrontElsewhere

\* A worker at work on its resources.
Works(w) ==
    Get(w) \/ Scan(w) \/ Post(w) \/ Put(w) \/ Copy(w) \/ Store(w)
       \/ OpenFile(w) \/ WriteFile(w) \/ Reply(w)

LEMMA WorksOn ==
    ASSUME StoreInv, NEW w \in Worker, Works(w)
    PROVE  pc[w] # "idle" /\ (pc'[w] # "idle" => req'[w] = req[w])
  <1>1. pc[w] # "idle"
    BY DEF Works, Get, Scan, Post, Put, Copy, Store, OpenFile, WriteFile, Reply
  <1>2. DOMAIN pc = Worker
    BY DEF StoreInv, Variables
  <1>3. pc' = [pc EXCEPT ![w] = "idle"] \/ req' = req
    BY DEF Works, Get, Scan, Post, Put, Copy, Store, OpenFile, WriteFile, Reply, Answer,
           Refuse, Goto
  <1> QED
    BY <1>1, <1>2, <1>3

LEMMA WorkKeeps ==
    ASSUME FrontInv, StoreInv, NEW w \in Worker, Work(w)
    PROVE  FrontInv'
  <1>1. /\ Works(w)
        /\ IF pc'[w] # "idle" THEN UNCHANGED connVars
           ELSE IF pc[w] = "reply" THEN Finish(w) ELSE Drop(w)
    BY DEF Work, Works
  <1>2. \A v \in Worker \ {w} : pc'[v] = pc[v] /\ req'[v] = req[v]
    BY <1>1, OthersStay DEF Works
  <1>3. pc[w] # "idle" /\ (pc'[w] # "idle" => req'[w] = req[w])
    BY <1>1, WorksOn
  <1>4. PICK m \in Messages : Serves(w, m)
    BY <1>3 DEF FrontInv, Stage, AtRest, Awaits, Answered
  <1>5. /\ DOMAIN conn = Worker /\ DOMAIN coming = Worker /\ DOMAIN asked = Worker
        /\ \A v \in Worker : DOMAIN conn[v] = Fields
                             /\ DOMAIN conn[v].m_paramsMap = {"id", "value"}
    BY DEF FrontInv, FrontVariables
  <1>6. CASE pc'[w] # "idle"
    <2>1. conn' = conn /\ coming' = coming /\ asked' = asked
      BY <1>1, <1>6 DEF connVars
    <2>2. FrontVariables'
      BY <1>5, <2>1 DEF FrontVariables
    <2>3. Serves(w, m)'
      BY <1>3, <1>4, <1>6, <2>1 DEF Serves
    <2>4. Stage(w)'
      BY <2>3 DEF Stage
    <2>5. Untouched(w)
      BY <1>2, <2>1 DEF Untouched
    <2> QED
      BY <2>2, <2>4, <2>5, FrontElsewhere
  <1>7. CASE pc'[w] = "idle" /\ Finish(w)
    <2> DEFINE keep == conn[w].keep_alive \/ conn[w].header.keep
               done == [conn[w] EXCEPT !.out = TRUE, !.keep_alive = keep,
                                       !.state = "finish"]
    <2>1. /\ conn' = [conn EXCEPT ![w] = IF keep THEN reset(done) ELSE done]
          /\ coming' = coming /\ asked' = asked
      BY <1>7 DEF Finish
    <2>2. DOMAIN conn[w] = Fields
      BY <1>5
    <2>3. /\ DOMAIN done = Fields /\ done.m_paramsMap = conn[w].m_paramsMap
          /\ done.up = conn[w].up /\ done.out /\ done.keep_alive = keep
      BY <2>2 DEF Fields
    <2>4. /\ DOMAIN reset(done) = Fields /\ reset(done).m_paramsMap = conn[w].m_paramsMap
          /\ reset(done).up = conn[w].up /\ reset(done).out
          /\ reset(done).state = "uri" /\ reset(done).inBuffer = <<>>
      <3> HIDE DEF done
      <3> QED
        BY <2>3 DEF reset, Fields
    <2> HIDE DEF done, keep
    <2>5. /\ DOMAIN conn'[w] = Fields /\ conn'[w].m_paramsMap = conn[w].m_paramsMap
          /\ conn'[w].up = conn[w].up /\ conn'[w].out
          /\ conn'[w].keep_alive => conn'[w].state = "uri" /\ conn'[w].inBuffer = <<>>
      BY <1>5, <2>1, <2>3, <2>4
    <2>6. FrontVariables'
      BY <1>5, <2>1, <2>5 DEF FrontVariables
    <2>7. Answered(w, m)'
      BY <1>4, <1>7, <2>1, <2>5 DEF Answered, Serves
    <2>8. Stage(w)'
      BY <2>7 DEF Stage
    <2>9. Untouched(w)
      BY <1>2, <1>5, <2>1 DEF Untouched
    <2> QED
      BY <2>6, <2>8, <2>9, FrontElsewhere
  <1>8. CASE pc'[w] = "idle" /\ Drop(w)
    BY <1>2, <1>8, Dropped
  <1> QED
    BY <1>1, <1>6, <1>7, <1>8

LEMMA WriteKeeps ==
    ASSUME FrontInv, NEW w \in Worker, Write(w)
    PROVE  FrontInv'
  <1>1. conn[w].up /\ conn[w].out /\ pc' = pc /\ req' = req
    BY DEF Write, vars
  <1>2. PICK m \in Messages : Answered(w, m)
    BY <1>1 DEF FrontInv, Stage, AtRest, Awaits, Serves
  <1>3. CASE conn[w].keep_alive
    <2>1. /\ conn' = [conn EXCEPT ![w] = [conn[w] EXCEPT !.out = FALSE]]
          /\ asked' = [asked EXCEPT ![w] = None] /\ coming' = coming
      BY <1>3 DEF Write
    <2>2. /\ DOMAIN conn = Worker /\ DOMAIN coming = Worker /\ DOMAIN asked = Worker
          /\ \A v \in Worker : DOMAIN conn[v] = Fields
                               /\ DOMAIN conn[v].m_paramsMap = {"id", "value"}
      BY DEF FrontInv, FrontVariables
    <2>3. /\ DOMAIN conn'[w] = Fields /\ conn'[w].m_paramsMap = conn[w].m_paramsMap
          /\ ~conn'[w].out /\ conn'[w].state = conn[w].state
          /\ conn'[w].inBuffer = conn[w].inBuffer
      BY <2>1, <2>2 DEF Fields
    <2>4. FrontVariables'
      BY <2>1, <2>2, <2>3 DEF FrontVariables
    <2>5. AtRest(w)'
      BY <1>1, <1>2, <1>3, <2>1, <2>2, <2>3 DEF AtRest, Answered
    <2>6. Untouched(w)
      BY <1>1, <2>1, <2>2 DEF Untouched
    <2> QED
      BY <2>4, <2>5, <2>6, FrontElsewhere DEF Stage
  <1>4. CASE Drop(w)
    BY <1>1, <1>2, <1>4, Dropped DEF Answered
  <1> QED
    BY <1>3, <1>4 DEF Write

LEMMA FrontInitially ==
    ASSUME FrontInit
    PROVE  FrontInv
  <1>1. DOMAIN Closed = Fields /\ DOMAIN Closed.m_paramsMap = {"id", "value"}
        /\ ~Closed.out /\ Closed.state = "uri" /\ Closed.inBuffer = <<>>
    BY DEF Closed, Fields
  <1>2. /\ conn = [w \in Worker |-> Closed] /\ coming = [w \in Worker |-> <<>>]
        /\ asked = [w \in Worker |-> None] /\ pc = [w \in Worker |-> "idle"]
    BY DEF FrontInit, Init
  <1> QED
    BY <1>1, <1>2 DEF FrontInv, FrontVariables, Stage, AtRest

\* ... and what it does to the resources is a step of RestStore.
LEMMA FrontStep ==
    ASSUME FrontInv, StoreInv, Careful, [FrontNext]_frontVars
    PROVE  FrontInv' /\ [Next]_vars
  <1>1. CASE UNCHANGED frontVars
    <2>1. /\ conn' = conn /\ coming' = coming /\ asked' = asked /\ pc' = pc /\ req' = req
          /\ UNCHANGED vars
      BY <1>1 DEF frontVars, vars
    <2>2. FrontVariables'
      BY <2>1 DEF FrontInv, FrontVariables
    <2>3. \A w \in Worker : Stage(w)'
      BY <2>1 DEF FrontInv, Stage, AtRest, Awaits, Serves, Answered
    <2> QED
      BY <2>1, <2>2, <2>3 DEF FrontInv
  <1>2. ASSUME NEW w \in Worker, Connect(w) PROVE FrontInv' /\ UNCHANGED vars
    BY <1>2, ConnectKeeps DEF Connect
  <1>3. ASSUME NEW w \in Worker, Leave(w) PROVE FrontInv' /\ UNCHANGED vars
    BY <1>3, Dropped DEF Leave, vars
  <1>4. ASSUME NEW w \in Worker, NEW m \in Messages, Send(w, m)
        PROVE  FrontInv' /\ UNCHANGED vars
    BY <1>4, SendKeeps DEF Send
  <1>5. ASSUME NEW w \in Worker, NEW n \in 1..4, ReadOn(w, n)
        PROVE  FrontInv' /\ UNCHANGED vars
    BY <1>5, ReadOnKeeps DEF ReadOn
  <1>6. ASSUME NEW w \in Worker, NEW n \in 1..4, RefuseRead(w, n)
        PROVE  FrontInv' /\ UNCHANGED vars
    BY <1>6, Dropped DEF RefuseRead, Reading, vars
  <1>7. ASSUME NEW w \in Worker, NEW n \in 1..4, analysisRequest(w, n)
        PROVE  FrontInv' /\ Next
    BY <1>7, AnalysisKeeps DEF Next
  <1>8. ASSUME NEW w \in Worker, Work(w) PROVE FrontInv' /\ Next
    BY <1>8, WorkKeeps DEF Work, Next
  <1>9. ASSUME NEW w \in Worker, Write(w) PROVE FrontInv' /\ UNCHANGED vars
    BY <1>9, WriteKeeps DEF Write
  <1> QED
    BY <1>1, <1>2, <1>3, <1>4, <1>5, <1>6, <1>7, <1>8, <1>9 DEF FrontNext

LEMMA FrontServing ==
    ASSUME Careful
    PROVE  FrontSpec => [](FrontInv /\ StoreInv)
  <1>1. FrontInit => FrontInv /\ StoreInv
    BY FrontInitially, StoreInit DEF FrontInit
  <1>2. FrontInv /\ StoreInv /\ [FrontNext]_frontVars => (FrontInv /\ StoreInv)'
    BY FrontStep, StoreKeeps
  <1> QED
    BY <1>1, <1>2, PTL DEF FrontSpec

\* Behind connections whose clients are careful, the resources do what RestStore
\* says of them: the parser never makes of what it read a request that is none.
THEOREM FrontImplementsStore ==
    ASSUME Careful
    PROVE  FrontSpec => Spec
  <1>1. FrontInit => Init
    BY DEF FrontInit
  <1>2. FrontInv /\ StoreInv /\ [FrontNext]_frontVars => [Next]_vars
    BY FrontStep
  <1> QED
    BY <1>1, <1>2, FrontServing, PTL DEF FrontSpec, Spec

\* A worker carries out the request its client sent, with the members of its own
\* form: in whatever segments it came, whatever the connection served before.
THEOREM FrontServesWhatIsAsked ==
    ASSUME Careful
    PROVE  FrontSpec => []GivenIsAsked
  <1>1. FrontInv => GivenIsAsked
    <2> SUFFICES ASSUME FrontInv, NEW w \in Worker, pc[w] # "idle"
                 PROVE  asked[w] # None /\ req[w] = asked[w].r
      BY DEF GivenIsAsked
    <2>1. PICK m \in Messages : Serves(w, m)
      BY DEF FrontInv, Stage, AtRest, Awaits, Answered
    <2> QED
      BY <2>1, MessageType DEF Serves
  <1> QED
    BY <1>1, FrontServing, PTL

\* A request that was read to its end is worked on or answered: the connection never
\* waits for more of it.
THEOREM FrontServesWhatIsRead ==
    ASSUME Careful
    PROVE  FrontSpec => []ReadIsServed
  <1>1. FrontInv => ReadIsServed
    <2> SUFFICES ASSUME FrontInv, NEW w \in Worker, asked[w] # None, coming[w] = <<>>
                 PROVE  pc[w] # "idle" \/ conn[w].out
      BY DEF ReadIsServed
    <2>1. ASSUME NEW m \in Messages, NEW k \in {0, 1, 3}, Awaits(w, m, k) PROVE FALSE
      <3> DEFINE s == Size(m)
                 i == k + 1
      <3>1. i \in 1..5 /\ s \in 0..4 /\ i <= s + 1 /\ s <= Size(m) /\ s - i + 1 # 0
        BY <2>1 DEF Size, Awaits, Form
      <3>2. coming[w] = Piece(m, i, s)
        BY <2>1 DEF Awaits
      <3> HIDE DEF s, i
      <3>3. Len(Piece(m, i, s)) = s - i + 1
        BY <3>1, PieceIs
      <3> QED
        BY <3>1, <3>2, <3>3
    <2> QED
      BY <2>1 DEF FrontInv, Stage, AtRest, Serves, Answered
  <1> QED
    BY <1>1, FrontServing, PTL

\* So what is shown of RestStore holds behind the connections too.
THEOREM FrontKeepsCollection ==
    ASSUME Careful
    PROVE  FrontSpec => []UniqueIds /\ PostedIsThere /\ ImplementsCollection
  BY FrontImplementsStore, StoreKeepsIdsUnique, StoreTakesPosts, StoreImplements

===============================================================================
