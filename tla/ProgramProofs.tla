----------------------------- MODULE ProgramProofs -----------------------------
(***************************************************************************)
(* The programs beside the servers, for any number of threads, names,      *)
(* passwords, callers, observers and bytes. The CGI program registers a    *)
(* name once as long as no two registrations run at once. Both programs    *)
(* with accounts let in who has one as long as no two queries of FastCGI   *)
(* threads meet on their connection. Double-checked locking makes one      *)
(* instance. Observers are all told as long as only the last of them is    *)
(* destroyed. Decoding what a text was encoded to gives it back, however   *)
(* long it is. The seven sorts sort arrays of any length, and the skip     *)
(* list stays one and finds what it has, however many nodes and levels.    *)
(***************************************************************************)
EXTENDS Accounts, Singleton, Observer, UrlCodec, Sorts, SkipList,
        FiniteSetTheorems, SequenceTheorems, WellFoundedInduction, TLAPS

USE AccountAssumption

RowType == [user : User \cup {BadUser}, passwd : Passwd \cup {BadPasswd}]

Unique(t) == \A i, j \in 1..Len(t) : t[i].user = t[j].user => i = j

Registering(t) == pc[t] # "idle" /\ Register(req[t])

\* The one process that registers has the whole table before it.
CgiInv ==
    /\ table \in Seq(RowType) /\ Unique(table)
    /\ pc \in [Thread -> {"idle", "select", "decide"}]
    /\ req \in [Thread -> Request \cup {Nothing}]
    /\ users \in [Thread -> SUBSET RowType]
    /\ \A t \in Thread : pc[t] # "idle" =>
          req[t] \in Request /\ (Register(req[t]) \/ Login(req[t]))
    /\ \A s, t \in Thread : Registering(s) /\ Registering(t) => s = t
    /\ \A t \in Thread : Registering(t) /\ pc[t] = "decide" => users[t] = Rows(table)

IInv == program = "cgi" => CgiInv

\* Of a table whose names are unique the copy is complete.
LEMMA CopyIsWhole ==
    ASSUME NEW t \in Seq(RowType), Unique(t)
    PROVE  Copied(t) = Rows(t) /\ Rows(t) \subseteq RowType
  <1>1. ASSUME NEW row \in Rows(t)
        PROVE  LET k == SelectLastInSeq(t, LAMBDA x : x.user = row.user) IN t[k] = row
    <2>1. PICK i \in 1..Len(t) : t[i] = row
      BY DEF Rows
    <2>2. {j \in 1..Len(t) : t[j].user = row.user} = {i}
      BY <2>1 DEF Unique
    <2>3. Max({i}) = i
      BY DEF Max
    <2>4. SelectLastInSeq(t, LAMBDA x : x.user = row.user) = i
      BY <2>2, <2>3 DEF SelectLastInSeq
    <2> QED
      BY <2>1, <2>4
  <1>2. Rows(t) \subseteq RowType
    BY DEF Rows
  <1> QED
    BY <1>1, <1>2 DEF Copied

LEMMA RegisterRow ==
    ASSUME NEW r \in Request, Register(r)
    PROVE  Row(r) \in RowType /\ Row(r).user = r.user
  BY DEF Request, Register, Row, RowType

LEMMA InitIInv == Init => IInv
  BY DEF Init, IInv, CgiInv, Unique, Registering

LEMMA StartKeeps ==
    ASSUME Careful, CgiInv, program = "cgi", NEW t \in Thread, NEW r \in Request, CgiStart(t, r)
    PROVE  CgiInv'
  <1>0. /\ pc[t] = "idle" /\ pc' = [pc EXCEPT ![t] = "select"]
        /\ req' = [req EXCEPT ![t] = r] /\ UNCHANGED <<table, users>>
        /\ Register(r) \/ Login(r)
    BY DEF CgiStart, Begin, Goto
  <1>1. ASSUME NEW s \in Thread, Registering(s), Register(r) PROVE FALSE
    <2>1. Asks(s) /\ Register(req[s])
      BY <1>1 DEF CgiInv, Registering, Asks
    <2> QED
      BY <1>1, <2>1 DEF CgiStart, Begin, MayBegin
  <1>2. \A s \in Thread : /\ pc'[s] = IF s = t THEN "select" ELSE pc[s]
                          /\ req'[s] = IF s = t THEN r ELSE req[s]
    BY <1>0 DEF CgiInv
  <1>3. \A s, u \in Thread : Registering(s)' /\ Registering(u)' => s = u
    BY <1>1, <1>2 DEF CgiInv, Registering
  <1> QED
    BY <1>0, <1>2, <1>3 DEF CgiInv, Registering, Unique

LEMMA SelectKeeps ==
    ASSUME CgiInv, program = "cgi", NEW t \in Thread, Select(t)
    PROVE  CgiInv'
  <1>1. Copied(table) = Rows(table) /\ Rows(table) \subseteq RowType
    BY CopyIsWhole DEF CgiInv
  <1>2. CASE /\ users' = [users EXCEPT ![t] = Copied(table)] /\ req' = req
             /\ pc' = [pc EXCEPT ![t] = "decide"] /\ pc[t] = "select" /\ table' = table
    <2>1. \A s \in Thread : /\ pc'[s] = IF s = t THEN "decide" ELSE pc[s]
                            /\ users'[s] = IF s = t THEN Rows(table) ELSE users[s]
      BY <1>1, <1>2 DEF CgiInv
    <2>2. \A s \in Thread : Registering(s)' <=> Registering(s)
      BY <1>2, <2>1 DEF Registering
    <2>3. users' \in [Thread -> SUBSET RowType]
      BY <1>1, <1>2 DEF CgiInv
    <2>4. \A s \in Thread : Registering(s)' /\ pc'[s] = "decide" => users'[s] = Rows(table')
      BY <1>2, <2>1, <2>2 DEF CgiInv
    <2>5. pc' \in [Thread -> {"idle", "select", "decide"}]
      BY <1>2 DEF CgiInv
    <2>6. \A s \in Thread : pc'[s] # "idle" => pc[s] # "idle"
      BY <1>2, <2>1
    <2> QED
      BY <1>2, <2>2, <2>3, <2>4, <2>5, <2>6 DEF CgiInv, Unique
  <1>3. CASE /\ users' = users /\ req' = [req EXCEPT ![t] = Nothing]
             /\ pc' = [pc EXCEPT ![t] = "idle"] /\ table' = table
    <2>1. \A s \in Thread : /\ pc'[s] = IF s = t THEN "idle" ELSE pc[s]
                            /\ req'[s] = IF s = t THEN Nothing ELSE req[s]
      BY <1>3 DEF CgiInv
    <2>2. \A s \in Thread : Registering(s)' => Registering(s) /\ s # t
      BY <2>1 DEF Registering
    <2> QED
      BY <1>3, <2>1, <2>2 DEF CgiInv, Unique, Rows
  <1> QED
    BY <1>2, <1>3 DEF Select, Answer, Goto

\* A process ends; the table is unique and nobody else registers beside a change.
LEMMA EndKeeps ==
    ASSUME CgiInv, NEW t \in Thread, NEW answer, Answer(t, answer),
           users' = [users EXCEPT ![t] = {}], table' \in Seq(RowType), Unique(table'),
           table' # table => Registering(t)
    PROVE  CgiInv'
  <1>1. \A s \in Thread : /\ pc'[s] = IF s = t THEN "idle" ELSE pc[s]
                          /\ req'[s] = IF s = t THEN Nothing ELSE req[s]
                          /\ users'[s] = IF s = t THEN {} ELSE users[s]
    BY DEF CgiInv, Answer, Goto
  <1>2. \A s \in Thread : Registering(s)' => Registering(s) /\ s # t
    BY <1>1 DEF Registering
  <1>3. \A s \in Thread : Registering(s)' => table' = table
    BY <1>2 DEF CgiInv
  <1>4. /\ pc' \in [Thread -> {"idle", "select", "decide"}]
        /\ req' \in [Thread -> Request \cup {Nothing}]
        /\ users' \in [Thread -> SUBSET RowType]
    BY DEF CgiInv, Answer, Goto
  <1>5. \A s \in Thread : Registering(s)' /\ pc'[s] = "decide" => users'[s] = Rows(table')
    BY <1>1, <1>2, <1>3 DEF CgiInv
  <1> QED
    BY <1>1, <1>2, <1>4, <1>5 DEF CgiInv

LEMMA RegisterKeeps ==
    ASSUME CgiInv, NEW t \in Thread, CgiRegister(t)
    PROVE  CgiInv'
  <1>1. Registering(t) /\ users[t] = Rows(table) /\ req[t] \in Request
    BY DEF CgiRegister, CgiInv, Registering
  <1>2. table' \in Seq(RowType) /\ Unique(table')
    <2>1. CASE Taken(t)
      BY <2>1 DEF CgiRegister, CgiInv
    <2>2. CASE ~Taken(t)
      <3> PICK row : row = Row(req[t])
        OBVIOUS
      <3>1. row \in RowType /\ row.user = req[t].user
        BY <1>1, RegisterRow DEF Registering
      <3>2. table' = Append(table, row) /\ table \in Seq(RowType) /\ Unique(table)
        BY <2>2 DEF CgiRegister, CgiInv
      <3>3. \A i \in 1..Len(table) : table[i].user # row.user
        BY <1>1, <2>2, <3>1 DEF Taken, Rows
      <3> QED
        BY <3>1, <3>2, <3>3 DEF Unique
    <2> QED
      BY <2>1, <2>2
  <1>3. users' = [users EXCEPT ![t] = {}] /\ \E answer : Answer(t, answer)
    BY DEF CgiRegister
  <1> QED
    BY <1>1, <1>2, <1>3, EndKeeps

\* The program that was chosen stays.
LEMMA ProgramStays == [Next]_vars => program' = program
  <1> SUFFICES ASSUME [Next]_vars PROVE program' = program
    OBVIOUS
  <1>1. ASSUME NEW t \in Thread, NEW r \in Request, CgiStart(t, r) \/ Accept(t, r)
        PROVE  program' = program
    BY <1>1 DEF CgiStart, Accept
  <1>2. ASSUME NEW t \in Thread, \E answer : Answer(t, answer)
        PROVE  program' = program
    BY <1>2 DEF Answer
  <1>3. ASSUME NEW t \in Thread,
               NoEvent(t) \/ CheckToken(t) \/ Refresh(t) \/ Logout(t) \/ Upload(t)
               \/ RegisterGet(t) \/ ConnectFails(t) \/ BadName(t)
        PROVE  program' = program
    BY <1>2, <1>3 DEF NoEvent, CheckToken, Refresh, Logout, Upload, RegisterGet,
                      ConnectFails, BadName
  <1>4. ASSUME NEW t \in Thread,
               Select(t) \/ CgiLogin(t) \/ CgiRegister(t) \/ SetToken(t)
               \/ QueryInsert(t) \/ QuerySelect(t) \/ Registered(t) \/ LoggedIn(t)
        PROVE  program' = program
    BY <1>2, <1>4 DEF Select, CgiLogin, CgiRegister, SetToken, QueryInsert, QuerySelect,
                      Registered, LoggedIn
  <1>5. ASSUME NEW t \in Thread, NEW u, Lock(t) \/ Expire(u) \/ UNCHANGED vars
        PROVE  program' = program
    BY <1>5 DEF Lock, Expire, vars
  <1>6. CASE UNCHANGED vars
    BY <1>6 DEF vars
  <1>7. ASSUME NEW u, Expire(u) PROVE program' = program
    BY <1>7 DEF Expire
  <1>8. ASSUME NEW t \in Thread, Work(t) PROVE program' = program
    BY <1>3, <1>4, <1>8 DEF Work
  <1> QED
    BY <1>1, <1>5, <1>6, <1>7, <1>8 DEF Next

\* A process of the CGI program takes no step of the other one.
LEMMA CgiActs ==
    ASSUME CgiInv, program = "cgi", NEW t \in Thread
    PROVE  /\ ~Lock(t) /\ \A r \in Request : ~Accept(t, r)
           /\ Work(t) => Select(t) \/ CgiLogin(t) \/ CgiRegister(t)
  BY DEF CgiInv, Lock, Accept, Work, NoEvent, SetToken, CheckToken, Refresh, Logout, Upload,
         RegisterGet, ConnectFails, BadName, QueryInsert, QuerySelect, Registered, LoggedIn

LEMMA NextIInv == Careful /\ IInv /\ [Next]_vars => IInv'
  <1> SUFFICES ASSUME Careful, IInv, [Next]_vars, program' = "cgi" PROVE CgiInv'
    BY DEF IInv
  <1>0. program = "cgi"
    BY ProgramStays
  <1>1. CgiInv
    BY <1>0 DEF IInv
  <1>2. CASE UNCHANGED vars
    BY <1>1, <1>2 DEF vars, CgiInv, Unique, Registering, Rows
  <1>3. ASSUME NEW t \in Thread, NEW r \in Request, CgiStart(t, r) PROVE CgiInv'
    BY <1>0, <1>1, <1>3, StartKeeps
  <1>4. ASSUME NEW t \in Thread, Select(t) PROVE CgiInv'
    BY <1>0, <1>1, <1>4, SelectKeeps
  <1>5. ASSUME NEW t \in Thread, CgiLogin(t) PROVE CgiInv'
    <2>1. /\ users' = [users EXCEPT ![t] = {}] /\ table' = table
          /\ \E answer : Answer(t, answer)
      BY <1>5 DEF CgiLogin
    <2> QED
      BY <1>1, <2>1, EndKeeps DEF CgiInv
  <1>6. ASSUME NEW t \in Thread, CgiRegister(t) PROVE CgiInv'
    BY <1>1, <1>6, RegisterKeeps
  <1>7. ASSUME NEW u, Expire(u) PROVE CgiInv'
    BY <1>1, <1>7 DEF Expire, CgiInv, Unique, Registering, Rows
  <1>8. ASSUME NEW t \in Thread
        PROVE  /\ ~Lock(t) /\ \A r \in Request : ~Accept(t, r)
               /\ Work(t) => Select(t) \/ CgiLogin(t) \/ CgiRegister(t)
    BY <1>0, <1>1, CgiActs
  <1> QED
    BY <1>2, <1>3, <1>4, <1>5, <1>6, <1>7, <1>8 DEF Next

\* While no two registrations run at once, a name is registered once: the copy a
\* process compares with is then the whole table (sign.cpp:96-113).
THEOREM NamesStayUnique == Careful => (Spec => []NamesAreUnique)
  <1> SUFFICES ASSUME Careful PROVE Spec => []NamesAreUnique
    OBVIOUS
  <1>1. IInv => NamesAreUnique
    BY DEF IInv, CgiInv, Unique, NamesAreUnique
  <1>2. IInv /\ [Next]_vars => IInv'
    BY NextIInv
  <1> QED
    BY <1>1, <1>2, InitIInv, PTL DEF Spec

-----------------------------------------------------------------------------
(* Who is let in.                                                           *)

\* Who is known when a request begins stays in the table.
Knows ==
    /\ program \in {"cgi", "fastcgi"}
    /\ table \in Seq(RowType)
    /\ DOMAIN pc = Thread /\ DOMAIN req = Thread /\ DOMAIN known = Thread
    /\ \A t \in Thread : known[t] => Row(req[t]) \in Rows(table)

\* The copy a process decides with is of the table, and not older than its request.
Copies ==
    \A t \in Thread : pc[t] = "decide" =>
        /\ users[t] \subseteq Rows(table)
        /\ known[t] => Row(req[t]) \in users[t]

Querying == {"connect", "result"}

\* One thread at a time has a query on the connection: the result is its own.
Queries ==
    /\ \A t \in Thread : pc[t] \notin {"idle", "accept"} => req[t] \in Request
    /\ \A t \in Thread : pc[t] \in {"finish", "handle", "refresh"} => ~Asks(t)
    /\ \A s, t \in Thread : Asks(s) /\ Asks(t) => s = t
    /\ \A t \in Thread : pc[t] \in Querying => Asks(t)
    /\ \A t \in Thread : pc[t] = "result" /\ Login(req[t]) =>
          (Affected <=> Row(req[t]) \in Rows(table))

FastLabels == {"idle", "accept", "finish", "token", "handle", "refresh"} \cup Querying

FastInv == Knows /\ Queries /\ pc \in [Thread -> FastLabels] /\ program = "fastcgi"

LoginInv == Knows /\ (program = "cgi" => CgiInv /\ Copies) /\ (program = "fastcgi" => FastInv)

LEMMA RowsGrow ==
    ASSUME NEW t \in Seq(RowType), NEW row \in RowType
    PROVE  Append(t, row) \in Seq(RowType) /\ Rows(Append(t, row)) = Rows(t) \cup {row}
  <1>1. /\ Append(t, row) \in Seq(RowType) /\ Len(Append(t, row)) = Len(t) + 1
        /\ \A i \in 1..Len(t) : Append(t, row)[i] = t[i]
        /\ Append(t, row)[Len(t) + 1] = row
    OBVIOUS
  <1>2. 1..(Len(t) + 1) = 1..Len(t) \cup {Len(t) + 1}
    OBVIOUS
  <1> QED
    BY <1>1, <1>2 DEF Rows

\* A SELECT affects no rows just when there are none.
LEMMA SelectedCounts ==
    ASSUME table \in Seq(RowType), NEW r
    PROVE  Cardinality(Selected(r)) # 0 <=> Row(r) \in Rows(table)
  <1>1. IsFiniteSet(Selected(r))
    <2>1. Len(table) \in Nat /\ Selected(r) \subseteq 1..Len(table)
      BY DEF Selected
    <2>2. IsFiniteSet(1..Len(table))
      BY <2>1, FS_Interval
    <2> QED
      BY <2>1, <2>2, FS_Subset
  <1>2. Cardinality(Selected(r)) = 0 <=> Selected(r) = {}
    BY <1>1, FS_EmptySet
  <1> QED
    BY <1>2 DEF Selected, Rows

\* While the table only grows and the requests known stay, Knows stays.
LEMMA KnowsStays ==
    ASSUME Knows, program' = program, table' \in Seq(RowType), Rows(table) \subseteq Rows(table'),
           DOMAIN pc' = Thread, DOMAIN req' = Thread, DOMAIN known' = Thread,
           \A t \in Thread : known'[t] => known[t] /\ req'[t] = req[t]
    PROVE  Knows'
  BY DEF Knows

-----------------------------------------------------------------------------
(* The steps of the CGI program.                                            *)

LEMMA CgiStepKeeps ==
    ASSUME LoginInv, Careful, [Next]_vars, program = "cgi"
    PROVE  Knows' /\ Copies'
  <1>0. CgiInv /\ Knows /\ Copies
    BY DEF LoginInv
  <1>1. program' = program
    BY ProgramStays
  <1>2. CASE UNCHANGED vars
    BY <1>0, <1>2 DEF vars, Knows, Copies, Rows
  <1>3. ASSUME NEW t \in Thread, NEW r \in Request, CgiStart(t, r) PROVE Knows' /\ Copies'
    <2>1. /\ pc[t] = "idle" /\ pc' = [pc EXCEPT ![t] = "select"]
          /\ req' = [req EXCEPT ![t] = r] /\ table' = table /\ users' = users
          /\ known' = [known EXCEPT ![t] = Row(r) \in Rows(table)]
      BY <1>3 DEF CgiStart, Begin, Goto
    <2>2. \A s \in Thread : /\ pc'[s] = IF s = t THEN "select" ELSE pc[s]
                            /\ req'[s] = IF s = t THEN r ELSE req[s]
                            /\ known'[s] = IF s = t THEN Row(r) \in Rows(table) ELSE known[s]
      BY <1>0, <2>1 DEF Knows
    <2>3. DOMAIN pc' = Thread /\ DOMAIN req' = Thread /\ DOMAIN known' = Thread
      BY <1>0, <2>1 DEF Knows
    <2>4. Knows'
      <3>1. ASSUME NEW s \in Thread, known'[s] PROVE Row(req'[s]) \in Rows(table')
        BY <1>0, <2>1, <2>2, <3>1 DEF Knows
      <3> QED
        BY <1>0, <1>1, <2>1, <2>3, <3>1 DEF Knows
    <2> QED
      BY <1>0, <2>1, <2>2, <2>4 DEF Copies
  <1>4. ASSUME NEW t \in Thread, NEW answer, Answer(t, answer),
               table' \in Seq(RowType), Rows(table) \subseteq Rows(table'),
               users' = [users EXCEPT ![t] = {}] \/ users' = users
        PROVE  Knows' /\ Copies'
    <2>1. \A s \in Thread : /\ pc'[s] = IF s = t THEN "idle" ELSE pc[s]
                            /\ req'[s] = IF s = t THEN Nothing ELSE req[s]
                            /\ known'[s] = IF s = t THEN FALSE ELSE known[s]
                            /\ s # t => users'[s] = users[s]
      BY <1>0, <1>4 DEF Knows, Answer, Goto, CgiInv
    <2>2. DOMAIN pc' = Thread /\ DOMAIN req' = Thread /\ DOMAIN known' = Thread
      BY <1>0, <1>4 DEF Knows, Answer, Goto
    <2>3. Knows'
      BY <1>0, <1>1, <1>4, <2>1, <2>2, KnowsStays
    <2> QED
      BY <1>0, <1>4, <2>1, <2>3 DEF Copies
  <1>5. ASSUME NEW t \in Thread, Select(t) PROVE Knows' /\ Copies'
    <2>1. Copied(table) = Rows(table)
      BY <1>0, CopyIsWhole DEF CgiInv
    <2>2. CASE /\ users' = [users EXCEPT ![t] = Copied(table)] /\ Goto(t, "decide")
               /\ UNCHANGED <<program, req, known, said>> /\ table' = table
      <3>1. \A s \in Thread : /\ pc'[s] = IF s = t THEN "decide" ELSE pc[s]
                              /\ users'[s] = IF s = t THEN Rows(table) ELSE users[s]
        BY <1>0, <2>1, <2>2 DEF Knows, Goto, CgiInv
      <3>2. Knows'
        BY <1>0, <2>2 DEF Knows, Rows, Goto
      <3>3. ASSUME NEW s \in Thread, pc'[s] = "decide"
            PROVE  users'[s] \subseteq Rows(table') /\ (known'[s] => Row(req'[s]) \in users'[s])
        BY <1>0, <2>2, <3>1, <3>3 DEF Copies, Knows
      <3> QED
        BY <3>2, <3>3 DEF Copies
    <2>3. CASE Answer(t, "Error") /\ users' = users /\ table' = table
      BY <1>0, <1>4, <2>3 DEF Knows
    <2> QED
      BY <1>5, <2>2, <2>3 DEF Select
  <1>6. ASSUME NEW t \in Thread, CgiLogin(t) PROVE Knows' /\ Copies'
    <2>1. /\ users' = [users EXCEPT ![t] = {}] /\ table' = table
          /\ \E answer : Answer(t, answer)
      BY <1>6 DEF CgiLogin
    <2> QED
      BY <1>0, <1>4, <2>1 DEF Knows
  <1>7. ASSUME NEW t \in Thread, CgiRegister(t) PROVE Knows' /\ Copies'
    <2>1. /\ users' = [users EXCEPT ![t] = {}] /\ \E answer : Answer(t, answer)
          /\ table' = table \/ table' = Append(table, Row(req[t]))
      BY <1>7 DEF CgiRegister
    <2>2. Row(req[t]) \in RowType
      BY <1>0, <1>7, RegisterRow DEF CgiRegister, CgiInv
    <2>3. table' \in Seq(RowType) /\ Rows(table) \subseteq Rows(table')
      BY <1>0, <2>1, <2>2, RowsGrow DEF Knows
    <2> QED
      BY <1>4, <2>1, <2>3
  <1>8. ASSUME NEW u, Expire(u) PROVE Knows' /\ Copies'
    BY <1>0, <1>8 DEF Expire, Knows, Copies, Rows
  <1>9. ASSUME NEW t \in Thread
        PROVE  /\ ~Lock(t) /\ \A r \in Request : ~Accept(t, r)
               /\ Work(t) => Select(t) \/ CgiLogin(t) \/ CgiRegister(t)
    BY <1>0, CgiActs
  <1> QED
    BY <1>2, <1>3, <1>5, <1>6, <1>7, <1>8, <1>9 DEF Next

-----------------------------------------------------------------------------
(* The steps of the FastCGI program.                                        *)

LEMMA AcceptKeeps ==
    ASSUME FastInv, Careful, NEW t \in Thread, NEW r \in Request, Accept(t, r)
    PROVE  FastInv'
  <1>1. /\ pc[t] = "accept" /\ pc' = [pc EXCEPT ![t] = IF r.url = "/other" THEN "finish"
                                                       ELSE "token"]
        /\ req' = [req EXCEPT ![t] = r] /\ table' = table /\ rows' = rows
        /\ known' = [known EXCEPT ![t] = Row(r) \in Rows(table)]
        /\ program' = program
    BY DEF Accept, Begin, Goto
  <1>2. /\ \A s \in Thread : /\ s # t => pc'[s] = pc[s] /\ req'[s] = req[s] /\ known'[s] = known[s]
                             /\ s = t => /\ pc'[s] \in {"finish", "token"} /\ req'[s] = r
                                         /\ pc'[s] = "finish" <=> r.url = "/other"
                                         /\ known'[s] = (Row(r) \in Rows(table))
        /\ DOMAIN pc' = Thread /\ DOMAIN req' = Thread /\ DOMAIN known' = Thread
    BY <1>1 DEF FastInv, Knows
  <1>3. Knows'
    <2>1. ASSUME NEW s \in Thread, known'[s] PROVE Row(req'[s]) \in Rows(table')
      BY <1>1, <1>2, <2>1 DEF FastInv, Knows
    <2> QED
      BY <1>1, <1>2, <2>1 DEF FastInv, Knows
  <1>4. /\ \A s \in Thread \ {t} : Asks(s)' <=> Asks(s)
        /\ Asks(t)' => Register(r) \/ Login(r)
    BY <1>2 DEF Asks
  <1>5. ASSUME NEW s \in Thread, Asks(s), Register(r) \/ Login(r) PROVE FALSE
    BY <1>5 DEF Accept, Begin, MayBegin, FastInv
  <1>6. /\ \A s \in Thread : pc'[s] \notin {"idle", "accept"} => req'[s] \in Request
        /\ \A s \in Thread : pc'[s] \in {"finish", "handle", "refresh"} => ~Asks(s)'
    <2>1. r.url = "/other" => ~Register(r) /\ ~Login(r)
      BY DEF Register, Login
    <2> QED
      BY <1>2, <1>4, <2>1 DEF FastInv, Queries
  <1>7. \A s, u \in Thread : Asks(s)' /\ Asks(u)' => s = u
    BY <1>4, <1>5 DEF FastInv, Queries
  <1>8. /\ \A s \in Thread : pc'[s] \in Querying => s # t
        /\ \A s \in Thread : pc'[s] \in Querying => Asks(s)'
    BY <1>2, <1>4 DEF FastInv, Queries, Querying
  <1>9. ASSUME NEW s \in Thread, pc'[s] = "result" /\ Login(req'[s])
        PROVE  Affected' <=> Row(req'[s]) \in Rows(table')
    <2>1. s # t /\ pc[s] = "result" /\ req'[s] = req[s]
      BY <1>2, <1>9
    <2>2. Affected' <=> Affected
      BY <1>1 DEF Affected
    <2> QED
      BY <1>1, <1>9, <2>1, <2>2 DEF FastInv, Queries
  <1>10. Queries'
    BY <1>6, <1>7, <1>8, <1>9 DEF Queries
  <1>11. pc' \in [Thread -> FastLabels]
    BY <1>1 DEF FastInv, FastLabels
  <1> QED
    BY <1>1, <1>3, <1>10, <1>11 DEF FastInv

\* A thread goes on with its request.
LEMMA GoesOn ==
    ASSUME FastInv, NEW t \in Thread, NEW label \in FastLabels, Goto(t, label),
           program' = program, req' = req, known' = known,
           table' \in Seq(RowType), Rows(table) \subseteq Rows(table'),
           label \in {"finish", "handle", "refresh"} => ~Asks(t),
           label \in Querying => Asks(t),
           pc[t] \in {"idle", "accept"} => label \in {"idle", "accept"},
           (rows' = rows /\ table' = table) \/ Asks(t),
           label = "result" /\ Login(req[t]) => (Affected' <=> Row(req[t]) \in Rows(table'))
    PROVE  FastInv'
  <1>1. /\ pc' = [pc EXCEPT ![t] = label]
        /\ \A s \in Thread : /\ s # t => pc'[s] = pc[s]
                             /\ s = t => pc'[s] = label
    BY DEF FastInv, Goto
  <1>2. Knows'
    BY <1>1, KnowsStays DEF FastInv, Knows
  <1>3. /\ \A s \in Thread \ {t} : Asks(s)' <=> Asks(s)
        /\ Asks(t)' => Asks(t) /\ label \notin {"idle", "accept"}
        /\ Asks(t) => Asks(t)' \/ label \in {"idle", "accept"}
    BY <1>1 DEF Asks
  <1>4. /\ \A s \in Thread : pc'[s] \notin {"idle", "accept"} => req'[s] \in Request
        /\ \A s \in Thread : pc'[s] \in {"finish", "handle", "refresh"} => ~Asks(s)'
        /\ \A s, u \in Thread : Asks(s)' /\ Asks(u)' => s = u
        /\ \A s \in Thread : pc'[s] \in Querying => Asks(s)'
    BY <1>1, <1>3 DEF FastInv, Queries, Querying
  <1>5. ASSUME NEW s \in Thread, pc'[s] = "result" /\ Login(req'[s])
        PROVE  Affected' <=> Row(req'[s]) \in Rows(table')
    <2>1. CASE s = t
      BY <1>1, <1>5, <2>1
    <2>2. CASE s # t
      <3>1. Asks(s) /\ pc[s] = "result" /\ Login(req[s])
        BY <1>1, <1>5, <2>2 DEF FastInv, Queries, Querying
      <3>2. ~Asks(t)
        BY <3>1, <2>2 DEF FastInv, Queries
      <3>3. Affected' <=> Affected
        BY <3>2 DEF Affected
      <3> QED
        BY <3>1, <3>2, <3>3 DEF FastInv, Queries
    <2> QED
      BY <2>1, <2>2
  <1>6. Queries'
    BY <1>4, <1>5 DEF Queries
  <1> QED
    BY <1>1, <1>2, <1>6 DEF FastInv

LEMMA AnswerKeeps ==
    ASSUME FastInv, NEW t \in Thread, NEW answer, Answer(t, answer), table' = table, rows' = rows
    PROVE  FastInv'
  <1>1. /\ pc' = [pc EXCEPT ![t] = "idle"] /\ req' = [req EXCEPT ![t] = Nothing]
        /\ known' = [known EXCEPT ![t] = FALSE] /\ program' = program
    BY DEF Answer, Goto
  <1>2. /\ \A s \in Thread : /\ s # t => pc'[s] = pc[s] /\ req'[s] = req[s] /\ known'[s] = known[s]
                             /\ s = t => pc'[s] = "idle" /\ ~known'[s]
        /\ DOMAIN pc' = Thread /\ DOMAIN req' = Thread /\ DOMAIN known' = Thread
    BY <1>1 DEF FastInv, Knows
  <1>3. Knows'
    <2>1. ASSUME NEW s \in Thread, known'[s] PROVE Row(req'[s]) \in Rows(table')
      BY <1>1, <1>2, <2>1 DEF FastInv, Knows
    <2> QED
      BY <1>1, <1>2, <2>1 DEF FastInv, Knows
  <1>4. (\A s \in Thread \ {t} : Asks(s)' <=> Asks(s)) /\ ~Asks(t)'
    BY <1>2 DEF Asks
  <1>5. /\ \A s \in Thread : pc'[s] \notin {"idle", "accept"} => req'[s] \in Request
        /\ \A s \in Thread : pc'[s] \in {"finish", "handle", "refresh"} => ~Asks(s)'
        /\ \A s, u \in Thread : Asks(s)' /\ Asks(u)' => s = u
        /\ \A s \in Thread : pc'[s] \in Querying => Asks(s)'
    BY <1>2, <1>4 DEF FastInv, Queries, Querying
  <1>6. ASSUME NEW s \in Thread, pc'[s] = "result" /\ Login(req'[s])
        PROVE  Affected' <=> Row(req'[s]) \in Rows(table')
    <2>1. s # t /\ pc[s] = "result" /\ req'[s] = req[s]
      BY <1>2, <1>6
    <2>2. Affected' <=> Affected
      BY DEF Affected
    <2> QED
      BY <1>6, <2>1, <2>2 DEF FastInv, Queries
  <1>7. Queries'
    BY <1>5, <1>6 DEF Queries
  <1>8. pc' \in [Thread -> FastLabels]
    BY <1>1 DEF FastInv, FastLabels
  <1> QED
    BY <1>1, <1>3, <1>7, <1>8 DEF FastInv

LEMMA FastWorks ==
    ASSUME FastInv, NEW t \in Thread, Work(t)
    PROVE  FastInv'
  <1>1. ASSUME NEW answer, Answer(t, answer), table' = table, rows' = rows PROVE FastInv'
    BY <1>1, AnswerKeeps
  <1>2. CASE NoEvent(t)
    BY <1>1, <1>2 DEF NoEvent, fcgiVars
  <1>3. CASE Refresh(t)
    BY <1>1, <1>3 DEF Refresh
  <1>4. CASE Logout(t)
    BY <1>1, <1>4 DEF Logout, fcgiVars
  <1>5. CASE Upload(t)
    BY <1>1, <1>5 DEF Upload, fcgiVars
  <1>6. CASE RegisterGet(t)
    BY <1>1, <1>6 DEF RegisterGet, fcgiVars
  <1>7. CASE ConnectFails(t)
    BY <1>1, <1>7 DEF ConnectFails, fcgiVars
  <1>8. CASE BadName(t)
    BY <1>1, <1>8 DEF BadName, fcgiVars
  <1>9. CASE Registered(t)
    BY <1>1, <1>9 DEF Registered, fcgiVars
  <1>10. CASE LoggedIn(t)
    BY <1>1, <1>10 DEF LoggedIn
  <1>11. CASE SetToken(t)
    <2>1. /\ pc[t] = "token" /\ Goto(t, IF Asks(t) THEN "connect" ELSE "handle")
          /\ program' = program /\ req' = req /\ known' = known /\ table' = table /\ rows' = rows
      BY <1>11 DEF SetToken
    <2>2. table \in Seq(RowType) /\ pc[t] \notin {"idle", "accept"}
      BY <2>1 DEF FastInv, Knows
    <2>3. CASE Asks(t)
      <3>1. Goto(t, "connect") /\ "connect" \in FastLabels
        BY <2>1, <2>3 DEF FastLabels, Querying
      <3> QED
        BY <2>1, <2>2, <2>3, <3>1, GoesOn
    <2>4. CASE ~Asks(t)
      <3>1. Goto(t, "handle") /\ "handle" \in FastLabels /\ "handle" \notin Querying
        BY <2>1, <2>4 DEF FastLabels, Querying
      <3> QED
        BY <2>1, <2>2, <2>4, <3>1, GoesOn
    <2> QED
      BY <2>3, <2>4
  <1>12. CASE CheckToken(t)
    <2>1. pc[t] = "handle" /\ ~Asks(t) /\ table' = table /\ rows' = rows
      BY <1>12 DEF CheckToken, fcgiVars, FastInv, Queries
    <2>2. CASE Goto(t, "refresh") /\ UNCHANGED <<program, req, known, said>>
      <3>1. /\ "refresh" \in FastLabels /\ "refresh" \notin Querying /\ table \in Seq(RowType)
        BY DEF FastLabels, Querying, FastInv, Knows
      <3> QED
        BY <2>1, <2>2, <3>1, GoesOn
    <2>3. CASE \E answer : Answer(t, answer)
      BY <1>1, <2>1, <2>3
    <2> QED
      BY <1>12, <2>2, <2>3 DEF CheckToken
  <1>13. CASE QueryInsert(t)
    <2>1. /\ pc[t] = "connect" /\ Register(req[t]) /\ Goto(t, "result")
          /\ table' = Append(table, Row(req[t]))
          /\ program' = program /\ req' = req /\ known' = known
      BY <1>13 DEF QueryInsert, Insert
    <2>2. Asks(t) /\ req[t] \in Request /\ table \in Seq(RowType)
      BY <2>1 DEF FastInv, Queries, Querying, Knows
    <2>3. Row(req[t]) \in RowType
      BY <2>1, <2>2, RegisterRow
    <2>4. table' \in Seq(RowType) /\ Rows(table) \subseteq Rows(table')
      BY <2>1, <2>2, <2>3, RowsGrow
    <2>5. ~Login(req[t]) /\ "result" \in FastLabels
      BY <2>1 DEF Login, Register, FastLabels, Querying
    <2> QED
      BY <2>1, <2>2, <2>4, <2>5, GoesOn
  <1>14. CASE QuerySelect(t)
    <2>1. /\ pc[t] = "connect" /\ Goto(t, "result")
          /\ rows' = Cardinality(Selected(req[t])) /\ table' = table
          /\ program' = program /\ req' = req /\ known' = known
      BY <1>14 DEF QuerySelect
    <2>2. Asks(t) /\ table \in Seq(RowType) /\ "result" \in FastLabels
      BY <2>1 DEF FastInv, Queries, Querying, Knows, FastLabels
    <2>3. Affected' <=> Row(req[t]) \in Rows(table')
      BY <2>1, <2>2, SelectedCounts DEF Affected
    <2> QED
      BY <2>1, <2>2, <2>3, GoesOn
  <1>15. ~Select(t) /\ ~CgiLogin(t) /\ ~CgiRegister(t)
    BY DEF FastInv, Select, CgiLogin, CgiRegister
  <1> QED
    BY <1>2, <1>3, <1>4, <1>5, <1>6, <1>7, <1>8, <1>9, <1>10, <1>11, <1>12, <1>13, <1>14,
       <1>15 DEF Work

LEMMA FastStepKeeps ==
    ASSUME FastInv, Careful, [Next]_vars
    PROVE  FastInv'
  <1>1. ASSUME pc' = pc, req' = req, known' = known, table' = table, rows' = rows,
               program' = program
        PROVE  FastInv'
    BY <1>1 DEF FastInv, Knows, Queries, Asks, Affected, Rows
  <1>2. CASE UNCHANGED vars
    BY <1>1, <1>2 DEF vars, fcgiVars
  <1>3. ASSUME NEW u, Expire(u) PROVE FastInv'
    BY <1>1, <1>3 DEF Expire
  <1>4. ASSUME NEW t \in Thread, Lock(t) PROVE FastInv'
    <2>1. /\ pc[t] = "idle" /\ Goto(t, "accept") /\ program' = program /\ req' = req
          /\ known' = known /\ table' = table /\ rows' = rows
      BY <1>4 DEF Lock
    <2>2. "accept" \in FastLabels /\ "accept" \notin Querying /\ table \in Seq(RowType)
      BY DEF FastLabels, Querying, FastInv, Knows
    <2> QED
      BY <2>1, <2>2, GoesOn
  <1>5. ASSUME NEW t \in Thread, NEW r \in Request, Accept(t, r) PROVE FastInv'
    BY <1>5, AcceptKeeps
  <1>6. ASSUME NEW t \in Thread, Work(t) PROVE FastInv'
    BY <1>6, FastWorks
  <1>7. \A t \in Thread, r \in Request : ~CgiStart(t, r)
    BY DEF FastInv, CgiStart
  <1> QED
    BY <1>2, <1>3, <1>4, <1>5, <1>6, <1>7 DEF Next

-----------------------------------------------------------------------------

LEMMA LoginInvInvariant == Careful => (Spec => []LoginInv)
  <1> SUFFICES ASSUME Careful PROVE Spec => []LoginInv
    OBVIOUS
  <1>1. Init => LoginInv
    BY DEF Init, LoginInv, Knows, CgiInv, Unique, Registering, Copies, FastInv, Queries,
           FastLabels, Querying, Asks
  <1>2. LoginInv /\ [Next]_vars => LoginInv'
    <2> SUFFICES ASSUME LoginInv, [Next]_vars PROVE LoginInv'
      OBVIOUS
    <2>1. program' = program
      BY ProgramStays
    <2>2. CASE program = "cgi"
      <3>1. Knows' /\ Copies'
        BY <2>2, CgiStepKeeps
      <3>2. CgiInv'
        BY <2>1, <2>2, NextIInv DEF IInv, LoginInv
      <3> QED
        BY <2>1, <2>2, <3>1, <3>2 DEF LoginInv
    <2>3. CASE program = "fastcgi"
      <3>1. FastInv'
        BY <2>3, FastStepKeeps DEF LoginInv
      <3> QED
        BY <2>1, <2>3, <3>1 DEF LoginInv, FastInv
    <2> QED
      BY <2>2, <2>3 DEF LoginInv, Knows
  <1> QED
    BY <1>1, <1>2, PTL DEF Spec

\* Only a step of the thread itself ends its request, with the answer it gives.
LEMMA EndsItself ==
    ASSUME LoginInv, [Next]_vars, NEW t \in Thread, Ends(t)
    PROVE  Work(t) /\ \E answer : Answer(t, answer)
  <1> USE DEF LoginInv, Knows
  <1>1. ~UNCHANGED vars /\ \A u : ~Expire(u)
    BY DEF Ends, vars, Expire
  <1>2. ASSUME NEW s \in Thread, NEW r \in Request, CgiStart(s, r) \/ Accept(s, r) PROVE FALSE
    <2>1. /\ pc[s] \in {"idle", "accept"}
          /\ \E label \in {"select", "finish", "token"} : pc' = [pc EXCEPT ![s] = label]
      BY <1>2 DEF CgiStart, Accept, Goto
    <2> QED
      BY <2>1 DEF Ends
  <1>3. ASSUME NEW s \in Thread, Lock(s) PROVE FALSE
    BY <1>3 DEF Lock, Goto, Ends
  <1>4. ASSUME NEW s \in Thread, Work(s), s # t PROVE FALSE
    <2>1. \E label : pc' = [pc EXCEPT ![s] = label]
      BY <1>4 DEF Work, Select, CgiLogin, CgiRegister, NoEvent, SetToken, CheckToken, Refresh,
                  Logout, Upload, RegisterGet, ConnectFails, BadName, QueryInsert, QuerySelect,
                  Registered, LoggedIn, Answer, Goto
    <2> QED
      BY <1>4, <2>1 DEF Ends
  <1>5. Work(t)
    BY <1>1, <1>2, <1>3, <1>4 DEF Next
  <1>6. \A label : Goto(t, label) => label = "idle"
    BY DEF Goto, Ends
  <1>7. \E answer : Answer(t, answer)
    <2>1. ~QueryInsert(t) /\ ~QuerySelect(t)
      BY <1>6 DEF QueryInsert, QuerySelect
    <2>2. ~SetToken(t)
      BY <1>6 DEF SetToken
    <2>3. CheckToken(t) \/ Select(t) => \E answer : Answer(t, answer)
      BY <1>6 DEF CheckToken, Select
    <2>4. CgiLogin(t) \/ CgiRegister(t) \/ Refresh(t) \/ LoggedIn(t)
          => \E answer : Answer(t, answer)
      BY DEF CgiLogin, CgiRegister, Refresh, LoggedIn
    <2>5. NoEvent(t) \/ Logout(t) \/ Upload(t) \/ RegisterGet(t) \/ ConnectFails(t)
             \/ BadName(t) \/ Registered(t) => \E answer : Answer(t, answer)
      BY DEF NoEvent, Logout, Upload, RegisterGet, ConnectFails, BadName, Registered
    <2> QED
      BY <1>5, <2>1, <2>2, <2>3, <2>4, <2>5 DEF Work
  <1> QED
    BY <1>5, <1>7

LEMMA AnswersRight ==
    ASSUME LoginInv, [Next]_vars, NEW t \in Thread, Ends(t), Login(req[t])
    PROVE  /\ said' = "welcome" => Row(req[t]) \in Rows(table)
           /\ said' = "no such account" => ~known[t]
  <1>1. Work(t) /\ pc'[t] = "idle" /\ pc[t] \notin {"idle", "accept"}
    BY EndsItself DEF Ends
  <1>2. \A answer : Answer(t, answer) => said' = answer
    BY DEF Answer
  <1>3. \A label : Goto(t, label) => label = "idle"
    BY <1>1 DEF Goto, LoginInv, Knows
  <1>4. known[t] => Row(req[t]) \in Rows(table)
    BY DEF LoginInv, Knows
  <1>5. ~Register(req[t]) /\ req[t].method = "POST" /\ req[t].url = "/login" /\ Asks(t)
    BY <1>1 DEF Login, Register, Asks
  <1>6. CASE program = "cgi"
    <2>1. Select(t) \/ CgiLogin(t) \/ CgiRegister(t)
      BY <1>1, <1>6, CgiActs DEF LoginInv
    <2>2. CASE Select(t)
      <3>1. said' = "Error"
        BY <1>2, <1>3, <2>2 DEF Select
      <3> QED
        BY <3>1
    <2>3. CASE CgiLogin(t)
      <3>1. /\ pc[t] = "decide" /\ said' = IF Found(t) THEN "welcome" ELSE "no such account"
        BY <1>2, <2>3 DEF CgiLogin
      <3>2. /\ users[t] \subseteq Rows(table)
            /\ known[t] => Row(req[t]) \in users[t]
        BY <1>6, <3>1 DEF LoginInv, Copies
      <3> QED
        BY <3>1, <3>2 DEF Found
    <2> QED
      BY <1>5, <2>1, <2>2, <2>3 DEF CgiRegister
  <1>7. CASE program = "fastcgi"
    <2>1. FastInv
      BY <1>7 DEF LoginInv
    <2>2. pc[t] \in {"token"} \cup Querying
      BY <1>1, <1>5, <2>1 DEF FastInv, FastLabels, Queries
    <2>3. ConnectFails(t) \/ LoggedIn(t)
      <3>1. /\ ~NoEvent(t) /\ ~CheckToken(t) /\ ~Refresh(t) /\ ~Logout(t) /\ ~Upload(t)
            /\ ~RegisterGet(t)
        BY <2>2 DEF Querying, NoEvent, CheckToken, Refresh, Logout, Upload, RegisterGet
      <3>2. ~BadName(t) /\ ~Registered(t)
        BY <1>5 DEF BadName, Registered
      <3>3. ~SetToken(t) /\ ~QueryInsert(t) /\ ~QuerySelect(t)
        BY <1>3 DEF SetToken, QueryInsert, QuerySelect
      <3>4. ~Select(t) /\ ~CgiLogin(t) /\ ~CgiRegister(t)
        BY <1>7 DEF Select, CgiLogin, CgiRegister
      <3> QED
        BY <1>1, <3>1, <3>2, <3>3, <3>4 DEF Work
    <2>4. CASE ConnectFails(t)
      <3>1. said' = "mysql connect fail"
        BY <1>2, <2>4 DEF ConnectFails
      <3> QED
        BY <3>1
    <2>5. CASE LoggedIn(t)
      <3>1. pc[t] = "result" /\ said' = IF Affected THEN "welcome" ELSE "no such account"
        BY <1>2, <2>5 DEF LoggedIn
      <3>2. Affected <=> Row(req[t]) \in Rows(table)
        BY <2>1, <3>1 DEF FastInv, Queries
      <3> QED
        BY <1>4, <3>1, <3>2
    <2> QED
      BY <2>3, <2>4, <2>5
  <1> QED
    BY <1>6, <1>7 DEF LoginInv, Knows

LoginAnswers ==
    \A t \in Thread : Ends(t) /\ Login(req[t]) =>
        /\ said' = "welcome" => Row(req[t]) \in Rows(table)
        /\ said' = "no such account" => ~known[t]

\* While no two queries run at once on the shared connection and no two registrations at
\* once in the CGI program, who is let in has an account, and who had one when the request
\* began is not turned away as unknown (CLogin.cpp:93, sign.cpp:123).
THEOREM LoginsAreRight == Careful => (Spec => LoginIsRight)
  <1> SUFFICES ASSUME Careful PROVE Spec => LoginIsRight
    OBVIOUS
  <1>1. LoginInv /\ [Next]_vars => [LoginAnswers]_vars
    BY AnswersRight DEF LoginAnswers
  <1>2. [][LoginAnswers]_vars => LoginIsRight
    BY PTL DEF LoginAnswers, LoginIsRight
  <1> QED
    BY <1>1, <1>2, LoginInvInvariant, PTL DEF Spec

-------------------------------------------------------------------------------
(* getInstance.                                                             *)

\* The lines of getInstance between m_mutex's lock and unlock.
Inside == {"again", "new", "unlock"}

OneInv ==
    /\ made \in {0, 1} /\ m_instance_ptr = made
    /\ mutex \in Caller \cup {None}
    /\ at \in [Caller -> {"look", "lock", "return", "done"} \cup Inside]
    /\ instance \in [Caller -> {0, 1}]
    /\ \A t \in Caller :
          /\ at[t] \in Inside <=> mutex = t
          /\ at[t] = "new" => made = 0
          /\ at[t] \in {"unlock", "return", "done"} => made = 1
          /\ at[t] = "done" => instance[t] = 1

LEMMA InitOneInv == SingletonInit => OneInv
  BY CallerAssumption DEF SingletonInit, OneInv, Inside

LEMMA NextOneInv == OneInv /\ [SingletonNext]_singletonVars => OneInv'
  <1> SUFFICES ASSUME OneInv, [SingletonNext]_singletonVars PROVE OneInv'
    OBVIOUS
  <1> USE CallerAssumption DEF OneInv, Inside
  <1>1. CASE UNCHANGED singletonVars
    BY <1>1 DEF singletonVars
  <1>2. ASSUME NEW t \in Caller, Look(t) PROVE OneInv'
    BY <1>2 DEF Look
  <1>3. ASSUME NEW t \in Caller, LockMutex(t) PROVE OneInv'
    BY <1>3 DEF LockMutex
  <1>4. ASSUME NEW t \in Caller, LookAgain(t) PROVE OneInv'
    BY <1>4 DEF LookAgain, Missing
  <1>5. ASSUME NEW t \in Caller, Construct(t) PROVE OneInv'
    BY <1>5 DEF Construct
  <1>6. ASSUME NEW t \in Caller, Unlock(t) PROVE OneInv'
    BY <1>6 DEF Unlock
  <1>7. ASSUME NEW t \in Caller, Return(t) PROVE OneInv'
    BY <1>7 DEF Return
  <1> QED
    BY <1>1, <1>2, <1>3, <1>4, <1>5, <1>6, <1>7 DEF SingletonNext

\* However many callers meet in the first getInstance, one instance is made, and
\* every one of them gets it (singleton.h, safe_use).
THEOREM OnlyOne == SingletonInit /\ [][SingletonNext]_singletonVars => []OneInstance
  <1>1. OneInv => OneInstance
    BY DEF OneInv, OneInstance, Inside
  <1> QED
    BY <1>1, InitOneInv, NextOneInv, PTL
------------------------------------------------------------------------------
(* The observers.                                                           *)

\* The list has each of the living observers once, and they share one subject.
ObserverInv ==
    /\ subject = [there |-> subject.there, st |-> subject.st, obvs |-> subject.obvs]
    /\ subject.obvs \in Seq(Watcher)
    /\ \A i, j \in 1..Len(subject.obvs) : subject.obvs[i] = subject.obvs[j] => i = j
    /\ DOMAIN seen = Watcher /\ told \subseteq Watcher
    /\ EveryoneIsTold

LEMMA AttachAdds ==
    ASSUME ObserverInv, NEW o \in Watcher, NewObserver(o)
    PROVE  ObserverInv'
  <1> DEFINE s == subject.obvs
             n == Len(s)
  <1>1. /\ s \in Seq(Watcher) /\ n \in Nat /\ \A i \in 1..n : s[i] \in Watcher
        /\ \A i, j \in 1..n : s[i] = s[j] => i = j
        /\ {s[i] : i \in 1..n} = watchers /\ o \notin watchers
    BY DEF ObserverInv, EveryoneIsTold, ToSet, NewObserver
  <1>2. /\ subject' = [subject EXCEPT !.obvs = <<o>> \o s] /\ watchers' = watchers \cup {o}
        /\ seen' = [seen EXCEPT ![o] = Unset] /\ told' = told \ {o} /\ subject.there
    BY DEF NewObserver, Attach
  <1> DEFINE t == <<o>> \o s
  <1>3. /\ t \in Seq(Watcher) /\ Len(t) = n + 1 /\ t[1] = o
        /\ \A i \in 1..n : t[i + 1] = s[i]
    BY <1>1
  <1>4. subject' = [there |-> TRUE, st |-> subject.st, obvs |-> t]
    BY <1>2 DEF ObserverInv
  <1> HIDE DEF s, n, t
  <1>a. \A i \in 1..n : s[i] # o
    BY <1>1
  <1>b. \A x \in watchers : \E i \in 1..n : s[i] = x
    BY <1>1
  <1>5. \A i \in 1..(n + 1) : i = 1 \/ (i - 1 \in 1..n /\ t[i] = s[i - 1])
    <2> TAKE i \in 1..(n + 1)
    <2>1. CASE i # 1
      <3>1. i - 1 \in 1..n /\ (i - 1) + 1 = i
        BY <1>1, <2>1
      <3> QED
        BY <1>3, <3>1
    <2> QED
      BY <2>1
  <1>6. \A i, j \in 1..(n + 1) : t[i] = t[j] => i = j
    <2> TAKE i, j \in 1..(n + 1)
    <2> HAVE t[i] = t[j]
    <2>1. CASE i = 1 /\ j = 1
      BY <2>1
    <2>2. CASE i # 1 /\ j # 1
      <3>1. i - 1 = j - 1
        BY <1>1, <1>5, <2>2
      <3> QED
        BY <1>1, <3>1
    <2>3. CASE i = 1 /\ j # 1
      BY ONLY t[i] = t[j], j \in 1..(n + 1), <1>a, <1>3, <1>5, <2>3
    <2>4. CASE i # 1 /\ j = 1
      BY ONLY t[i] = t[j], i \in 1..(n + 1), <1>a, <1>3, <1>5, <2>4
    <2> QED
      BY <2>1, <2>2, <2>3, <2>4
  <1>7. {t[i] : i \in 1..(n + 1)} = watchers \cup {o}
    <2>1. \A i \in 1..n : i + 1 \in 1..(n + 1) /\ t[i + 1] = s[i]
      BY <1>1, <1>3
    <2>2. 1 \in 1..(n + 1)
      BY <1>1
    <2>3. \A x \in watchers \cup {o} : \E i \in 1..(n + 1) : t[i] = x
      <3>1. ASSUME NEW x \in watchers PROVE \E i \in 1..(n + 1) : t[i] = x
        <4>1. PICK i \in 1..n : s[i] = x
          BY <1>b
        <4> QED
          BY ONLY <2>1, <4>1, i \in 1..n, Zenon
      <3>2. \E i \in 1..(n + 1) : t[i] = o
        BY <1>3, <2>2
      <3> QED
        BY <3>1, <3>2
    <2>4. \A i \in 1..(n + 1) : t[i] \in watchers \cup {o}
      BY ONLY <1>1, <1>3, <1>5, SMTT(40)
    <2> QED
      BY ONLY <2>3, <2>4
  <1>8. DOMAIN seen' = Watcher /\ \A x \in told' : x \in told /\ x \in Watcher /\ seen'[x] = seen[x]
    BY <1>2 DEF ObserverInv
  <1>9. ToSet(t) = watchers'
    BY <1>2, <1>3, <1>7 DEF ToSet
  <1>10. \A x \in told' : seen'[x] = subject.st
    BY <1>8 DEF ObserverInv, EveryoneIsTold
  <1>11. told' \subseteq Watcher /\ DOMAIN seen' = Watcher
    BY <1>8
  <1>12. subject'.there /\ subject'.st = subject.st /\ subject'.obvs = t
    BY <1>4
  <1> QED
    BY <1>3, <1>4, <1>6, <1>9, <1>10, <1>11, <1>12 DEF ObserverInv, EveryoneIsTold

LEMMA LastLeaves ==
    ASSUME LastOnly, ObserverInv, NEW o \in Watcher, Destroy(o)
    PROVE  ObserverInv'
  <1> DEFINE s == subject.obvs
  <1>1. /\ s \in Seq(Watcher) /\ \A i, j \in 1..Len(s) : s[i] = s[j] => i = j
        /\ {s[i] : i \in 1..Len(s)} = {o} /\ watchers = {o}
    <2>1. ToSet(s) = {o} /\ watchers = {o}
      BY DEF ObserverInv, EveryoneIsTold, Destroy
    <2> QED
      <3>1. s \in Seq(Watcher) /\ \A i, j \in 1..Len(s) : s[i] = s[j] => i = j
        BY DEF ObserverInv
      <3>2. DOMAIN s = 1..Len(s)
        BY <3>1
      <3> QED
        BY <2>1, <3>1, <3>2 DEF ToSet
  <1> HIDE DEF s
  <1>2. s = <<o>>
    <2>1. \A i \in 1..Len(s) : s[i] = o
      BY <1>1
    <2>2. \A i, j \in 1..Len(s) : i = j
      BY <1>1, <2>1
    <2>a. Len(s) \in Nat /\ Len(s) # 0
      BY <1>1
    <2> DEFINE n == Len(s)
    <2> HIDE DEF n
    <2>3. n = 1
      <3>1. n \in Nat /\ n # 0
        BY <2>a DEF n
      <3>2. ASSUME n > 1 PROVE FALSE
        <4>1. 1 \in 1..n /\ 2 \in 1..n
          BY ONLY <3>1, <3>2
        <4>2. \A i, j \in 1..n : i = j
          BY <2>2 DEF n
        <4>3. 1 = 2
          BY ONLY <4>1, <4>2, Zenon
        <4> QED
          BY <4>3
      <3> QED
        BY ONLY <3>1, <3>2
    <2> QED
      BY <1>1, <2>1, <2>3 DEF n
  <1>3. RemoveFirst(s, o) = <<>>
    <2> DEFINE I == {i \in 1..Len(s) : s[i] = o}
    <2>1. I = {1} /\ Len(s) = 1
      BY <1>2
    <2>2. Min({1}) = 1
      BY DEF Min
    <2>3. SelectInSeq(s, LAMBDA v : v = o) = 1
      BY <2>1, <2>2 DEF SelectInSeq
    <2>4. RemoveFirst(s, o) = RemoveAt(s, 1)
      BY <2>1, <2>3 DEF RemoveFirst
    <2>5. RemoveAt(<<o>>, 1) = <<>>
      BY DEF RemoveAt
    <2> QED
      BY <1>2, <2>4, <2>5
  <1>4. subject' = [there |-> FALSE, st |-> subject.st, obvs |-> <<>>]
    BY <1>3 DEF Destroy, Detach, ObserverInv, s
  <1>5. watchers' = {} /\ seen' = seen /\ told' = told
    BY <1>1 DEF Destroy
  <1> QED
    BY <1>4, <1>5 DEF ObserverInv, EveryoneIsTold, ToSet

\* While only the last observer is destroyed, whoever was there at the last Notify has
\* the state it told, and nobody outlives the subject or its place in the list.
THEOREM EveryoneStaysTold ==
    ASSUME LastOnly
    PROVE  ObserverInit /\ [][ObserverNext]_observerVars => []EveryoneIsTold
  <1>1. ObserverInit => ObserverInv
    BY DEF ObserverInit, ObserverInv, EveryoneIsTold, ToSet
  <1>2. ObserverInv /\ [ObserverNext]_observerVars => ObserverInv'
    <2> SUFFICES ASSUME ObserverInv, [ObserverNext]_observerVars PROVE ObserverInv'
      OBVIOUS
    <2>1. CASE UNCHANGED observerVars
      BY <2>1 DEF ObserverInv, EveryoneIsTold, observerVars
    <2>2. ASSUME NEW st \in SubjectState, SetState(st) PROVE ObserverInv'
      BY <2>2 DEF ObserverInv, EveryoneIsTold, SetState
    <2>3. CASE Notify
      <3>1. \A o \in watchers : o \in Watcher /\ seen'[o] = subject.st
        BY <2>3 DEF ObserverInv, EveryoneIsTold, Notify, Updated, ToSet
      <3>2. DOMAIN seen' = Watcher
        BY <2>3 DEF ObserverInv, Notify, Updated
      <3> QED
        BY <2>3, <3>1, <3>2 DEF ObserverInv, EveryoneIsTold, Notify
    <2> QED
      BY <2>1, <2>2, <2>3, AttachAdds, LastLeaves DEF ObserverNext
  <1>3. ObserverInv => EveryoneIsTold
    BY DEF ObserverInv
  <1> QED
    BY <1>1, <1>2, <1>3, PTL

------------------------------------------------------------------------------
(* The codec: induction over the bytes of the text, along the two loops. *)

HIDE AccountAssumption

\* A set of numbers that is not empty has a least one.
LEMMA Least ==
    ASSUME NEW T, T \subseteq Nat, T # {}
    PROVE  \E n \in T : \A m \in T : n <= m
  <1>1. PICK n \in T : \A m \in T : ~(<<m, n>> \in OpToRel(<, Nat))
    BY WFMin, NatLessThanWellFounded
  <1>2. \A m \in T : ~(m < n)
    BY <1>1 DEF OpToRel
  <1> QED
    BY <1>2

\* A set of numbers that has 0 and every successor has them all.
LEMMA Induction ==
    ASSUME NEW T, 0 \in T, \A n \in Nat : n \in T => n + 1 \in T
    PROVE  Nat \subseteq T
  <1> SUFFICES ASSUME Nat \ T # {} PROVE FALSE
    OBVIOUS
  <1>1. PICK n \in Nat \ T : \A m \in Nat \ T : n <= m
    BY Least
  <1>2. n # 0 /\ n - 1 \in Nat /\ n - 1 \in T
    BY <1>1
  <1> QED
    BY <1>1, <1>2

\* What a loop of N turns over S makes of a.
Loop(f, N, S, a, step) ==
    f \in [0..N -> S] /\ f = [n \in 0..N |-> IF n = 0 THEN a ELSE step[n][f[n - 1]]]

\* There is one, for any turns.
LEMMA LoopExists ==
    ASSUME NEW N \in Nat, NEW S, NEW a \in S, NEW step \in [1..N -> [S -> S]]
    PROVE  \E f : Loop(f, N, S, a, step)
  <1> DEFINE Runs(f, k) ==
                 f \in [0..k -> S] /\ f[0] = a /\ \A n \in 1..k : f[n] = step[n][f[n - 1]]
             T == {k \in Nat : k <= N => \E f : Runs(f, k)}
  <1>1. 0 \in T
    <2>1. Runs([n \in 0..0 |-> a], 0)
      OBVIOUS
    <2> QED
      BY <2>1
  <1>2. ASSUME NEW k \in Nat, k \in T PROVE k + 1 \in T
    <2> SUFFICES ASSUME k + 1 <= N PROVE \E f : Runs(f, k + 1)
      OBVIOUS
    <2>1. PICK f : Runs(f, k)
      BY <1>2
    <2> DEFINE g == [n \in 0..(k + 1) |-> IF n = k + 1 THEN step[k + 1][f[k]] ELSE f[n]]
    <2>2. k + 1 \in 1..N /\ f[k] \in S
      BY <2>1
    <2>3. step[k + 1][f[k]] \in S
      BY <2>2
    <2>4. \A n \in 0..k : f[n] \in S /\ g[n] = f[n]
      BY <2>1
    <2>5. g \in [0..(k + 1) -> S]
      <3>1. \A n \in 0..(k + 1) : n = k + 1 \/ n \in 0..k
        OBVIOUS
      <3>2. \A n \in 0..(k + 1) : (IF n = k + 1 THEN step[k + 1][f[k]] ELSE f[n]) \in S
        BY <2>3, <2>4, <3>1
      <3> QED
        BY ONLY <3>2
    <2>6. g[0] = a
      BY <2>1, <2>4
    <2>7. \A n \in 1..k : g[n] = step[n][g[n - 1]]
      BY <2>1, <2>4
    <2>8. g[k + 1] = step[k + 1][g[(k + 1) - 1]]
      BY <2>4
    <2>9. \A n \in 1..(k + 1) : n \in 1..k \/ n = k + 1
      OBVIOUS
    <2> HIDE DEF g
    <2>10. Runs(g, k + 1)
      BY <2>5, <2>6, <2>7, <2>8, <2>9
    <2> QED
      BY <2>10
  <1>3. \E f : Runs(f, N)
    <2> HIDE DEF T
    <2>1. Nat \subseteq T
      BY <1>1, <1>2, Induction
    <2>2. N \in T
      BY <2>1
    <2> QED
      BY <2>2 DEF T
  <1>4. PICK f : Runs(f, N)
    BY <1>3
  <1>5. f \in [0..N -> S]
    BY <1>4
  <1>6. \A n \in 0..N : f[n] = IF n = 0 THEN a ELSE step[n][f[n - 1]]
    <2> TAKE n \in 0..N
    <2>1. n = 0 \/ n \in 1..N
      OBVIOUS
    <2> QED
      BY <1>4, <2>1
  <1>7. f = [n \in 0..N |-> IF n = 0 THEN a ELSE step[n][f[n - 1]]]
    BY ONLY <1>5, <1>6
  <1> QED
    BY <1>5, <1>7 DEF Loop

Coded == uri_chars \cup {Percent, Plus}

LEMMA CodeOf ==
    ASSUME NEW b \in 0..255, NEW p \in BOOLEAN
    PROVE  /\ Encoded(b, p) \in Seq(Coded)
           /\ \/ /\ Encoded(b, p) = <<b>> /\ b \in uri_chars
              \/ /\ Encoded(b, p) = <<Plus>> /\ p /\ b = Space
              \/ \E h, l \in isxdigit :
                    /\ Encoded(b, p) = <<Percent, h, l>>
                    /\ h \in Coded /\ l \in Coded
                    /\ xdigit_chars[h] * 16 + xdigit_chars[l] = b
  <1>1. ASSUME NEW d \in 0..15
        PROVE  /\ hexdigits[d] \in isxdigit /\ hexdigits[d] \in Coded
               /\ xdigit_chars[hexdigits[d]] = d
    <2>1. CASE d < 10
      <3>1. hexdigits[d] = 48 + d
        BY <2>1 DEF hexdigits
      <3>2. 48 + d \in 48..57 /\ 48 + d \in 0..255
        BY <2>1
      <3>3. xdigit_chars[48 + d] = (48 + d) - 48
        BY <3>2 DEF xdigit_chars
      <3> QED
        BY <3>1, <3>2, <3>3 DEF isxdigit, Coded, uri_chars
    <2>2. CASE ~(d < 10)
      <3>1. hexdigits[d] = 55 + d
        BY <2>2 DEF hexdigits
      <3>2. 55 + d \in 65..70 /\ 55 + d \in 0..255 /\ 55 + d \notin 48..57
        BY <2>2
      <3>3. xdigit_chars[55 + d] = (55 + d) - 55
        BY <3>2 DEF xdigit_chars
      <3>4. 55 + d \in 65..90
        BY <3>2
      <3> QED
        BY <3>1, <3>2, <3>3, <3>4 DEF isxdigit, Coded, uri_chars
    <2> QED
      BY <2>1, <2>2
  <1>2. CASE b \in uri_chars
    BY <1>2 DEF Encoded, Coded
  <1>3. CASE b \notin uri_chars /\ b = Space /\ p
    BY <1>3 DEF Encoded, Coded
  <1>4. CASE b \notin uri_chars /\ ~(b = Space /\ p)
    <2>1. b \div 16 \in 0..15 /\ b % 16 \in 0..15 /\ (b \div 16) * 16 + (b % 16) = b
      OBVIOUS
    <2> DEFINE h == hexdigits[b \div 16]
               l == hexdigits[b % 16]
    <2>2. Encoded(b, p) = <<Percent, h, l>>
      BY <1>4 DEF Encoded
    <2>3. /\ h \in isxdigit /\ h \in Coded /\ xdigit_chars[h] = b \div 16
          /\ l \in isxdigit /\ l \in Coded /\ xdigit_chars[l] = b % 16
      BY <1>1, <2>1
    <2> HIDE DEF h, l
    <2>4. Percent \in Coded
      BY DEF Coded
    <2>5. <<Percent, h, l>> \in Seq(Coded)
      BY <2>3, <2>4
    <2> QED
      BY <2>1, <2>2, <2>3, <2>5
  <1> QED
    BY <1>2, <1>3, <1>4

LEMMA CodeLen ==
    ASSUME NEW b \in 0..255, NEW p \in BOOLEAN
    PROVE  Encoded(b, p) \in Seq(Coded) /\ Len(Encoded(b, p)) \in {1, 3}
  <1> DEFINE e == Encoded(b, p)
  <1>1. /\ e \in Seq(Coded)
        /\ e = <<b>> \/ e = <<Plus>> \/ \E h, l \in isxdigit : e = <<Percent, h, l>>
    BY CodeOf, Zenon
  <1> HIDE DEF e
  <1>2. Len(e) \in {1, 3}
    BY <1>1
  <1> QED
    BY <1>1, <1>2 DEF e

\* str has e from c on.
Written(str, e, c) ==
    /\ c \in Nat /\ c > 0 /\ c + Len(e) - 1 <= Len(str)
    /\ \A i \in 1..Len(e) : str[c + i - 1] = e[i]

\* At c one turn of the decoder reads e and appends b.
Reads(str, q, e, c, b) ==
    \A x : Turn(str, q, [c |-> c, ss |-> x]) = [c |-> c + Len(e), ss |-> Append(x, b)]

\* One turn of the decoder reads what one byte was encoded to.
LEMMA TurnReads ==
    ASSUME NEW b \in 0..255, NEW p \in BOOLEAN, NEW q \in BOOLEAN, p => q,
           NEW str \in Seq(Coded), NEW c, Written(str, Encoded(b, p), c)
    PROVE  Reads(str, q, Encoded(b, p), c, b)
  <1> SUFFICES ASSUME NEW x
               PROVE  Turn(str, q, [c |-> c, ss |-> x])
                         = [c |-> c + Len(Encoded(b, p)), ss |-> Append(x, b)]
    BY DEF Reads
  <1> DEFINE e == Encoded(b, p)
             s == [c |-> c, ss |-> x]
  <1>0. Len(str) \in Nat /\ Plus # Percent /\ Plus \notin uri_chars /\ Percent \notin uri_chars
    BY DEF Plus, Percent, uri_chars
  <1>a. s.c = c /\ s.ss = x
    OBVIOUS
  <1>b. /\ c \in Nat /\ c > 0 /\ c + Len(e) - 1 <= Len(str)
        /\ \A i \in 1..Len(e) : str[c + i - 1] = e[i]
    BY DEF Written
  <1> HIDE DEF e, s
  <1>1. ASSUME e = <<b>>, b \in uri_chars
        PROVE  Turn(str, q, s) = [c |-> c + Len(e), ss |-> Append(x, b)]
    <2>0. Len(e) = 1 /\ e[1] = b /\ 1 \in 1..1 /\ c + 1 - 1 = c
      BY <1>b, <1>1
    <2>1. str[c] = b /\ ~(c > Len(str))
      BY <1>0, <1>b, <2>0
    <2>2. str[c] # Plus /\ ~EscapeAt(str, c)
      BY <1>0, <1>1, <2>1 DEF EscapeAt
    <2> QED
      BY <1>a, <2>0, <2>1, <2>2 DEF Turn
  <1>2. ASSUME e = <<Plus>>, p, b = Space
        PROVE  Turn(str, q, s) = [c |-> c + Len(e), ss |-> Append(x, b)]
    <2>0. Len(e) = 1 /\ e[1] = Plus /\ 1 \in 1..1 /\ c + 1 - 1 = c
      BY <1>b, <1>2
    <2>1. str[c] = Plus /\ ~(c > Len(str))
      BY <1>0, <1>b, <2>0
    <2>2. q
      BY <1>2
    <2> QED
      BY <1>a, <1>2, <2>0, <2>1, <2>2, Zenon DEF Turn
  <1>3. ASSUME NEW h \in isxdigit, NEW l \in isxdigit, e = <<Percent, h, l>>,
               xdigit_chars[h] * 16 + xdigit_chars[l] = b
        PROVE  Turn(str, q, s) = [c |-> c + Len(e), ss |-> Append(x, b)]
    <2>1. Len(e) = 3 /\ e[1] = Percent /\ e[2] = h /\ e[3] = l
      BY <1>3
    <2>2. 1 \in 1..Len(e) /\ 2 \in 1..Len(e) /\ 3 \in 1..Len(e)
      BY <2>1
    <2>3. c + 1 - 1 = c /\ c + 2 - 1 = c + 1 /\ c + 3 - 1 = c + 2
      BY <1>b
    <2>4. str[c] = Percent /\ str[c + 1] = h /\ str[c + 2] = l
      BY <1>b, <2>1, <2>2, <2>3
    <2>5. c + 2 <= Len(str) /\ ~(c > Len(str))
      BY <1>0, <1>b, <2>1
    <2>6. EscapeAt(str, c)
      BY <1>3, <2>4, <2>5 DEF EscapeAt
    <2>7. str[c] # Plus
      BY <1>0, <2>4
    <2>8. xdigit_chars[str[c + 1]] * 16 + xdigit_chars[str[c + 2]] = b
      BY <1>3, <2>4, Zenon
    <2>9. Turn(str, q, s) = [c |-> c + 3, ss |-> Append(x, b)]
      BY <1>a, <2>5, <2>6, <2>7, <2>8, Zenon DEF Turn
    <2> QED
      BY <2>1, <2>9, Zenon
  <1>4. \/ e = <<b>> /\ b \in uri_chars
        \/ e = <<Plus>> /\ p /\ b = Space
        \/ \E h, l \in isxdigit : /\ e = <<Percent, h, l>>
                                  /\ xdigit_chars[h] * 16 + xdigit_chars[l] = b
    BY CodeOf, ZenonT(60) DEF e
  <1>5. Turn(str, q, s) = [c |-> c + Len(e), ss |-> Append(x, b)]
    BY <1>1, <1>2, <1>3, <1>4
  <1> QED
    BY <1>5 DEF e, s

\* u is t with e after it.
Joined(u, t, e) ==
    /\ Len(u) = Len(t) + Len(e) /\ Len(t) \in Nat /\ Len(e) \in Nat
    /\ \A i \in 1..Len(t) : u[i] = t[i]
    /\ \A i \in 1..Len(e) : u[Len(t) + i] = e[i]

LEMMA Join ==
    ASSUME NEW S, NEW t \in Seq(S), NEW e \in Seq(S)
    PROVE  Joined(t \o e, t, e)
  <1>1. /\ Len(t \o e) = Len(t) + Len(e) /\ Len(t) \in Nat /\ Len(e) \in Nat
        /\ \A i \in 1..(Len(t) + Len(e)) :
              (t \o e)[i] = IF i <= Len(t) THEN t[i] ELSE e[i - Len(t)]
    BY ConcatProperties
  <1> DEFINE u == t \o e  m == Len(t)  n == Len(e)
  <1> HIDE DEF u, m, n
  <1>2. ASSUME NEW i \in 1..m PROVE u[i] = t[i]
    <2>1. i \in 1..(m + n) /\ i <= m
      BY <1>1 DEF m, n
    <2> QED
      BY <1>1, <2>1 DEF u, m, n
  <1>3. ASSUME NEW i \in 1..n PROVE u[m + i] = e[i]
    <2>1. m + i \in 1..(m + n) /\ ~(m + i <= m) /\ (m + i) - m = i
      BY <1>1 DEF m, n
    <2>2. u[m + i] = IF m + i <= m THEN t[m + i] ELSE e[(m + i) - m]
      BY <1>1, <2>1 DEF u, m, n
    <2> QED
      BY <2>1, <2>2
  <1> QED
    BY <1>1, <1>2, <1>3 DEF u, m, n, Joined

\* ss holds after each of the first bytes of str what they are encoded to.
Codes(ss, str, p) ==
    /\ ss \in [0..Len(str) -> Seq(Coded)] /\ ss[0] = <<>>
    /\ \A n \in 1..Len(str) : ss[n] = ss[n - 1] \o Encoded(str[n], p)

LEMMA EncodeIs ==
    ASSUME NEW str \in Seq(0..255), NEW p \in BOOLEAN
    PROVE  \E ss : Codes(ss, str, p) /\ UrlEncode(str, p) = ss[Len(str)]
  <1> DEFINE N == Len(str)
             S == Seq(Coded)
             step == [n \in 1..N |-> [x \in S |-> x \o Encoded(str[n], p)]]
             Body(f) == [n \in 0..N |-> IF n = 0 THEN <<>> ELSE f[n - 1] \o Encoded(str[n], p)]
             f == CHOOSE g : g = Body(g)
  <1>1. N \in Nat /\ <<>> \in S
    OBVIOUS
  <1>2. ASSUME NEW n \in 1..N PROVE Encoded(str[n], p) \in S
    <2>1. str[n] \in 0..255
      BY ElementOfSeq, Zenon
    <2> QED
      BY <2>1, CodeOf
  <1>3. \A n \in 1..N : \A x \in S : x \o Encoded(str[n], p) \in S
    BY <1>2
  <1>4. step \in [1..N -> [S -> S]]
    BY <1>3
  <1> HIDE DEF step
  <1>5. PICK g \in [0..N -> S] :
            g = [n \in 0..N |-> IF n = 0 THEN <<>> ELSE step[n][g[n - 1]]]
    <2> DEFINE a == <<>>
    <2>1. a \in S
      BY <1>1
    <2> HIDE DEF N, S, a
    <2>2. N \in Nat
      BY <1>1
    <2>3. PICK g : Loop(g, N, S, a, step)
      BY <1>4, <2>1, <2>2, LoopExists, Zenon
    <2> QED
      BY <2>3, Zenon DEF Loop, a
  <1>6. \A n \in 0..N : n # 0 => n - 1 \in 0..N /\ n \in 1..N
    BY <1>1
  <1>7. \A n \in 1..N : \A x \in S : step[n][x] = x \o Encoded(str[n], p)
    BY DEF step
  <1>8. g = Body(g)
    <2> HIDE DEF N, S
    <2>1. \A n \in 0..N : g[n] = IF n = 0 THEN <<>> ELSE g[n - 1] \o Encoded(str[n], p)
      BY <1>5, <1>6, <1>7
    <2> QED
      BY <1>5, <2>1
  <1> HIDE DEF Body
  <1>9. f = Body(f)
    BY <1>8
  <1>10. UrlEncode(str, p) = f[N]
    BY DEF UrlEncode, Body
  <1> HIDE DEF f
  <1>11. f \in [0..N -> S]
    <2> DEFINE T == {n \in Nat : n <= N => f[n] \in S}
    <2>1. \A n \in 0..N : f[n] = IF n = 0 THEN <<>> ELSE f[n - 1] \o Encoded(str[n], p)
      BY <1>9 DEF Body
    <2> HIDE DEF N, S
    <2>2. 0 \in T
      BY <1>1, <2>1
    <2>3. ASSUME NEW n \in Nat, n \in T PROVE n + 1 \in T
      <3> SUFFICES ASSUME n + 1 <= N PROVE f[n + 1] \in S
        OBVIOUS
      <3>1. n + 1 \in 1..N /\ n + 1 \in 0..N /\ (n + 1) - 1 = n /\ n + 1 # 0 /\ n <= N
        BY <1>1
      <3>2. f[n] \in S
        BY <2>3, <3>1
      <3>3. f[n + 1] = f[n] \o Encoded(str[n + 1], p)
        BY <2>1, <3>1
      <3> QED
        BY <1>3, <3>1, <3>2, <3>3
    <2> HIDE DEF T
    <2>4. Nat \subseteq T
      BY <2>2, <2>3, Induction
    <2>5. \A n \in 0..N : f[n] \in S
      <3>1. \A n \in 0..N : n \in T /\ n <= N
        BY <1>1, <2>4
      <3> QED
        BY <3>1 DEF T
    <2>6. DOMAIN f = 0..N /\ f = [n \in 0..N |-> f[n]]
      BY <1>9 DEF Body
    <2> QED
      BY <2>5, <2>6
  <1>12. f[0] = <<>> /\ \A n \in 1..N : f[n] = f[n - 1] \o Encoded(str[n], p)
    <2>1. 0 \in 0..N /\ \A n \in 1..N : n \in 0..N /\ n # 0
      BY <1>1
    <2> QED
      BY <1>9, <2>1 DEF Body
  <1> QED
    BY <1>10, <1>11, <1>12 DEF Codes

Grown(ss, m, n) ==
    /\ Len(ss[n]) >= Len(ss[m]) + (n - m)
    /\ \A i \in 1..Len(ss[m]) : ss[n][i] = ss[m][i]

\* What later bytes are encoded to comes behind what is there.
LEMMA CodesGrow ==
    ASSUME NEW str \in Seq(0..255), NEW p \in BOOLEAN, NEW ss, Codes(ss, str, p),
           NEW m \in 0..Len(str), NEW n \in 0..Len(str), m <= n
    PROVE  Grown(ss, m, n)
  <1> DEFINE N == Len(str)
             T == {d \in Nat : m + d <= N => Grown(ss, m, m + d)}
  <1>1. N \in Nat
    OBVIOUS
  <1> HIDE DEF N
  <1>2. \A k \in 0..N : ss[k] \in Seq(Coded) /\ Len(ss[k]) \in Nat
    BY DEF Codes, N
  <1>3. 0 \in T
    <2>1. m + 0 = m /\ m - m = 0 /\ m \in 0..N
      BY DEF N
    <2> QED
      BY <1>2, <2>1 DEF Grown
  <1>4. ASSUME NEW d \in Nat, d \in T PROVE d + 1 \in T
    <2>0. d + 1 \in Nat
      OBVIOUS
    <2> SUFFICES ASSUME m + (d + 1) <= N PROVE Grown(ss, m, m + (d + 1))
      BY <2>0, Zenon
    <2> DEFINE k == m + d
    <2>1. /\ k \in 0..N /\ k + 1 \in 1..N /\ (k + 1) - 1 = k /\ m + (d + 1) = k + 1
          /\ k + 1 \in 0..N /\ (k + 1) - m = (k - m) + 1
      BY <1>1 DEF N
    <2>2. Grown(ss, m, k)
      BY <1>4, <2>1
    <2> DEFINE e == Encoded(str[k + 1], p)
    <2>3. e \in Seq(Coded) /\ Len(e) \in Nat /\ Len(e) > 0
      <3>1. str[k + 1] \in 0..255
        BY <2>1, ElementOfSeq, Zenon DEF N
      <3>2. e \in Seq(Coded) /\ Len(e) \in {1, 3}
        BY <3>1, CodeLen
      <3> HIDE DEF e
      <3> DEFINE w == Len(e)
      <3>3. w = 1 \/ w = 3
        BY <3>2
      <3> HIDE DEF w
      <3>4. w \in Nat /\ w > 0
        BY ONLY <3>3
      <3> QED
        BY <3>2, <3>4 DEF w
    <2>4. ss[k + 1] = ss[k] \o e
      BY <2>1 DEF Codes, N
    <2> HIDE DEF k, e
    <2>5. Joined(ss[k + 1], ss[k], e)
      BY <1>2, <2>1, <2>3, <2>4, Join, Zenon
    <2>6. m \in 0..N
      BY DEF N
    <2>7. Len(ss[k + 1]) >= Len(ss[m]) + ((k + 1) - m)
      <3>1. Len(ss[k]) \in Nat /\ Len(ss[m]) \in Nat /\ k \in Nat /\ m \in Nat
        BY <1>1, <1>2, <2>1, <2>6
      <3>2. Len(ss[k]) >= Len(ss[m]) + (k - m)
        BY <2>2 DEF Grown
      <3>3. Len(ss[k + 1]) = Len(ss[k]) + Len(e)
        BY <2>5, Zenon DEF Joined
      <3> QED
        <4> DEFINE u == Len(ss[k])  v == Len(ss[m])  w == Len(e)  x == Len(ss[k + 1])
        <4>1. x = u + w /\ u >= v + (k - m) /\ w > 0 /\ w \in Nat
          BY <2>3, <3>2, <3>3
        <4>2. u \in Nat /\ v \in Nat /\ k \in Nat /\ m \in Nat
          BY <3>1
        <4> HIDE DEF u, v, w, x
        <4>3. x >= v + ((k + 1) - m)
          BY ONLY <4>1, <4>2
        <4> QED
          BY <4>3 DEF v, x
    <2>8. \A i \in 1..Len(ss[m]) : i \in 1..Len(ss[k])
      <3>1. Len(ss[k]) \in Nat /\ Len(ss[m]) \in Nat /\ k \in Nat /\ m \in Nat /\ k - m >= 0
        BY <1>1, <1>2, <2>1, <2>6 DEF k
      <3>2. Len(ss[k]) >= Len(ss[m]) + (k - m)
        BY <2>2 DEF Grown
      <3> QED
        BY ONLY <3>1, <3>2
    <2>9. \A i \in 1..Len(ss[m]) : ss[k + 1][i] = ss[m][i]
      <3>1. \A i \in 1..Len(ss[k]) : ss[k + 1][i] = ss[k][i]
        BY <2>5, Zenon DEF Joined
      <3>2. \A i \in 1..Len(ss[m]) : ss[k][i] = ss[m][i]
        BY <2>2, Zenon DEF Grown
      <3> QED
        BY <2>8, <3>1, <3>2, Zenon
    <2>10. Grown(ss, m, k + 1)
      BY ONLY <2>7, <2>9 DEF Grown
    <2> QED
      BY <2>1, <2>10, Zenon
  <1> HIDE DEF T
  <1>5. Nat \subseteq T
    BY <1>3, <1>4, Induction
  <1>6. n - m \in T /\ m + (n - m) = n /\ n <= N
    <2>1. n - m \in Nat /\ m + (n - m) = n /\ n <= N
      BY DEF N
    <2> QED
      BY <1>5, <2>1
  <1> QED
    BY <1>6 DEF T

LEMMA CodeAt ==
    ASSUME NEW str \in Seq(0..255), NEW p \in BOOLEAN, NEW ss, Codes(ss, str, p),
           NEW n \in 1..Len(str)
    PROVE  /\ Written(ss[Len(str)], Encoded(str[n], p), Len(ss[n - 1]) + 1)
           /\ Len(ss[n]) + 1 = Len(ss[n - 1]) + 1 + Len(Encoded(str[n], p))
  <1> DEFINE N == Len(str)  all == ss[N]  e == Encoded(str[n], p)  c == Len(ss[n - 1]) + 1
  <1>1. N \in Nat /\ n \in Nat /\ n - 1 \in 0..N /\ n \in 0..N /\ N \in 0..N /\ n <= N
    OBVIOUS
  <1>2. e \in Seq(Coded) /\ Len(e) \in Nat
    <2>1. str[n] \in 0..255
      BY ElementOfSeq, Zenon
    <2> QED
      <3>1. e \in Seq(Coded) /\ Len(e) \in {1, 3}
        BY <2>1, CodeLen
      <3> HIDE DEF e
      <3> QED
        BY ONLY <3>1
  <1>3. /\ ss[n - 1] \in Seq(Coded) /\ ss[n] \in Seq(Coded) /\ all \in Seq(Coded)
        /\ ss[n] = ss[n - 1] \o e
    BY <1>1 DEF Codes
  <1>4. Len(all) >= Len(ss[n]) + (N - n) /\ \A i \in 1..Len(ss[n]) : all[i] = ss[n][i]
    BY <1>1, CodesGrow DEF Grown
  <1> HIDE DEF N, all, e
  <1>5. /\ Len(ss[n]) = Len(ss[n - 1]) + Len(e) /\ Len(ss[n - 1]) \in Nat /\ Len(all) \in Nat
        /\ \A i \in 1..Len(e) : ss[n][Len(ss[n - 1]) + i] = e[i]
    <2>1. Joined(ss[n], ss[n - 1], e)
      BY <1>2, <1>3, Join, Zenon
    <2>2. Len(all) \in Nat
      BY <1>3
    <2> QED
      BY <2>1, <2>2, Zenon DEF Joined
  <1>6. ASSUME NEW i \in 1..Len(e) PROVE all[c + i - 1] = e[i]
    <2>1. c + i - 1 = Len(ss[n - 1]) + i /\ c + i - 1 \in 1..Len(ss[n])
      <3> DEFINE u == Len(ss[n - 1])  w == Len(e)
      <3>1. u \in Nat /\ w \in Nat /\ i \in 1..w /\ Len(ss[n]) = u + w /\ c = u + 1
        BY <1>2, <1>5
      <3> HIDE DEF u, w, c
      <3>2. c + i - 1 = u + i /\ c + i - 1 \in 1..(u + w)
        BY <3>1
      <3> QED
        BY <3>1, <3>2 DEF u
    <2>2. all[c + i - 1] = ss[n][c + i - 1]
      BY <1>4, <2>1, Zenon
    <2>3. ss[n][Len(ss[n - 1]) + i] = e[i]
      BY <1>5, Zenon
    <2> QED
      BY <2>1, <2>2, <2>3, Zenon
  <1>7. c \in Nat /\ c > 0 /\ Len(ss[n]) + 1 = c + Len(e) /\ c + Len(e) - 1 <= Len(all)
    BY <1>1, <1>2, <1>4, <1>5, SMTT(30)
  <1> QED
    BY <1>6, <1>7, Zenon DEF N, all, e, Written

\* loop holds where the decoder is and what it has after each of its turns.
Decodes(loop, str, q) ==
    /\ loop[0] = [c |-> 1, ss |-> <<>>]
    /\ \A n \in 1..Len(str) : loop[n] = Turn(str, q, loop[n - 1])

LEMMA DecodeIs ==
    ASSUME NEW str \in Seq(Coded), NEW q \in BOOLEAN
    PROVE  \E loop : Decodes(loop, str, q) /\ UrlDecode(str, q) = loop[Len(str)].ss
  <1> DEFINE N == Len(str)
             S == [c : Nat \ {0}, ss : Seq(Int)]
             step == [n \in 1..N |-> [s \in S |-> Turn(str, q, s)]]
             a == [c |-> 1, ss |-> <<>>]
             Body(f) == [n \in 0..N |-> IF n = 0 THEN a ELSE Turn(str, q, f[n - 1])]
             f == CHOOSE g : g = Body(g)
  <1>1. N \in Nat /\ a \in S
    OBVIOUS
  <1>2. ASSUME NEW s \in S PROVE Turn(str, q, s) \in S
    <2>1. Coded \subseteq Int /\ isxdigit \subseteq 0..255 /\ Space \in Int
      BY DEF Coded, uri_chars, Percent, Plus, isxdigit, Space
    <2>2. \A h \in 0..255 : xdigit_chars[h] \in Int
      <3> TAKE h \in 0..255
      <3>1. h \in 48..57 \/ h \in 65..70 \/ h \in 97..102
            \/ (h \notin 48..57 /\ h \notin 65..70 /\ h \notin 97..102)
        OBVIOUS
      <3>2. /\ h \in 48..57 => xdigit_chars[h] = h - 48
            /\ h \in 65..70 => xdigit_chars[h] = h - 55
            /\ h \in 97..102 => xdigit_chars[h] = h - 87
            /\ h \notin 48..57 /\ h \notin 65..70 /\ h \notin 97..102 => xdigit_chars[h] = 0
        <4>1. xdigit_chars[h] = CASE h \in 48..57  -> h - 48
                                  [] h \in 65..70  -> h - 55
                                  [] h \in 97..102 -> h - 87
                                  [] OTHER         -> 0
          BY DEF xdigit_chars
        <4>2. /\ h \in 48..57 => h \notin 65..70 /\ h \notin 97..102
              /\ h \in 65..70 => h \notin 97..102
          OBVIOUS
        <4> QED
          BY ONLY <4>1, <4>2
      <3> QED
        BY <3>1, <3>2
    <2>3. s.c \in Nat /\ s.c > 0 /\ s.ss \in Seq(Int) /\ s.c + 1 \in Nat \ {0} /\ s.c + 3 \in Nat \ {0}
      OBVIOUS
    <2>4. CASE s.c > N
      BY <2>4 DEF Turn
    <2>5. CASE ~(s.c > N) /\ str[s.c] = Plus /\ q
      <3>1. Append(s.ss, Space) \in Seq(Int)
        BY <2>1, <2>3
      <3>2. Turn(str, q, s) = [c |-> s.c + 1, ss |-> Append(s.ss, Space)]
        BY <2>5, Zenon DEF Turn, N
      <3> QED
        BY <2>3, <3>1, <3>2
    <2>6. CASE ~(s.c > N) /\ ~(str[s.c] = Plus /\ q) /\ EscapeAt(str, s.c)
      <3> DEFINE x == xdigit_chars[str[s.c + 1]] * 16 + xdigit_chars[str[s.c + 2]]
      <3>1. str[s.c + 1] \in isxdigit /\ str[s.c + 2] \in isxdigit
        BY <2>6 DEF EscapeAt
      <3>2. x \in Int
        <4> DEFINE g == str[s.c + 1]  h == str[s.c + 2]
        <4>1. g \in isxdigit /\ h \in isxdigit
          BY <3>1
        <4> HIDE DEF g, h
        <4>2. g \in 0..255 /\ h \in 0..255
          BY ONLY <2>1, <4>1
        <4>3. xdigit_chars[g] \in Int /\ xdigit_chars[h] \in Int
          BY ONLY <2>2, <4>2
        <4>4. xdigit_chars[g] * 16 + xdigit_chars[h] \in Int
          BY ONLY <4>3
        <4> QED
          BY <4>4 DEF g, h
      <3>3. Turn(str, q, s) = [c |-> s.c + 3, ss |-> Append(s.ss, x)]
        BY <2>6, Zenon DEF Turn, N
      <3> HIDE DEF x
      <3>4. Append(s.ss, x) \in Seq(Int)
        BY <2>3, <3>2
      <3> QED
        BY <2>3, <3>3, <3>4
    <2>7. CASE ~(s.c > N) /\ ~(str[s.c] = Plus /\ q) /\ ~EscapeAt(str, s.c)
      <3>1. s.c \in 1..N
        BY <1>1, <2>3, <2>7
      <3>2. str[s.c] \in Int
        BY <2>1, <3>1, ElementOfSeq
      <3>3. Turn(str, q, s) = [c |-> s.c + 1, ss |-> Append(s.ss, str[s.c])]
        BY <2>7, Zenon DEF Turn, N
      <3>4. Append(s.ss, str[s.c]) \in Seq(Int)
        BY <2>3, <3>2
      <3> QED
        BY <2>3, <3>3, <3>4
    <2> QED
      BY <2>4, <2>5, <2>6, <2>7
  <1>4. step \in [1..N -> [S -> S]]
    BY <1>2
  <1>7. \A n \in 1..N : \A x \in S : step[n][x] = Turn(str, q, x)
    OBVIOUS
  <1> HIDE DEF N, S, step, a
  <1>5. PICK g : Loop(g, N, S, a, step)
    <2>1. N \in Nat /\ a \in S
      BY <1>1
    <2> QED
      BY <1>4, <2>1, LoopExists, Zenon
  <1>6. \A n \in 0..N : n # 0 => n - 1 \in 0..N /\ n \in 1..N
    BY <1>1
  <1>8. g = Body(g)
    <2>1. \A n \in 0..N : g[n] = IF n = 0 THEN a ELSE Turn(str, q, g[n - 1])
      <3> TAKE n \in 0..N
      <3>1. g[n] = IF n = 0 THEN a ELSE step[n][g[n - 1]]
        BY <1>5 DEF Loop
      <3>2. ASSUME n # 0 PROVE step[n][g[n - 1]] = Turn(str, q, g[n - 1])
        <4>1. n \in 1..N /\ g[n - 1] \in S
          BY <1>5, <1>6, <3>2 DEF Loop
        <4> QED
          BY <1>7, <4>1
      <3> QED
        BY <3>1, <3>2
    <2>2. g = [n \in 0..N |-> g[n]]
      BY <1>5 DEF Loop
    <2> QED
      BY <2>1, <2>2
  <1> HIDE DEF Body
  <1>9. f = Body(f)
    BY <1>8
  <1>10. UrlDecode(str, q) = f[N].ss
    BY DEF UrlDecode, Body, N, a
  <1> HIDE DEF f
  <1>11. f[0] = a /\ \A n \in 1..N : f[n] = Turn(str, q, f[n - 1])
    <2>1. 0 \in 0..N /\ \A n \in 1..N : n \in 0..N /\ n # 0
      BY <1>1
    <2> QED
      BY <1>9, <2>1 DEF Body
  <1> QED
    BY <1>10, <1>11 DEF Decodes, N, a

\* The decoder gives the text back, from what was encoded for it.
LEMMA DecodesBack ==
    ASSUME NEW str \in Seq(0..255), NEW p \in BOOLEAN, NEW q \in BOOLEAN, p => q
    PROVE  /\ UrlEncode(str, p) \in Seq(Coded)
           /\ UrlDecode(UrlEncode(str, p), q) = str
  <1> DEFINE N == Len(str)
  <1>1. PICK ss : Codes(ss, str, p) /\ UrlEncode(str, p) = ss[N]
    BY EncodeIs
  <1> DEFINE all == ss[N]
             M == Len(all)
  <1>2. N \in Nat /\ all \in Seq(Coded) /\ M \in Nat
    <2>1. N \in Nat /\ N \in 0..N
      OBVIOUS
    <2>2. all \in Seq(Coded)
      BY <1>1, <2>1 DEF Codes
    <2> QED
      BY <2>1, <2>2
  <1>3. PICK loop : Decodes(loop, all, q) /\ UrlDecode(all, q) = loop[M].ss
    BY <1>2, DecodeIs
  <1>4. M >= N
    <2>1. 0 \in 0..N /\ N \in 0..N /\ 0 <= N
      BY <1>2
    <2>2. Grown(ss, 0, N)
      BY <1>1, <2>1, CodesGrow
    <2>3. Len(ss[0]) = 0
      BY <1>1 DEF Codes
    <2> HIDE DEF N
    <2> QED
      BY <1>2, <2>2, <2>3 DEF Grown
  <1> DEFINE At(n) == [c |-> Len(ss[n]) + 1, ss |-> SubSeq(str, 1, n)]
             T == {n \in Nat : n <= N => loop[n] = At(n)}
             R == {d \in Nat : N + d <= M => loop[N + d] = At(N)}
  <1>5. Nat \subseteq T
    <2>1. 0 \in T
      <3>1. loop[0] = [c |-> 1, ss |-> <<>>] /\ ss[0] = <<>>
        BY <1>1, <1>3 DEF Decodes, Codes
      <3>2. SubSeq(str, 1, 0) = <<>>
        BY SubSeqEmpty
      <3> QED
        BY <3>1, <3>2
    <2>2. ASSUME NEW n \in Nat, n \in T PROVE n + 1 \in T
      <3>0. n + 1 \in Nat
        OBVIOUS
      <3> SUFFICES ASSUME n + 1 <= N PROVE loop[n + 1] = At(n + 1)
        BY <3>0, Zenon
      <3>1. n <= N /\ n + 1 \in 1..N /\ n + 1 \in 1..M /\ (n + 1) - 1 = n
        BY <1>2, <1>4
      <3>2. loop[n] = At(n)
        BY <2>2, <3>1
      <3> DEFINE b == str[n + 1]
                 e == Encoded(b, p)
                 c == Len(ss[n]) + 1
                 x == SubSeq(str, 1, n)
      <3>3. b \in 0..255
        BY <3>1, ElementOfSeq, Zenon
      <3>4. Written(all, e, c) /\ Len(ss[n + 1]) + 1 = c + Len(e)
        <4>1. /\ Written(all, e, Len(ss[(n + 1) - 1]) + 1)
              /\ Len(ss[n + 1]) + 1 = Len(ss[(n + 1) - 1]) + 1 + Len(e)
          BY <1>1, <3>1, CodeAt, Zenon
        <4> QED
          BY <3>1, <4>1, Zenon
      <3>5. loop[n + 1] = Turn(all, q, loop[n])
        BY <1>3, <3>1 DEF Decodes
      <3>6. Append(x, b) = SubSeq(str, 1, n + 1)
        BY <3>1
      <3>7. At(n) = [c |-> c, ss |-> x] /\ At(n + 1) = [c |-> c + Len(e), ss |-> Append(x, b)]
        BY <3>4, <3>6
      <3> HIDE DEF At, all, x, b, c, N
      <3>8. Turn(all, q, [c |-> c, ss |-> x]) = [c |-> c + Len(e), ss |-> Append(x, b)]
        <4>1. p \in BOOLEAN /\ q \in BOOLEAN /\ (p => q)
          OBVIOUS
        <4>2. all \in Seq(Coded) /\ b \in 0..255 /\ Written(all, Encoded(b, p), c)
          BY <1>2, <3>3, <3>4
        <4>3. Reads(all, q, Encoded(b, p), c, b)
          BY <4>1, <4>2, TurnReads, Zenon
        <4> QED
          BY <4>3 DEF Reads
      <3> QED
        BY <3>2, <3>5, <3>7, <3>8
    <2> HIDE DEF T
    <2> QED
      BY <2>1, <2>2, Induction
  <1>6. Nat \subseteq R
    <2>1. 0 \in R
      <3>1. N + 0 = N /\ N \in T
        BY <1>2, <1>5
      <3> QED
        BY <1>2, <3>1
    <2>2. ASSUME NEW d \in Nat, d \in R PROVE d + 1 \in R
      <3>0. d + 1 \in Nat
        OBVIOUS
      <3> SUFFICES ASSUME N + (d + 1) <= M PROVE loop[N + (d + 1)] = At(N)
        BY <3>0, Zenon
      <3>1. N + d <= M /\ N + (d + 1) \in 1..M /\ (N + (d + 1)) - 1 = N + d
        BY <1>2
      <3>2. loop[N + d] = At(N)
        BY <2>2, <3>1
      <3>3. loop[N + (d + 1)] = Turn(all, q, loop[N + d])
        BY <1>3, <3>1 DEF Decodes
      <3>4. At(N).c > Len(all)
        BY <1>2
      <3>5. Turn(all, q, At(N)) = At(N)
        BY <3>4 DEF Turn
      <3> QED
        BY <3>2, <3>3, <3>5
    <2> HIDE DEF R
    <2> QED
      BY <2>1, <2>2, Induction
  <1>7. loop[M] = At(N)
    <2>1. M - N \in Nat /\ N + (M - N) = M
      BY <1>2, <1>4
    <2>2. M - N \in R
      BY <1>6, <2>1
    <2>3. N + (M - N) <= M => loop[N + (M - N)] = At(N)
      BY <2>2
    <2> HIDE DEF N, M, At
    <2> QED
      BY <1>2, <2>1, <2>3
  <1>8. SubSeq(str, 1, N) = str
    OBVIOUS
  <1> QED
    BY <1>1, <1>2, <1>3, <1>7, <1>8

CodecInv ==
    /\ text \in Seq(0..255) /\ plus \in BOOLEAN
    /\ coded # Raw => coded = UrlEncode(text, plus)
    /\ decoded # Raw => coded # Raw /\ decoded = text

\* Whatever bytes a text has, decoding what it was encoded to gives it back, and the
\* code has nothing but unreserved bytes, '%' and '+' (util.cpp:141-201).
THEOREM DecodingUndoes == CodecInit /\ [][CodecNext]_codecVars => []RoundTrip
  <1>1. CodecInit => CodecInv
    <2>1. <<>> \in Seq(0..255)
      OBVIOUS
    <2> QED
      BY <2>1, Zenon DEF CodecInit, CodecInv
  <1>2. CodecInv /\ [CodecNext]_codecVars => CodecInv'
    <2> SUFFICES ASSUME CodecInv, [CodecNext]_codecVars PROVE CodecInv'
      OBVIOUS
    <2>1. CASE UNCHANGED codecVars
      BY <2>1 DEF codecVars, CodecInv
    <2>2. CASE Type
      <3>1. PICK c \in Byte : text' = Append(text, c)
        BY <2>2 DEF Type
      <3>2. text' \in Seq(0..255)
        BY <3>1, ByteAssumption DEF CodecInv
      <3> QED
        BY <2>2, <3>2 DEF Type, CodecInv
    <2>3. CASE Encode
      BY <2>3 DEF Encode, CodecInv
    <2>4. CASE Decode
      <3>1. PICK q \in BOOLEAN : (plus => q) /\ decoded' = UrlDecode(coded, q)
        BY <2>4 DEF Decode
      <3>2. coded = UrlEncode(text, plus) /\ UNCHANGED <<text, coded, plus>> /\ coded # Raw
        BY <2>4 DEF Decode, CodecInv
      <3>3. decoded' = text
        BY <3>1, <3>2, DecodesBack DEF CodecInv
      <3> QED
        BY <3>2, <3>3 DEF CodecInv
    <2> QED
      BY <2>1, <2>2, <2>3, <2>4 DEF CodecNext
  <1>3. CodecInv => RoundTrip
    <2> SUFFICES ASSUME CodecInv PROVE RoundTrip
      OBVIOUS
    <2>1. ASSUME coded # Raw, NEW i \in 1..Len(coded) PROVE coded[i] \in Coded
      <3>1. coded \in Seq(Coded)
        BY <2>1, DecodesBack DEF CodecInv
      <3> QED
        BY <3>1
    <2> QED
      BY <2>1 DEF RoundTrip, CodecInv, Coded
  <1> QED
    BY <1>1, <1>2, <1>3, PTL

------------------------------------------------------------------------------
(* Loops of any number of turns, and recursions. *)

\* f has what the turns make of a.
Turns(f, k, a, step) == f = [i \in 0..k |-> IF i = 0 THEN a ELSE step[i - 1][f[i - 1]]]

LEMMA TurnsExist ==
    ASSUME NEW k \in Nat, NEW a, NEW step
    PROVE  \E f : Turns(f, k, a, step)
  <1> DEFINE T == {m \in Nat : \E f : Turns(f, m, a, step)}
  <1>1. 0 \in T
    <2>1. Turns([i \in 0..0 |-> a], 0, a, step)
      BY DEF Turns
    <2> QED
      BY <2>1
  <1>2. ASSUME NEW m \in Nat, m \in T PROVE m + 1 \in T
    <2>1. PICK f : Turns(f, m, a, step)
      BY <1>2
    <2> DEFINE g == [i \in 0..(m + 1) |-> IF i = m + 1 THEN step[m][f[m]] ELSE f[i]]
    <2>2. \A i \in 0..m : f[i] = IF i = 0 THEN a ELSE step[i - 1][f[i - 1]]
      BY <2>1 DEF Turns
    <2>3. \A i \in 0..(m + 1) : /\ i = m + 1 => i # 0 /\ i - 1 = m /\ i - 1 \in 0..m /\ i - 1 # m + 1
                                /\ i # m + 1 => i \in 0..m /\ (i # 0 => i - 1 \in 0..m /\ i - 1 # m + 1)
      OBVIOUS
    <2>4. \A i \in 0..m : g[i] = f[i]
      OBVIOUS
    <2>5. \A i \in 0..(m + 1) : g[i] = IF i = 0 THEN a ELSE step[i - 1][g[i - 1]]
      <3> TAKE i \in 0..(m + 1)
      <3>1. CASE i = m + 1
        <4>1. g[i] = step[m][f[m]]
          BY <3>1
        <4> HIDE DEF g
        <4> QED
          BY <2>3, <2>4, <3>1, <4>1
      <3>2. CASE i # m + 1
        <4> HIDE DEF g
        <4> QED
          BY <2>2, <2>3, <2>4, <3>2
      <3> QED
        BY <3>1, <3>2
    <2>6. g = [i \in 0..(m + 1) |-> g[i]]
      OBVIOUS
    <2> HIDE DEF g
    <2>7. Turns(g, m + 1, a, step)
      BY <2>5, <2>6 DEF Turns
    <2> QED
      BY <2>7
  <1> HIDE DEF T
  <1>3. k \in T
    BY <1>1, <1>2, Induction
  <1> QED
    BY <1>3 DEF T

\* What every turn leads from one set to the next holds of what the loop makes.
LEMMA AfterKeeps ==
    ASSUME NEW k \in Nat, NEW a, NEW step, NEW Inv, a \in Inv[0],
           \A i \in 0..(k - 1) : \A x \in Inv[i] : step[i][x] \in Inv[i + 1]
    PROVE  After(a, k, step) \in Inv[k]
  <1> DEFINE f == CHOOSE g : Turns(g, k, a, step)
             T == {i \in Nat : i <= k => f[i] \in Inv[i]}
  <1>1. Turns(f, k, a, step)
    BY TurnsExist, Zenon
  <1>2. After(a, k, step) = f[k]
    BY DEF After, Turns
  <1> HIDE DEF f
  <1>3. \A i \in 0..k : f[i] = IF i = 0 THEN a ELSE step[i - 1][f[i - 1]]
    BY <1>1 DEF Turns
  <1>4. 0 \in T
    BY <1>3
  <1>5. ASSUME NEW i \in Nat, i \in T PROVE i + 1 \in T
    <2> SUFFICES ASSUME i + 1 <= k PROVE f[i + 1] \in Inv[i + 1]
      OBVIOUS
    <2>1. i \in 0..(k - 1) /\ i + 1 \in 0..k /\ i + 1 # 0 /\ (i + 1) - 1 = i /\ i <= k
      OBVIOUS
    <2>2. f[i + 1] = step[i][f[i]]
      BY <1>3, <2>1
    <2>3. f[i] \in Inv[i]
      BY <1>5, <2>1
    <2> QED
      BY <2>1, <2>2, <2>3
  <1> HIDE DEF T
  <1>6. k \in T
    BY <1>4, <1>5, Induction
  <1> QED
    BY <1>2, <1>6 DEF T

\* A recursion that only asks for what is less deep: deep[p] is the depth of an argument,
\* step[p] what the definition makes of the function it defines, W[p] what that may be.
Recursive(P, V, W, f0, deep, n, step) ==
    /\ f0 \in [P -> V] /\ deep \in [P -> Nat] /\ n \in Nat
    /\ \A p \in P : W[p] \subseteq V
    /\ \A p \in P : deep[p] < n
    /\ \A p \in P : \A f \in [P -> V] :
          (\A q \in P : deep[q] < deep[p] => f[q] \in W[q]) => step[p][f] \in W[p]
    /\ \A p \in P : \A f, g \in [P -> V] :
          (\A q \in P : deep[q] < deep[p] => f[q] \in W[q] /\ f[q] = g[q])
             => step[p][f] = step[p][g]

\* It has a solution.
LEMMA RecursionExists ==
    ASSUME NEW P, NEW V, NEW W, NEW f0, NEW deep, NEW n, NEW step,
           Recursive(P, V, W, f0, deep, n, step)
    PROVE  \E f \in [P -> V] : f = [p \in P |-> step[p][f]]
  <1>0. /\ f0 \in [P -> V] /\ deep \in [P -> Nat] /\ n \in Nat
        /\ \A p \in P : W[p] \subseteq V
        /\ \A p \in P : deep[p] < n
    BY DEF Recursive
  <1>a. \A p \in P : \A f \in [P -> V] :
          (\A q \in P : deep[q] < deep[p] => f[q] \in W[q]) => step[p][f] \in W[p]
    BY DEF Recursive
  <1>b. \A p \in P : \A f, g \in [P -> V] :
          (\A q \in P : deep[q] < deep[p] => f[q] \in W[q] /\ f[q] = g[q])
             => step[p][f] = step[p][g]
    BY DEF Recursive
  <1> DEFINE T == {k \in Nat : \E f \in [P -> V] :
                      \A p \in P : deep[p] < k => f[p] = step[p][f] /\ f[p] \in W[p]}
  <1>1. 0 \in T
    BY <1>0
  <1>2. ASSUME NEW k \in Nat, k \in T PROVE k + 1 \in T
    <2>1. PICK f \in [P -> V] : \A p \in P : deep[p] < k => f[p] = step[p][f] /\ f[p] \in W[p]
      BY <1>2
    <2>2. \A p \in P : deep[p] <= k => step[p][f] \in W[p]
      <3> TAKE p \in P
      <3> HAVE deep[p] <= k
      <3>1. \A q \in P : deep[q] < deep[p] => deep[q] < k
        BY <1>0
      <3> QED
        BY <1>a, <2>1, <3>1
    <2> DEFINE g == [p \in P |-> IF deep[p] <= k THEN step[p][f] ELSE f[p]]
    <2>3. g \in [P -> V]
      BY <1>0, <2>2
    <2>4. \A p \in P : deep[p] < k => g[p] = f[p]
      BY <1>0, <2>1
    <2>5. \A p \in P : deep[p] <= k => g[p] = step[p][f]
      OBVIOUS
    <2> HIDE DEF g
    <2>6. ASSUME NEW p \in P, deep[p] < k + 1 PROVE g[p] = step[p][g] /\ g[p] \in W[p]
      <3>1. deep[p] <= k /\ \A q \in P : deep[q] < deep[p] => deep[q] < k
        BY <1>0, <2>6
      <3>2. \A q \in P : deep[q] < deep[p] => f[q] \in W[q] /\ f[q] = g[q]
        BY <2>1, <2>4, <3>1
      <3>3. step[p][f] = step[p][g]
        BY <1>b, <2>1, <2>3, <3>2
      <3> QED
        BY <2>2, <2>5, <3>1, <3>3
    <2> QED
      BY <2>3, <2>6
  <1>3. n \in T
    <2> HIDE DEF T
    <2> QED
      BY <1>0, <1>1, <1>2, Induction
  <1>4. PICK f \in [P -> V] : \A p \in P : f[p] = step[p][f]
    BY <1>0, <1>3
  <1>5. f = [p \in P |-> step[p][f]]
    BY <1>4
  <1> QED
    BY <1>5

------------------------------------------------------------------------------
(* The sorts: every one ends with its input in ascending order. *)

Arrays(n) == [Index(n) -> Value]

\* Each value as often in w as in v.
Same(v, w) ==
    \A x \in Value : Cardinality({i \in DOMAIN w : w[i] = x})
                       = Cardinality({i \in DOMAIN v : v[i] = x})

Ascends(w, a, b) == \A i, j \in a..b : i <= j => w[i] <= w[j]

\* What a sort owes for v.
SortOf(w, v, n) == w \in [Index(n) -> Nat] /\ Ascends(w, 0, n - 1) /\ Same(v, w)

LEMMA ArrayIs ==
    ASSUME NEW n \in Nat, NEW v \in [Index(n) -> Nat]
    PROVE  /\ DOMAIN v = Index(n) /\ length(v) = n /\ Like(v) = Arrays(n)
           /\ \A i \in Index(n) : v[i] \in Nat
  <1>1. DOMAIN v = Index(n)
    OBVIOUS
  <1>2. Cardinality(0..(n - 1)) = n
    <2>1. 0 \in Int /\ n - 1 \in Int
      OBVIOUS
    <2>2. Cardinality(0..(n - 1)) = IF 0 > n - 1 THEN 0 ELSE (n - 1) - 0 + 1
      BY ONLY <2>1, FS_Interval
    <2> QED
      BY <2>2
  <1> QED
    BY <1>1, <1>2 DEF length, Like, Arrays, Index

LEMMA ArrayOfNats ==
    ASSUME NEW n \in Nat, NEW v \in Arrays(n)
    PROVE  v \in [Index(n) -> Nat]
  BY ValueAssumption DEF Arrays

LEMMA Reflexive == \A v : Same(v, v)
  BY DEF Same

LEMMA Transitive == \A u, v, w : Same(u, v) /\ Same(v, w) => Same(u, w)
  BY DEF Same

\* The elements of v in the places that f says.
LEMMA Rearranged ==
    ASSUME NEW n \in Nat, NEW v, DOMAIN v = Index(n), NEW w, DOMAIN w = Index(n),
           NEW f \in [Index(n) -> Index(n)], NEW g \in [Index(n) -> Index(n)],
           \A i \in Index(n) : f[g[i]] = i /\ g[f[i]] = i /\ w[i] = v[f[i]]
    PROVE  Same(v, w)
  <1> SUFFICES ASSUME NEW x \in Value
               PROVE  Cardinality({i \in Index(n) : w[i] = x})
                        = Cardinality({i \in Index(n) : v[i] = x})
    BY DEF Same
  <1> DEFINE S == {i \in Index(n) : w[i] = x}
             T == {i \in Index(n) : v[i] = x}
             h == [i \in S |-> f[i]]
  <1>1. h \in [S -> T]
    OBVIOUS
  <1>2. \A i, j \in S : h[i] = h[j] => i = j
    <2> TAKE i, j \in S
    <2>1. g[f[i]] = i /\ g[f[j]] = j /\ h[i] = f[i] /\ h[j] = f[j]
      OBVIOUS
    <2> QED
      BY <2>1, Zenon
  <1>3. \A t \in T : \E i \in S : h[i] = t
    <2> TAKE t \in T
    <2>1. g[t] \in S /\ f[g[t]] = t
      OBVIOUS
    <2> QED
      BY <2>1
  <1>4. h \in Bijection(S, T)
    <2> HIDE DEF S, T, h
    <2>1. h \in Injection(S, T)
      BY <1>1, <1>2 DEF Injection, IsInjective
    <2>2. h \in Surjection(S, T)
      BY <1>1, <1>3 DEF Surjection
    <2> QED
      BY <2>1, <2>2 DEF Bijection
  <1>5. IsFiniteSet(S)
    <2>1. IsFiniteSet(Index(n))
      BY FS_Interval DEF Index
    <2> QED
      BY <2>1, FS_Subset
  <1> HIDE DEF S, T, h
  <1>6. Cardinality(T) = Cardinality(S)
    <2>1. ExistsBijection(S, T)
      BY <1>4 DEF ExistsBijection
    <2> QED
      BY <1>5, <2>1, FS_Bijection, Zenon
  <1> QED
    BY <1>6 DEF S, T

\* w is v but for the elements at i and j, which have changed places.
Swapped(w, v, i, j, n) ==
    /\ w \in Arrays(n) /\ Same(v, w)
    /\ \A k \in Index(n) : w[k] = IF k = j THEN v[i] ELSE IF k = i THEN v[j] ELSE v[k]

LEMMA SwapIs ==
    ASSUME NEW n \in Nat, NEW v \in Arrays(n), NEW i \in Index(n), NEW j \in Index(n)
    PROVE  Swapped(swap(v, i, j), v, i, j, n)
  <1> DEFINE w == swap(v, i, j)
             f == [k \in Index(n) |-> IF k = j THEN i ELSE IF k = i THEN j ELSE k]
  <1>1. w \in Arrays(n) /\ \A k \in Index(n) : w[k] = IF k = j THEN v[i] ELSE IF k = i THEN v[j] ELSE v[k]
    BY DEF swap, Arrays
  <1>2. f \in [Index(n) -> Index(n)]
    OBVIOUS
  <1>3. \A k \in Index(n) : f[f[k]] = k /\ w[k] = v[f[k]]
    BY <1>1
  <1>4. DOMAIN v = Index(n) /\ DOMAIN w = Index(n)
    BY <1>1 DEF Arrays
  <1> HIDE DEF f, w
  <1>5. Same(v, w)
    BY <1>2, <1>3, <1>4, Rearranged
  <1> QED
    BY <1>1, <1>5 DEF w, Swapped

\* The last r places hold the largest elements, in order.
HighDone(w, r, n) == \A p \in Index(n), q \in (n - r)..(n - 1) : p <= q => w[p] <= w[q]

LEMMA BubbleSorts ==
    ASSUME NEW n \in Nat, n >= 2, NEW v \in Arrays(n)
    PROVE  SortOf(bubbleSort(v), v, n)
  <1> DEFINE Compare == [j \in Index(n - 1) |-> [w \in Arrays(n) |->
                            IF w[j] > w[j + 1] THEN swap(w, j, j + 1) ELSE w]]
             Round == [r \in Index(n - 1) |-> [w \in Arrays(n) |-> After(w, n - 1 - r, Compare)]]
             Inv == [r \in 0..(n - 1) |-> {w \in Arrays(n) : Same(v, w) /\ HighDone(w, r, n)}]
  <1>1. bubbleSort(v) = After(v, n - 1, Round)
    <2>1. length(v) = n /\ Like(v) = Arrays(n)
      BY ArrayIs, ArrayOfNats
    <2> QED
      BY <2>1, Zenon DEF bubbleSort
  <1>2. v \in Inv[0]
    <2>1. HighDone(v, 0, n)
      BY DEF HighDone, Index
    <2>2. 0 \in 0..(n - 1)
      OBVIOUS
    <2> QED
      BY <2>1, <2>2, Reflexive
  <1>3. ASSUME NEW r \in 0..(n - 2), NEW w \in Inv[r] PROVE Round[r][w] \in Inv[r + 1]
    <2> DEFINE m == n - 1 - r
               Up(x, j) == \A p \in 0..j : x[p] <= x[j]
               In == [j \in 0..m |-> {x \in Arrays(n) : Same(v, x) /\ HighDone(x, r, n) /\ Up(x, j)}]
    <2>0. /\ r \in 0..(n - 1) /\ r + 1 \in 0..(n - 1) /\ r \in Index(n - 1) /\ m \in Nat
          /\ m <= n - 1 /\ m = (n - r) - 1 /\ n - (r + 1) = m
      BY DEF Index
    <2>1. w \in Arrays(n) /\ Same(v, w) /\ HighDone(w, r, n)
      BY <2>0
    <2>2. Round[r][w] = After(w, m, Compare)
      BY <2>0, <2>1, Zenon
    <2> HIDE DEF m
    <2>3. w \in In[0]
      <3>1. Up(w, 0)
        <4>1. w[0] \in Nat
          BY <2>1, ArrayOfNats DEF Index
        <4> QED
          BY <4>1
      <3>2. 0 \in 0..m
        BY <2>0
      <3> QED
        BY <2>1, <3>1, <3>2
    <2>4. ASSUME NEW j \in 0..(m - 1), NEW x \in In[j] PROVE Compare[j][x] \in In[j + 1]
      <3>0. /\ j \in 0..m /\ j + 1 \in 0..m /\ j \in Index(n - 1) /\ j \in Index(n) /\ j + 1 \in Index(n)
            /\ j + 1 < n - r
        BY <2>0 DEF Index
      <3>1. x \in Arrays(n) /\ Same(v, x) /\ HighDone(x, r, n) /\ Up(x, j)
        BY <3>0
      <3>2. \A i \in Index(n) : x[i] \in Nat
        BY <3>1, ArrayIs, ArrayOfNats
      <3> DEFINE y == Compare[j][x]
      <3>3. y = IF x[j] > x[j + 1] THEN swap(x, j, j + 1) ELSE x
        BY <3>0, <3>1, Zenon
      <3> HIDE DEF y
      <3> SUFFICES y \in Arrays(n) /\ Same(v, y) /\ HighDone(y, r, n) /\ Up(y, j + 1)
        BY <3>0 DEF y
      <3>4. CASE x[j] > x[j + 1]
        <4>1. y = swap(x, j, j + 1)
          BY <3>3, <3>4
        <4>2. /\ y \in Arrays(n) /\ Same(x, y)
              /\ \A k \in Index(n) : y[k] = IF k = j + 1 THEN x[j] ELSE IF k = j THEN x[j + 1] ELSE x[k]
          <5>1. Swapped(y, x, j, j + 1, n)
            BY <3>0, <3>1, <4>1, SwapIs, Zenon
          <5> QED
            BY <5>1, Zenon DEF Swapped
        <4>3. HighDone(y, r, n)
          BY <2>0, <3>0, <3>1, <3>2, <4>2 DEF HighDone, Index
        <4>4. Up(y, j + 1)
          BY <2>0, <3>0, <3>1, <3>2, <3>4, <4>2 DEF Index
        <4> QED
          BY <3>1, <4>2, <4>3, <4>4, Transitive, Zenon
      <3>5. CASE ~(x[j] > x[j + 1])
        <4>1. y = x
          BY <3>3, <3>5
        <4>2. Up(x, j + 1)
          BY <2>0, <3>0, <3>1, <3>2, <3>5 DEF Index
        <4> QED
          BY <3>1, <4>1, <4>2
      <3> QED
        BY <3>4, <3>5
    <2> HIDE DEF In, Compare
    <2>5. After(w, m, Compare) \in In[m]
      BY <2>0, <2>3, <2>4, AfterKeeps
    <2> DEFINE z == After(w, m, Compare)
    <2>6. z \in Arrays(n) /\ Same(v, z) /\ HighDone(z, r, n) /\ Up(z, m)
      BY <2>0, <2>5 DEF In
    <2> HIDE DEF z
    <2>7. HighDone(z, r + 1, n)
      BY <2>0, <2>6 DEF HighDone, Index
    <2> QED
      BY <2>0, <2>2, <2>6, <2>7 DEF z
  <1> HIDE DEF Inv, Round
  <1>4. After(v, n - 1, Round) \in Inv[n - 1]
    <2>1. n - 1 \in Nat /\ (n - 1) - 1 = n - 2
      OBVIOUS
    <2> QED
      BY <1>2, <1>3, <2>1, AfterKeeps
  <1> DEFINE z == After(v, n - 1, Round)
  <1>5. z \in Arrays(n) /\ Same(v, z) /\ HighDone(z, n - 1, n)
    BY <1>4 DEF Inv
  <1> HIDE DEF z
  <1>6. Ascends(z, 0, n - 1)
    <2>1. \A i \in Index(n) : z[i] \in Nat
      BY <1>5, ArrayIs, ArrayOfNats
    <2> QED
      BY <1>5, <2>1 DEF HighDone, Index, Ascends
  <1> QED
    BY <1>1, <1>5, <1>6, ArrayOfNats DEF SortOf, z

\* The first r places hold the least elements, in order.
LowDone(w, r, n) == \A p \in 0..(r - 1), q \in Index(n) : p <= q => w[p] <= w[q]

\* There is a least element from i on, and a first of those.
LEMMA FirstLeast ==
    ASSUME NEW n \in Nat, NEW w \in [Index(n) -> Nat], NEW i \in Index(n)
    PROVE  \E j \in i..(n - 1) : /\ \A k \in i..(n - 1) : w[j] <= w[k]
                                 /\ \A k \in i..(j - 1) : w[j] < w[k]
  <1> DEFINE T == {w[k] : k \in i..(n - 1)}
  <1>0. i \in Nat /\ i \in i..(n - 1) /\ \A k \in i..(n - 1) : k \in Index(n) /\ k \in Nat
    BY DEF Index
  <1>1. T \subseteq Nat /\ T # {}
    BY <1>0
  <1>2. PICK x \in T : \A y \in T : x <= y
    BY <1>1, Least
  <1> DEFINE S == {k \in i..(n - 1) : w[k] = x}
  <1>3. S \subseteq Nat /\ S # {}
    BY <1>0, <1>2
  <1>4. PICK j \in S : \A k \in S : j <= k
    BY <1>3, Least
  <1>5. \A k \in i..(n - 1) : w[j] <= w[k]
    BY <1>2, <1>4
  <1>6. ASSUME NEW k \in i..(j - 1) PROVE w[j] < w[k]
    <2>1. k \in i..(n - 1) /\ ~(j <= k)
      BY <1>0, <1>4
    <2>2. w[k] # x /\ w[j] = x
      BY <1>4, <2>1
    <2> QED
      BY <1>0, <1>4, <1>5, <2>1, <2>2
  <1> QED
    BY <1>4, <1>5, <1>6

LEMMA SelectionSorts ==
    ASSUME NEW n \in Nat, n >= 2, NEW v \in Arrays(n)
    PROVE  SortOf(selectionSort(v), v, n)
  <1> DEFINE Least1(w, i) == CHOOSE j \in i..(n - 1) : /\ \A k \in i..(n - 1) : w[j] <= w[k]
                                                       /\ \A k \in i..(j - 1) : w[j] < w[k]
             Picks == [i \in Index(n) |-> [w \in Arrays(n) |-> swap(w, i, Least1(w, i))]]
             Inv == [r \in 0..n |-> {w \in Arrays(n) : Same(v, w) /\ LowDone(w, r, n)}]
  <1>1. selectionSort(v) = After(v, n, Picks)
    <2>1. length(v) = n /\ Like(v) = Arrays(n) /\ DOMAIN v = Index(n)
      BY ArrayIs, ArrayOfNats
    <2> QED
      BY <2>1 DEF selectionSort
  <1>2. v \in Inv[0]
    <2>1. LowDone(v, 0, n)
      BY DEF LowDone
    <2> QED
      BY <2>1, Reflexive
  <1>3. ASSUME NEW i \in 0..(n - 1), NEW w \in Inv[i] PROVE Picks[i][w] \in Inv[i + 1]
    <2>0. i \in 0..n /\ i + 1 \in 0..n /\ i \in Index(n)
      BY DEF Index
    <2>1. w \in Arrays(n) /\ Same(v, w) /\ LowDone(w, i, n)
      BY <2>0
    <2>2. \A k \in Index(n) : w[k] \in Nat
      BY <2>1, ArrayIs, ArrayOfNats
    <2> DEFINE j == Least1(w, i)  y == swap(w, i, j)
    <2>3. j \in i..(n - 1) /\ \A k \in i..(n - 1) : w[j] <= w[k]
      BY <2>0, <2>1, FirstLeast, ArrayOfNats
    <2>4. Picks[i][w] = y
      BY <2>0, <2>1, Zenon
    <2> HIDE DEF j, Least1
    <2>5. j \in Index(n)
      BY <2>0, <2>3 DEF Index
    <2>6. /\ y \in Arrays(n) /\ Same(w, y)
          /\ \A k \in Index(n) : y[k] = IF k = j THEN w[i] ELSE IF k = i THEN w[j] ELSE w[k]
      <3>1. Swapped(y, w, i, j, n)
        BY <2>0, <2>1, <2>5, SwapIs, Zenon
      <3> QED
        BY <3>1, Zenon DEF Swapped
    <2> HIDE DEF y
    <2>7. LowDone(y, i + 1, n)
      BY <2>0, <2>1, <2>2, <2>3, <2>5, <2>6 DEF LowDone, Index
    <2>8. Same(v, y)
      BY <2>1, <2>6, Transitive, Zenon
    <2> QED
      BY <2>0, <2>4, <2>6, <2>7, <2>8
  <1> HIDE DEF Inv, Picks
  <1>4. After(v, n, Picks) \in Inv[n]
    BY <1>2, <1>3, AfterKeeps
  <1> DEFINE z == After(v, n, Picks)
  <1>5. z \in Arrays(n) /\ Same(v, z) /\ LowDone(z, n, n)
    BY <1>4 DEF Inv
  <1> HIDE DEF z
  <1>6. Ascends(z, 0, n - 1)
    BY <1>5 DEF LowDone, Index, Ascends
  <1> QED
    BY <1>1, <1>5, <1>6, ArrayOfNats DEF SortOf, z

\* The place behind the last element before i that is not larger.
LEMMA PlaceExists ==
    ASSUME NEW n \in Nat, NEW w \in [Index(n) -> Nat], NEW i \in Index(n)
    PROVE  \E k \in 0..i : /\ k = 0 \/ w[i] >= w[k - 1]
                           /\ \A m \in (k + 1)..i : w[i] < w[m - 1]
  <1> DEFINE T == {k \in 0..i : \A m \in (k + 1)..i : w[i] < w[m - 1]}
  <1>0. i \in Nat /\ \A k \in 0..i : k \in Nat /\ k \in Index(n)
    BY DEF Index
  <1>1. T \subseteq Nat /\ i \in T
    BY <1>0
  <1>2. PICK k \in T : \A m \in T : k <= m
    BY <1>1, Least
  <1>3. ASSUME k # 0, ~(w[i] >= w[k - 1]) PROVE FALSE
    <2>1. k - 1 \in 0..i /\ k - 1 \in Index(n) /\ k \in 0..i
      BY <1>0, <1>3
    <2>2. \A m \in k..i : m = k \/ m \in (k + 1)..i
      BY <1>0
    <2>3. w[i] < w[k - 1]
      BY <1>0, <1>3, <2>1
    <2>4. \A m \in k..i : w[i] < w[m - 1]
      BY <1>2, <2>2, <2>3
    <2>5. (k - 1) + 1 = k
      BY <1>0
    <2>6. k - 1 \in T
      BY <2>1, <2>4, <2>5
    <2> QED
      BY <1>0, <1>2, <2>6
  <1> QED
    BY <1>2, <1>3

LEMMA InsertionSorts ==
    ASSUME NEW n \in Nat, n >= 2, NEW v \in Arrays(n)
    PROVE  SortOf(insertionSort(v), v, n)
  <1> DEFINE Place(w, i) == CHOOSE k \in 0..i : /\ k = 0 \/ w[i] >= w[k - 1]
                                                /\ \A m \in (k + 1)..i : w[i] < w[m - 1]
             Put(w, i, j) == [m \in Index(n) |-> IF m = j THEN w[i]
                                                 ELSE IF m > j /\ m <= i THEN w[m - 1] ELSE w[m]]
             Inserts == [r \in Index(n - 1) |-> [w \in Arrays(n) |-> Put(w, r + 1, Place(w, r + 1))]]
             Inv == [r \in 0..(n - 1) |-> {w \in Arrays(n) : Same(v, w) /\ Ascends(w, 0, r)}]
  <1>1. insertionSort(v) = After(v, n - 1, Inserts)
    <2>1. length(v) = n /\ Like(v) = Arrays(n) /\ DOMAIN v = Index(n)
      BY ArrayIs, ArrayOfNats
    <2> QED
      BY <2>1 DEF insertionSort
  <1>2. v \in Inv[0]
    <2>1. Ascends(v, 0, 0)
      <3>1. v[0] \in Nat
        BY ArrayOfNats DEF Index
      <3> QED
        BY <3>1 DEF Ascends
    <2>2. 0 \in 0..(n - 1)
      OBVIOUS
    <2> QED
      BY <2>1, <2>2, Reflexive
  <1>3. ASSUME NEW r \in 0..(n - 2), NEW w \in Inv[r] PROVE Inserts[r][w] \in Inv[r + 1]
    <2> DEFINE i == r + 1  j == Place(w, i)  y == Put(w, i, j)
    <2>0. /\ r \in 0..(n - 1) /\ r + 1 \in 0..(n - 1) /\ r \in Index(n - 1)
          /\ i \in Index(n) /\ i \in Nat /\ i - 1 = r
      BY DEF Index
    <2>1. w \in Arrays(n) /\ Same(v, w) /\ Ascends(w, 0, r)
      BY <2>0
    <2>2. \A k \in Index(n) : w[k] \in Nat
      BY <2>1, ArrayIs, ArrayOfNats
    <2>3. /\ j \in 0..i /\ (j = 0 \/ w[i] >= w[j - 1])
          /\ \A m \in (j + 1)..i : w[i] < w[m - 1]
      <3> HIDE DEF i
      <3> QED
        BY <2>0, <2>1, PlaceExists, ArrayOfNats
    <2>4. Inserts[r][w] = y
      BY <2>0, <2>1, Zenon
    <2> HIDE DEF i, j, Place
    <2>5. j \in Nat /\ j <= i /\ \A m \in Index(n) : m \in Nat /\ (m > j => m - 1 \in Index(n))
      BY <2>0, <2>3 DEF Index
    <2>6. y \in Arrays(n)
      BY <2>0, <2>1, <2>5 DEF Arrays
    <2>7. Same(w, y)
      <3> DEFINE f == [m \in Index(n) |-> IF m = j THEN i ELSE IF m > j /\ m <= i THEN m - 1 ELSE m]
                 g == [m \in Index(n) |-> IF m = i THEN j ELSE IF m >= j /\ m < i THEN m + 1 ELSE m]
      <3>1. f \in [Index(n) -> Index(n)]
        BY <2>0, <2>5
      <3>2. g \in [Index(n) -> Index(n)]
        BY <2>0, <2>5 DEF Index
      <3>3. ASSUME NEW m \in Index(n) PROVE f[g[m]] = m /\ g[f[m]] = m /\ y[m] = w[f[m]]
        <4>1. f[g[m]] = m
          BY <2>0, <2>5, <3>2
        <4>2. g[f[m]] = m
          BY <2>0, <2>5, <3>1
        <4>3. y[m] = w[f[m]]
          BY <2>0, <2>5
        <4> QED
          BY <4>1, <4>2, <4>3
      <3>4. DOMAIN w = Index(n) /\ DOMAIN y = Index(n)
        BY <2>1 DEF Arrays
      <3> HIDE DEF f, g, y
      <3> QED
        BY <3>1, <3>2, <3>3, <3>4, Rearranged
    <2>8. \A m \in Index(n) : y[m] = IF m = j THEN w[i] ELSE IF m > j /\ m <= i THEN w[m - 1] ELSE w[m]
      OBVIOUS
    <2> HIDE DEF y
    <2>9. Ascends(y, 0, i)
      <3> SUFFICES ASSUME NEW a \in 0..i, NEW b \in 0..i, a < b PROVE y[a] <= y[b]
        <4>1. \A a \in 0..i : y[a] \in Nat
          BY <2>0, <2>6, ArrayOfNats DEF Index
        <4> QED
          BY <2>0, <4>1 DEF Ascends
      <3>0. a \in Index(n) /\ b \in Index(n) /\ a \in Nat /\ b \in Nat
        BY <2>0 DEF Index
      <3>1. \A p, q \in 0..r : p <= q => w[p] <= w[q]
        BY <2>1 DEF Ascends
      <3>2. CASE b < j
        <4>1. y[a] = w[a] /\ y[b] = w[b] /\ a \in 0..r /\ b \in 0..r
          BY <2>0, <2>5, <2>8, <3>0, <3>2
        <4> QED
          BY <3>0, <3>1, <4>1
      <3>3. CASE b = j
        <4>1. y[a] = w[a] /\ y[b] = w[i] /\ a \in 0..r /\ j - 1 \in 0..r /\ a <= j - 1 /\ j - 1 \in Index(n)
          BY <2>0, <2>5, <2>8, <3>0, <3>3 DEF Index
        <4>2. w[a] <= w[j - 1] /\ w[j - 1] <= w[i]
          BY <2>0, <2>2, <2>3, <2>5, <3>0, <3>1, <3>3, <4>1
        <4> QED
          BY <2>0, <2>2, <3>0, <4>1, <4>2
      <3>4. CASE b > j
        <4>1. y[b] = w[b - 1] /\ b - 1 \in 0..r /\ b - 1 \in Index(n) /\ b \in (j + 1)..i
          BY <2>0, <2>5, <2>8, <3>0, <3>4
        <4>2. CASE a = j
          BY <2>0, <2>2, <2>3, <2>8, <3>0, <4>1, <4>2
        <4>3. CASE a < j
          <5>1. y[a] = w[a] /\ a \in 0..r /\ a <= b - 1
            BY <2>0, <2>5, <2>8, <3>0, <4>3
          <5> QED
            BY <3>1, <4>1, <5>1
        <4>4. CASE a > j
          <5>1. y[a] = w[a - 1] /\ a - 1 \in 0..r /\ a - 1 <= b - 1
            BY <2>0, <2>5, <2>8, <3>0, <4>4
          <5> QED
            BY <3>1, <4>1, <5>1
        <4> QED
          BY <2>5, <3>0, <4>2, <4>3, <4>4
      <3> QED
        BY <2>5, <3>0, <3>2, <3>3, <3>4
    <2>10. Same(v, y)
      BY <2>1, <2>7, Transitive, Zenon
    <2> QED
      BY <2>0, <2>4, <2>6, <2>9, <2>10 DEF i
  <1> HIDE DEF Inv, Inserts
  <1>4. After(v, n - 1, Inserts) \in Inv[n - 1]
    <2>1. n - 1 \in Nat /\ (n - 1) - 1 = n - 2
      OBVIOUS
    <2> QED
      BY <1>2, <1>3, <2>1, AfterKeeps
  <1> QED
    BY <1>1, <1>4, ArrayOfNats DEF SortOf, Inv

LEMMA LargestIs ==
    ASSUME NEW n \in Nat, n >= 1, NEW v \in Arrays(n)
    PROVE  m_max(v) \in Value /\ \A i \in Index(n) : v[i] <= m_max(v)
  <1> DEFINE Larger == [i \in Index(n) |-> [m \in Value |-> IF m > v[i] THEN m ELSE v[i]]]
             Inv == [k \in 0..n |-> {m \in Value : \A i \in 0..(k - 1) : v[i] <= m}]
  <1>1. m_max(v) = After(v[0], n, Larger)
    <2>1. length(v) = n /\ DOMAIN v = Index(n)
      BY ArrayIs, ArrayOfNats
    <2> QED
      BY <2>1 DEF m_max
  <1>2. \A i \in Index(n) : v[i] \in Value /\ v[i] \in Nat
    BY ArrayOfNats DEF Arrays
  <1>3. v[0] \in Inv[0]
    BY <1>2 DEF Index
  <1>4. ASSUME NEW i \in 0..(n - 1), NEW m \in Inv[i] PROVE Larger[i][m] \in Inv[i + 1]
    <2>0. i \in Index(n) /\ i \in 0..n /\ i + 1 \in 0..n /\ \A k \in 0..i : k \in 0..(i - 1) \/ k = i
      BY DEF Index
    <2>1. m \in Value /\ m \in Nat /\ \A k \in 0..(i - 1) : v[k] <= m
      BY <2>0, ValueAssumption
    <2> DEFINE x == Larger[i][m]
    <2>2. x = IF m > v[i] THEN m ELSE v[i]
      BY <2>0, <2>1
    <2> HIDE DEF x
    <2>3. x \in Value /\ x >= m /\ x >= v[i] /\ x \in Nat
      BY <1>2, <2>0, <2>1, <2>2
    <2>4. \A k \in 0..i : v[k] <= x
      BY <1>2, <2>0, <2>1, <2>3 DEF Index
    <2> QED
      BY <2>0, <2>3, <2>4 DEF x
  <1> HIDE DEF Inv, Larger
  <1>5. After(v[0], n, Larger) \in Inv[n]
    BY <1>3, <1>4, AfterKeeps
  <1> QED
    BY <1>1, <1>5 DEF Inv, Index

\* After the buckets below j: the elements below j are in place.
Filled(s, j, v, n) ==
    /\ s.i \in 0..n /\ s.i = Cardinality({m \in Index(n) : v[m] < j})
    /\ s.v \in [Index(n) -> Nat]
    /\ \A m \in 0..(s.i - 1) : s.v[m] < j
    /\ Ascends(s.v, 0, s.i - 1)
    /\ \A x \in 0..(j - 1) : Cardinality({m \in 0..(s.i - 1) : s.v[m] = x})
                               = Cardinality({m \in Index(n) : v[m] = x})

LEMMA BucketSorts ==
    ASSUME NEW n \in Nat, n >= 2, NEW v \in Arrays(n)
    PROVE  SortOf(bucketSort(v), v, n)
  <1> DEFINE M == m_max(v)
             bucket(j) == Cardinality({i \in Index(n) : v[i] = j})
             Both == [i : Nat, v : [Index(n) -> Nat]]
             Put(s, j) == [i |-> s.i + bucket(j),
                           v |-> [m \in Index(n) |->
                                    IF m \in s.i..(s.i + bucket(j) - 1) THEN j ELSE s.v[m]]]
             Fill == [j \in 0..M |-> [s \in Both |-> Put(s, j)]]
             Inv == [j \in 0..(M + 1) |-> {s \in Both : Filled(s, j, v, n)}]
             first == [i |-> 0, v |-> v]
  <1>1. bucketSort(v) = After(first, M + 1, Fill).v
    <2>1. DOMAIN v = Index(n)
      BY ArrayIs, ArrayOfNats
    <2> QED
      BY <2>1 DEF bucketSort
  <1>2. M \in Value /\ M \in Nat /\ \A i \in Index(n) : v[i] \in Nat /\ v[i] <= M
    BY LargestIs, ArrayOfNats, ValueAssumption
  <1>3. IsFiniteSet(Index(n)) /\ Cardinality(Index(n)) = n
    BY FS_Interval DEF Index
  <1> HIDE DEF M
  <1>4. first \in Inv[0]
    <2>1. 0 \in 0..(M + 1) /\ first \in Both /\ first.i = 0 /\ first.v = v
      BY <1>2, ArrayOfNats
    <2>2. {m \in Index(n) : v[m] < 0} = {}
      BY <1>2
    <2>3. Cardinality({m \in Index(n) : v[m] < 0}) = 0
      BY <2>2, FS_EmptySet
    <2> HIDE DEF first
    <2>4. Filled(first, 0, v, n)
      BY <2>1, <2>3, ArrayOfNats DEF Filled, Ascends
    <2> QED
      BY <2>1, <2>4
  <1>5. ASSUME NEW j \in 0..M, NEW s \in Inv[j] PROVE Fill[j][s] \in Inv[j + 1]
    <2>0. j \in 0..(M + 1) /\ j + 1 \in 0..(M + 1) /\ j \in Nat
      BY <1>2
    <2>1. s \in Both /\ Filled(s, j, v, n)
      BY <2>0
    <2> DEFINE b == bucket(j)  t == Put(s, j)  i == s.i  w == s.v
    <2>2. Fill[j][s] = t
      BY <2>1, Zenon
    <2>3. /\ IsFiniteSet({m \in Index(n) : v[m] < j}) /\ IsFiniteSet({m \in Index(n) : v[m] = j})
          /\ IsFiniteSet({m \in Index(n) : v[m] < j + 1})
          /\ Cardinality({m \in Index(n) : v[m] < j + 1}) <= n
      BY <1>3, FS_Subset
    <2>4. Cardinality({m \in Index(n) : v[m] < j + 1}) = i + b /\ b \in Nat
      <3> DEFINE A == {m \in Index(n) : v[m] < j}  B == {m \in Index(n) : v[m] = j}
      <3>1. {m \in Index(n) : v[m] < j + 1} = A \cup B
        BY <1>2, <2>0
      <3>2. A \cap B = {}
        BY <1>2, <2>0
      <3>3. Cardinality(A \cap B) = 0
        BY <3>2, FS_EmptySet
      <3>4. i = Cardinality(A) /\ b = Cardinality(B) /\ IsFiniteSet(A) /\ IsFiniteSet(B)
        BY <2>1, <2>3 DEF Filled
      <3> HIDE DEF A, B, b, i
      <3>5. Cardinality(A \cup B) = Cardinality(A) + Cardinality(B) - Cardinality(A \cap B)
        BY <3>4, FS_Union
      <3>6. Cardinality(A) \in Nat /\ Cardinality(B) \in Nat
        BY <3>4, FS_CardinalityType
      <3> QED
        <4>1. Cardinality(A \cup B) = i + b /\ b \in Nat
          BY ONLY <3>3, <3>4, <3>5, <3>6
        <4> QED
          BY <3>1, <4>1
    <2>5. t.i = i + b /\ t.v = [m \in Index(n) |-> IF m \in i..(i + b - 1) THEN j ELSE w[m]]
      OBVIOUS
    <2>6. /\ i \in 0..n /\ w \in [Index(n) -> Nat] /\ \A m \in 0..(i - 1) : w[m] < j
          /\ \A p, q \in 0..(i - 1) : p <= q => w[p] <= w[q]
          /\ \A x \in 0..(j - 1) : Cardinality({m \in 0..(i - 1) : w[m] = x})
                                     = Cardinality({m \in Index(n) : v[m] = x})
      BY <2>1 DEF Filled, Ascends
    <2>7. bucket(j) = b /\ \A x \in 0..j : x = j \/ x \in 0..(j - 1)
      BY <2>0
    <2>t. t \in Both
      BY <2>0, <2>4, <2>5, <2>6
    <2> HIDE DEF t, b, i, w
    <2> DEFINE e == i + b  y == t.v
    <2>8. /\ i \in Nat /\ e \in 0..n /\ e \in Nat /\ e >= i /\ e - b = i
          /\ e = Cardinality({m \in Index(n) : v[m] < j + 1})
      BY <2>3, <2>4, <2>6
    <2>9. y \in [Index(n) -> Nat] /\ \A m \in Index(n) : y[m] = IF m \in i..(e - 1) THEN j ELSE w[m]
      <3>1. y = [m \in Index(n) |-> IF m \in i..(e - 1) THEN j ELSE w[m]]
        <4>1. i + b - 1 = e - 1
          BY <2>4, <2>8
        <4> QED
          BY <2>5, <4>1, Zenon
      <3> HIDE DEF e, y
      <3> QED
        BY <2>0, <2>6, <3>1
    <2> HIDE DEF e, y
    <2>10. \A m \in 0..(e - 1) : /\ m \in Index(n) /\ m \in Nat
                                 /\ \/ m \in i..(e - 1) /\ y[m] = j
                                    \/ m \in 0..(i - 1) /\ y[m] = w[m] /\ y[m] < j
      <3> TAKE m \in 0..(e - 1)
      <3>1. m \in Index(n) /\ m \in Nat /\ (m \in i..(e - 1) \/ (m \in 0..(i - 1) /\ m \notin i..(e - 1)))
        BY <2>8 DEF Index
      <3>2. CASE m \in i..(e - 1)
        BY <2>9, <3>1, <3>2
      <3>3. CASE m \in 0..(i - 1) /\ m \notin i..(e - 1)
        BY <2>6, <2>9, <3>1, <3>3
      <3> QED
        BY <3>1, <3>2, <3>3
    <2>11. \A m \in 0..(e - 1) : y[m] < j + 1 /\ y[m] \in Nat
      BY <2>0, <2>9, <2>10
    <2>12. Ascends(y, 0, e - 1)
      BY <2>0, <2>6, <2>8, <2>10, <2>11 DEF Ascends
    <2>13. ASSUME NEW x \in 0..j
           PROVE  Cardinality({m \in 0..(e - 1) : y[m] = x}) = Cardinality({m \in Index(n) : v[m] = x})
      <3>1. CASE x = j
        <4>1. {m \in 0..(e - 1) : y[m] = x} = i..(e - 1)
          BY <2>0, <2>8, <2>10, <3>1
        <4>2. Cardinality(i..(e - 1)) = b
          <5>1. i \in Int /\ e - 1 \in Int /\ b \in Nat
            BY <2>4, <2>8
          <5>2. Cardinality(i..(e - 1)) = IF i > e - 1 THEN 0 ELSE (e - 1) - i + 1
            BY ONLY <5>1, FS_Interval
          <5> QED
            BY <2>8, <5>1, <5>2
        <4> QED
          BY <2>7, <3>1, <4>1, <4>2
      <3>2. CASE x \in 0..(j - 1)
        <4>1. {m \in 0..(e - 1) : y[m] = x} = {m \in 0..(i - 1) : w[m] = x}
          <5>1. \A m \in 0..(i - 1) : m \in 0..(e - 1) /\ m \notin i..(e - 1)
            BY <2>8
          <5>2. x < j /\ x # j
            BY <2>0, <3>2
          <5> QED
            BY <2>10, <5>1, <5>2
        <4> QED
          BY <2>6, <3>2, <4>1
      <3> QED
        BY <2>7, <3>1, <3>2
    <2>14. t.i = e
      BY <2>5 DEF e
    <2>15. Filled(t, j + 1, v, n)
      <3>1. (j + 1) - 1 = j
        BY <2>0
      <3>2. t.i \in 0..n /\ t.i = Cardinality({m \in Index(n) : v[m] < j + 1}) /\ t.v \in [Index(n) -> Nat]
        BY <2>8, <2>9, <2>14 DEF y
      <3>3. Ascends(t.v, 0, t.i - 1) /\ \A m \in 0..(t.i - 1) : t.v[m] < j + 1
        BY <2>11, <2>12, <2>14 DEF y
      <3>4. \A x \in 0..((j + 1) - 1) : Cardinality({m \in 0..(t.i - 1) : t.v[m] = x})
                                         = Cardinality({m \in Index(n) : v[m] = x})
        BY <2>13, <2>14, <3>1 DEF y
      <3> QED
        BY <3>2, <3>3, <3>4 DEF Filled
    <2> QED
      BY <2>0, <2>2, <2>t, <2>15
  <1> HIDE DEF Inv, Fill, first
  <1> DEFINE z == After(first, M + 1, Fill)
  <1>6. z \in Inv[M + 1]
    <2>1. M + 1 \in Nat /\ (M + 1) - 1 = M
      BY <1>2
    <2> QED
      BY <1>4, <1>5, <2>1, AfterKeeps
  <1>7. Filled(z, M + 1, v, n)
    BY <1>2, <1>6 DEF Inv
  <1> HIDE DEF z
  <1>8. z.i = n
    <2>1. {m \in Index(n) : v[m] < M + 1} = Index(n)
      BY <1>2
    <2> QED
      BY <1>3, <1>7, <2>1 DEF Filled
  <1>9. Same(v, z.v)
    <2> SUFFICES ASSUME NEW x \in Value
                 PROVE  Cardinality({m \in Index(n) : z.v[m] = x}) = Cardinality({m \in Index(n) : v[m] = x})
      BY <1>7, ArrayOfNats DEF Same, Filled
    <2>1. x \in Nat /\ 0..(n - 1) = Index(n) /\ (M + 1) - 1 = M
      BY <1>2, ValueAssumption DEF Index
    <2>2. CASE x <= M
      <3>1. x \in 0..M
        BY <1>2, <2>1, <2>2
      <3> QED
        BY <1>7, <1>8, <2>1, <3>1 DEF Filled
    <2>3. CASE ~(x <= M)
      <3>1. \A m \in Index(n) : z.v[m] \in Nat /\ z.v[m] < M + 1
        BY <1>7, <1>8, <2>1 DEF Filled
      <3>2. {m \in Index(n) : z.v[m] = x} = {} /\ {m \in Index(n) : v[m] = x} = {}
        BY <1>2, <2>1, <2>3, <3>1
      <3> QED
        BY <3>2
    <2> QED
      BY <2>2, <2>3
  <1> QED
    BY <1>1, <1>7, <1>8, <1>9 DEF SortOf, Filled, z

LEMMA ParentIs ==
    /\ \A i \in Nat : Parent(i) \in Nat /\ Parent(i) <= i /\ (i > 0 => Parent(i) < i)
    /\ \A c, i \in Nat : c > 0 => (Parent(c) = i <=> c = 2 * i + 1 \/ c = 2 * i + 2)
  BY DEF Parent

Heap(w, m) == \A c \in 1..(m - 1) : w[c] <= w[Parent(c)]

\* A heap but for i and its parent.
UpTo(w, m, i) ==
    /\ \A c \in 1..(m - 1) : c # i => w[c] <= w[Parent(c)]
    /\ \A c \in 1..(m - 1) : Parent(c) = i /\ i > 0 => w[c] <= w[Parent(i)]

\* A heap but for i and its children.
DownTo(w, m, i) ==
    /\ \A c \in 1..(m - 1) : Parent(c) # i => w[c] <= w[Parent(c)]
    /\ \A c \in 1..(m - 1) : Parent(c) = i /\ i > 0 => w[c] <= w[Parent(i)]

LEMMA SwapUp ==
    ASSUME NEW n \in Nat, NEW v \in Arrays(n), NEW m \in 0..n, NEW i \in 1..(m - 1),
           UpTo(v, m, i), v[i] > v[Parent(i)],
           NEW w, Swapped(w, v, i, Parent(i), n)
    PROVE  UpTo(w, m, Parent(i))
  <1> DEFINE p == Parent(i)
  <1>1. p \in Nat /\ p < i /\ i \in Nat /\ i \in Index(n) /\ p \in Index(n)
    BY ParentIs DEF Index
  <1>2. \A k \in Index(n) : v[k] \in Nat
    BY ArrayIs, ArrayOfNats
  <1>3. \A k \in Index(n) : w[k] = IF k = p THEN v[i] ELSE IF k = i THEN v[p] ELSE v[k]
    BY DEF Swapped
  <1>4. v[i] > v[p]
    OBVIOUS
  <1>5. /\ \A c \in 1..(m - 1) : c # i => v[c] <= v[Parent(c)]
        /\ \A c \in 1..(m - 1) : Parent(c) = i => v[c] <= v[p]
    BY <1>1 DEF UpTo
  <1>6. \A c \in 1..(m - 1) : /\ c \in Index(n) /\ c \in Nat /\ Parent(c) \in Index(n)
                              /\ Parent(c) \in Nat /\ Parent(c) < c
    BY ParentIs DEF Index
  <1>p. p = Parent(i)
    OBVIOUS
  <1> HIDE DEF p
  <1>7. ASSUME NEW c \in 1..(m - 1), c # p PROVE w[c] <= w[Parent(c)]
    <2>0. c \in Index(n) /\ c \in Nat /\ Parent(c) \in Index(n) /\ Parent(c) \in Nat /\ Parent(c) < c
      BY <1>6
    <2>1. CASE c = i
      BY <1>1, <1>2, <1>3, <1>4, <1>p, <2>0, <2>1
    <2>2. CASE c # i /\ Parent(c) = i
      BY <1>1, <1>2, <1>3, <1>5, <1>7, <2>0, <2>2
    <2>3. CASE c # i /\ Parent(c) = p
      BY <1>1, <1>2, <1>3, <1>4, <1>5, <1>7, <2>0, <2>3
    <2>4. CASE c # i /\ Parent(c) # i /\ Parent(c) # p
      BY <1>1, <1>3, <1>5, <1>7, <2>0, <2>4
    <2> QED
      BY <2>1, <2>2, <2>3, <2>4
  <1>8. ASSUME NEW c \in 1..(m - 1), Parent(c) = p, p > 0 PROVE w[c] <= w[Parent(p)]
    <2>0. /\ c \in Index(n) /\ p \in 1..(m - 1) /\ Parent(p) \in Index(n) /\ Parent(p) \in Nat
          /\ Parent(p) < p /\ c > p /\ c # p /\ Parent(p) # p /\ Parent(p) # i /\ p # i
      BY <1>1, <1>6, <1>8
    <2>1. w[Parent(p)] = v[Parent(p)] /\ v[p] <= v[Parent(p)]
      BY <1>1, <1>3, <1>5, <2>0
    <2>2. v[c] <= v[p] \/ c = i
      BY <1>5, <1>8
    <2>3. w[c] <= v[p] /\ w[c] \in Nat
      BY <1>1, <1>2, <1>3, <2>0, <2>2
    <2> QED
      BY <1>1, <1>2, <2>0, <2>1, <2>3
  <1> QED
    BY <1>7, <1>8, <1>p DEF UpTo

LEMMA SwapDown ==
    ASSUME NEW n \in Nat, NEW v \in Arrays(n), NEW m \in 0..n, NEW i \in Nat, NEW k \in 1..(m - 1),
           Parent(k) = i, DownTo(v, m, i), v[k] > v[i],
           \A c \in 1..(m - 1) : Parent(c) = i => v[c] <= v[k],
           NEW w, Swapped(w, v, k, i, n)
    PROVE  DownTo(w, m, k)
  <1>1. i < k /\ k \in Nat /\ i \in Index(n) /\ k \in Index(n)
    BY ParentIs DEF Index
  <1>2. \A j \in Index(n) : v[j] \in Nat
    BY ArrayIs, ArrayOfNats
  <1>3. \A j \in Index(n) : w[j] = IF j = i THEN v[k] ELSE IF j = k THEN v[i] ELSE v[j]
    BY DEF Swapped
  <1>5. /\ \A c \in 1..(m - 1) : Parent(c) # i => v[c] <= v[Parent(c)]
        /\ \A c \in 1..(m - 1) : Parent(c) = i /\ i > 0 => v[c] <= v[Parent(i)]
    BY DEF DownTo
  <1>6. \A c \in 1..(m - 1) : /\ c \in Index(n) /\ c \in Nat /\ Parent(c) \in Index(n)
                              /\ Parent(c) \in Nat /\ Parent(c) < c
    BY ParentIs DEF Index
  <1>7. ASSUME NEW c \in 1..(m - 1), Parent(c) # k PROVE w[c] <= w[Parent(c)]
    <2>0. c \in Index(n) /\ c \in Nat /\ Parent(c) \in Index(n) /\ Parent(c) \in Nat /\ Parent(c) < c
      BY <1>6
    <2>1. CASE c = k
      BY <1>1, <1>2, <1>3, <2>0, <2>1
    <2>2. CASE c # k /\ Parent(c) = i
      BY <1>1, <1>2, <1>3, <2>0, <2>2
    <2>3. CASE c = i
      BY <1>1, <1>2, <1>3, <1>5, <2>0, <2>3
    <2>4. CASE c # k /\ c # i /\ Parent(c) # i
      BY <1>1, <1>3, <1>5, <1>7, <2>0, <2>4
    <2> QED
      BY <2>1, <2>2, <2>3, <2>4
  <1>8. ASSUME NEW c \in 1..(m - 1), Parent(c) = k PROVE w[c] <= w[Parent(k)]
    <2>0. c \in Index(n) /\ c > k
      BY <1>6, <1>8
    <2>1. v[c] <= v[k]
      BY <1>1, <1>5, <1>8
    <2> QED
      BY <1>1, <1>2, <1>3, <2>0, <2>1
  <1> QED
    BY <1>7, <1>8 DEF DownTo

LEMMA RootIsLargest ==
    ASSUME NEW n \in Nat, NEW w \in Arrays(n), NEW m \in 1..n, Heap(w, m)
    PROVE  \A i \in 0..(m - 1) : w[i] <= w[0]
  <1> DEFINE T == {i \in 0..(m - 1) : ~(w[i] <= w[0])}
  <1> SUFFICES ASSUME T # {} PROVE FALSE
    OBVIOUS
  <1>1. \A i \in 0..(m - 1) : i \in Index(n) /\ i \in Nat /\ w[i] \in Nat
    BY ArrayIs, ArrayOfNats DEF Index
  <1>2. PICK i \in T : \A j \in T : i <= j
    <2>1. T \subseteq Nat
      BY <1>1
    <2> QED
      BY <2>1, Least
  <1>3. i # 0 /\ 0 \in 0..(m - 1)
    BY <1>1
  <1>4. i \in 1..(m - 1) /\ Parent(i) \in 0..(m - 1) /\ Parent(i) < i /\ ~(i <= Parent(i))
    BY <1>1, <1>3, ParentIs
  <1>5. w[Parent(i)] <= w[0] /\ w[i] <= w[Parent(i)]
    BY <1>2, <1>4 DEF Heap
  <1> QED
    BY <1>1, <1>3, <1>4, <1>5

LEMMA InsertMakesHeap ==
    ASSUME NEW n \in Nat, NEW v \in Arrays(n), NEW index \in Index(n), Heap(v, index)
    PROVE  LET w == heapInsert(v, index)
           IN  w \in Arrays(n) /\ Same(v, w) /\ Heap(w, index + 1)
  <1> DEFINE m == index + 1
             Both == [i : Index(n), v : Arrays(n)]
             Rise(s) == [i |-> Parent(s.i), v |-> swap(s.v, s.i, Parent(s.i))]
             Up == [s \in Both |-> IF s.v[s.i] > s.v[Parent(s.i)] THEN Rise(s) ELSE s]
             step == [k \in Index(index) |-> Up]
             first == [i |-> index, v |-> v]
             Left(s, k) == s.i <= index - k \/ s.v[s.i] <= s.v[Parent(s.i)]
             Inv == [k \in 0..index |-> {s \in Both : /\ s.i <= index /\ Same(v, s.v)
                                                      /\ UpTo(s.v, m, s.i) /\ Left(s, k)}]
  <1>1. heapInsert(v, index) = After(first, index, step).v
    <2>1. DOMAIN v = Index(n) /\ Like(v) = Arrays(n)
      BY ArrayIs, ArrayOfNats
    <2> QED
      BY <2>1 DEF heapInsert
  <1>2. index \in Nat /\ index < n /\ m \in 0..n /\ m \in Nat /\ m - 1 = index
    BY DEF Index
  <1>3. first \in Inv[0]
    <2>1. UpTo(v, m, index)
      <3>1. \A c \in 1..index : c # index => c \in 1..(index - 1)
        BY <1>2
      <3>2. \A c \in 1..index : Parent(c) # index
        BY <1>2, ParentIs
      <3> QED
        BY <1>2, <3>1, <3>2 DEF UpTo, Heap
    <2>2. first \in Both /\ first.i = index /\ first.v = v /\ 0 \in 0..index
      BY <1>2
    <2>3. Left(first, 0) /\ first.i <= index
      BY <1>2, <2>2
    <2> HIDE DEF first, Left
    <2> QED
      BY <2>1, <2>2, <2>3, Reflexive
  <1>4. ASSUME NEW k \in 0..(index - 1), NEW s \in Inv[k] PROVE step[k][s] \in Inv[k + 1]
    <2>0. k \in 0..index /\ k + 1 \in 0..index /\ k \in Index(index) /\ k \in Nat /\ k < index
      BY <1>2 DEF Index
    <2>1. /\ s \in Both /\ s.i \in Index(n) /\ s.i <= index /\ s.i \in Nat /\ s.v \in Arrays(n)
          /\ Same(v, s.v) /\ UpTo(s.v, m, s.i) /\ Left(s, k)
      BY <2>0 DEF Index
    <2> DEFINE t == step[k][s]
    <2>2. t = IF s.v[s.i] > s.v[Parent(s.i)] THEN Rise(s) ELSE s
      BY <2>0, <2>1, Zenon
    <2>3. Parent(s.i) \in Nat /\ Parent(s.i) <= s.i /\ (s.i > 0 => Parent(s.i) < s.i) /\ Parent(s.i) \in Index(n)
      <3>1. Parent(s.i) \in Nat /\ Parent(s.i) <= s.i /\ (s.i > 0 => Parent(s.i) < s.i)
        BY <2>1, ParentIs, Zenon
      <3>2. s.i < n
        BY <1>2, <2>1
      <3> QED
        BY <2>1, <3>1, <3>2 DEF Index
    <2>4. \A j \in Index(n) : s.v[j] \in Nat
      BY <2>1, ArrayIs, ArrayOfNats
    <2> HIDE DEF t
    <2> SUFFICES t \in Both /\ t.i <= index /\ Same(v, t.v) /\ UpTo(t.v, m, t.i) /\ Left(t, k + 1)
      BY <2>0 DEF t
    <2>5. CASE s.v[s.i] > s.v[Parent(s.i)]
      <3> DEFINE w == swap(s.v, s.i, Parent(s.i))
      <3>1. t = [i |-> Parent(s.i), v |-> w]
        BY <2>2, <2>5
      <3>2. Swapped(w, s.v, s.i, Parent(s.i), n)
        BY <2>1, <2>3, SwapIs, Zenon
      <3>3. s.i > 0 /\ s.i \in 1..(m - 1)
        <4>1. s.i = 0 => Parent(s.i) = s.i
          BY DEF Parent
        <4> QED
          BY <1>2, <2>1, <2>4, <2>5, <4>1
      <3> HIDE DEF w, m
      <3>4. UpTo(w, m, Parent(s.i))
        BY <1>2, <2>1, <2>5, <3>2, <3>3, SwapUp
      <3>5. w \in Arrays(n) /\ Same(v, w)
        <4>1. w \in Arrays(n) /\ Same(s.v, w)
          BY <3>2 DEF Swapped
        <4> QED
          BY <2>1, <4>1, Transitive, Zenon
      <3>6. t.i = Parent(s.i) /\ t.v = w /\ t \in Both
        BY <2>3, <3>1, <3>5
      <3>7. Parent(s.i) <= index - (k + 1) /\ Parent(s.i) <= index
        BY <1>2, <2>0, <2>1, <2>3, <2>4, <2>5, <3>3
      <3> QED
        BY <3>4, <3>5, <3>6, <3>7
    <2>6. CASE ~(s.v[s.i] > s.v[Parent(s.i)])
      <3>1. t = s
        BY <2>2, <2>6
      <3>2. s.v[s.i] <= s.v[Parent(s.i)]
        BY <2>1, <2>3, <2>4, <2>6
      <3> QED
        BY <2>1, <3>1, <3>2
    <2> QED
      BY <2>5, <2>6
  <1> DEFINE z == After(first, index, step)
  <1>5. z \in Inv[index]
    <2> HIDE DEF Inv, step, first
    <2> QED
      BY <1>2, <1>3, <1>4, AfterKeeps
  <1> HIDE DEF z
  <1>6. /\ z.i \in Nat /\ z.i <= index /\ z.v \in Arrays(n) /\ Same(v, z.v)
        /\ UpTo(z.v, m, z.i) /\ Left(z, index)
    BY <1>2, <1>5 DEF Index
  <1>7. Heap(z.v, m)
    <2>1. z.i # 0 => z.v[z.i] <= z.v[Parent(z.i)]
      BY <1>2, <1>6
    <2> HIDE DEF m
    <2> QED
      BY <1>6, <2>1 DEF Heap, UpTo
  <1> QED
    BY <1>1, <1>6, <1>7 DEF z

LEMMA SiftMakesHeap ==
    ASSUME NEW n \in Nat, n >= 1, NEW v \in Arrays(n), NEW m \in 0..n,
           DownTo(v, m, 0), HighDone(v, n - m, n)
    PROVE  LET w == heapify(v, m)
           IN  w \in Arrays(n) /\ Same(v, w) /\ Heap(w, m) /\ HighDone(w, n - m, n)
  <1> DEFINE Both == [i : Index(n), v : Arrays(n)]
             Largest(w, left) == IF left + 1 < m /\ w[left + 1] > w[left] THEN left + 1 ELSE left
             Child(s) == Largest(s.v, 2 * s.i + 1)
             Sink(s) == [i |-> Child(s), v |-> swap(s.v, Child(s), s.i)]
             DownFrom == [s \in Both |-> IF 2 * s.i + 1 >= m \/ s.v[Child(s)] <= s.v[s.i] THEN s ELSE Sink(s)]
             step == [k \in Index(m) |-> DownFrom]
             first == [i |-> 0, v |-> v]
             Above(w, i) == \A c \in 1..(m - 1) : Parent(c) = i => w[c] <= w[i]
             Inv == [k \in 0..m |-> {s \in Both : /\ Same(v, s.v) /\ HighDone(s.v, n - m, n)
                                                  /\ DownTo(s.v, m, s.i)
                                                  /\ (s.i >= k \/ Above(s.v, s.i))}]
  <1>1. heapify(v, m) = After(first, m, step).v
    <2>1. DOMAIN v = Index(n) /\ Like(v) = Arrays(n)
      BY ArrayIs, ArrayOfNats
    <2> QED
      BY <2>1 DEF heapify
  <1>2. m \in Nat /\ m <= n
    OBVIOUS
  <1>3. first \in Inv[0]
    <2>1. first \in Both /\ first.i = 0 /\ first.v = v /\ 0 \in 0..m
      BY <1>2 DEF Index
    <2> HIDE DEF first
    <2> QED
      BY <2>1, Reflexive
  <1>4. ASSUME NEW k \in 0..(m - 1), NEW s \in Inv[k] PROVE step[k][s] \in Inv[k + 1]
    <2>0. k \in 0..m /\ k + 1 \in 0..m /\ k \in Index(m) /\ k \in Nat
      BY <1>2 DEF Index
    <2>1. /\ s \in Both /\ s.i \in Index(n) /\ s.i \in Nat /\ s.v \in Arrays(n)
          /\ Same(v, s.v) /\ HighDone(s.v, n - m, n) /\ DownTo(s.v, m, s.i)
          /\ (s.i >= k \/ Above(s.v, s.i))
      BY <2>0 DEF Index
    <2> DEFINE i == s.i  u == s.v  left == 2 * i + 1  child == Child(s)  t == step[k][s]
    <2>2. t = IF left >= m \/ u[child] <= u[i] THEN s ELSE [i |-> child, v |-> swap(u, child, i)]
      BY <2>0, <2>1, Zenon
    <2>3. child = IF left + 1 < m /\ u[left + 1] > u[left] THEN left + 1 ELSE left
      OBVIOUS
    <2>4. \A j \in Index(n) : u[j] \in Nat
      BY <2>1, ArrayIs, ArrayOfNats
    <2>5. \A c \in 1..(m - 1) : c \in Index(n) /\ (Parent(c) = i <=> c = left \/ c = left + 1)
      <3>1. i \in Nat /\ \A c \in 1..(m - 1) : c \in Nat /\ c > 0 /\ c \in Index(n)
        BY <1>2, <2>1 DEF Index
      <3>2. (2 * i + 1) + 1 = 2 * i + 2
        BY <3>1
      <3> QED
        BY <3>1, <3>2, ParentIs
    <2>6. i \in Nat /\ i \in Index(n) /\ left \in Nat /\ left > i /\ left >= 1
      BY <2>1
    <2> HIDE DEF t, child, left, u
    <2> SUFFICES /\ t \in Both /\ Same(v, t.v) /\ HighDone(t.v, n - m, n) /\ DownTo(t.v, m, t.i)
                 /\ (t.i >= k + 1 \/ Above(t.v, t.i))
      BY <2>0 DEF t
    <2>7. CASE left >= m \/ u[child] <= u[i]
      <3>1. t = s
        BY <2>2, <2>7
      <3>2. Above(u, i)
        <4> SUFFICES ASSUME NEW c \in 1..(m - 1), Parent(c) = i PROVE u[c] <= u[i]
          OBVIOUS
        <4> HIDE DEF i
        <4>1. c \in Index(n) /\ c \in Nat /\ c < m /\ (c = left \/ c = left + 1)
          BY <1>2, <2>5
        <4>2. left < m /\ u[child] <= u[i] /\ left \in 1..(m - 1)
          BY <1>2, <2>6, <2>7, <4>1
        <4>3. left \in Index(n) /\ (left + 1 < m => left + 1 \in Index(n))
          BY <1>2, <2>5, <2>6, <4>2 DEF Index
        <4>4. u[c] <= u[child] /\ u[child] \in Nat
          BY <2>3, <2>4, <4>1, <4>3
        <4> QED
          BY <2>4, <2>6, <4>1, <4>2, <4>4
      <3> QED
        BY <2>1, <3>1, <3>2 DEF u
    <2>8. CASE ~(left >= m \/ u[child] <= u[i])
      <3>1. t = [i |-> child, v |-> swap(u, child, i)]
        BY <2>2, <2>8
      <3> DEFINE w == swap(u, child, i)
      <3> HIDE DEF i
      <3>2. child \in 1..(m - 1) /\ child \in Nat /\ child \in Index(n) /\ child > i /\ Parent(child) = i
        <4>1. left < m /\ left \in 1..(m - 1)
          BY <1>2, <2>6, <2>8
        <4>2. child = left \/ (child = left + 1 /\ left + 1 < m)
          BY <2>3
        <4>3. child \in 1..(m - 1) /\ child > i
          BY <1>2, <2>6, <4>1, <4>2
        <4> QED
          BY <2>5, <4>2, <4>3
      <3>3. u[child] > u[i]
        BY <2>4, <2>6, <2>8, <3>2
      <3>4. Swapped(w, u, child, i, n)
        BY <2>1, <2>6, <3>2, SwapIs, Zenon DEF u
      <3> HIDE DEF w
      <3>5. \A c \in 1..(m - 1) : Parent(c) = i => u[c] <= u[child]
        <4> TAKE c \in 1..(m - 1)
        <4> HAVE Parent(c) = i
        <4>1. c \in Index(n) /\ c \in Nat /\ c < m /\ (c = left \/ c = left + 1)
          BY <1>2, <2>5
        <4>2. left < m /\ left \in 1..(m - 1)
          BY <1>2, <2>6, <2>8
        <4>3. left \in Index(n) /\ (left + 1 < m => left + 1 \in Index(n))
          BY <1>2, <2>5, <2>6, <4>2 DEF Index
        <4> QED
          BY <2>3, <2>4, <4>1, <4>3
      <3>6. DownTo(w, m, child)
        <4>1. u \in Arrays(n) /\ DownTo(u, m, i)
          BY <2>1 DEF u, i
        <4> QED
          BY <2>6, <3>2, <3>3, <3>4, <3>5, <4>1, SwapDown
      <3>7. w \in Arrays(n) /\ Same(v, w)
        <4>1. w \in Arrays(n) /\ Same(u, w)
          BY <3>4 DEF Swapped
        <4> QED
          BY <2>1, <4>1, Transitive, Zenon DEF u
      <3>8. HighDone(w, n - m, n)
        <4>1. \A j \in Index(n) : w[j] = IF j = i THEN u[child] ELSE IF j = child THEN u[i] ELSE u[j]
          BY <3>4 DEF Swapped
        <4>2. \A p \in Index(n), q \in m..(n - 1) : p <= q => u[p] <= u[q]
          <5>1. n - (n - m) = m
            BY <1>2
          <5>2. HighDone(u, n - m, n)
            BY <2>1 DEF u
          <5> QED
            BY <5>1, <5>2 DEF HighDone
        <4>3. ASSUME NEW p \in Index(n), NEW q \in m..(n - 1), p <= q PROVE w[p] <= w[q]
          <5>1. q # i /\ q # child /\ i <= q /\ child <= q /\ q \in Index(n)
            BY <1>2, <2>6, <3>2 DEF Index
          <5> QED
            BY <2>6, <3>2, <4>1, <4>2, <4>3, <5>1
        <4>4. n - (n - m) = m
          BY <1>2
        <4> QED
          BY <4>3, <4>4 DEF HighDone
      <3>9. t.i = child /\ t.v = w /\ t \in Both
        BY <3>1, <3>2, <3>7 DEF w
      <3>10. i >= k
        <4>1. left \in 1..(m - 1)
          BY <1>2, <2>6, <2>8
        <4>2. ~Above(u, i)
          BY <2>4, <2>6, <3>2, <3>3
        <4> QED
          BY <2>1, <4>2 DEF i, u
      <3>11. t.i >= k + 1
        BY <2>0, <2>6, <3>2, <3>9, <3>10
      <3> QED
        BY <3>6, <3>7, <3>8, <3>9, <3>11
    <2> QED
      BY <2>7, <2>8
  <1> DEFINE z == After(first, m, step)
  <1>5. z \in Inv[m]
    <2> HIDE DEF Inv, step, first
    <2> QED
      BY <1>2, <1>3, <1>4, AfterKeeps
  <1> HIDE DEF z
  <1>6. /\ z.i \in Nat /\ z.v \in Arrays(n) /\ Same(v, z.v) /\ HighDone(z.v, n - m, n)
        /\ DownTo(z.v, m, z.i) /\ (z.i >= m \/ Above(z.v, z.i))
    BY <1>2, <1>5 DEF Index
  <1>7. Heap(z.v, m)
    <2> SUFFICES ASSUME NEW c \in 1..(m - 1) PROVE z.v[c] <= z.v[Parent(c)]
      BY DEF Heap
    <2>1. c \in Nat /\ c < m /\ Parent(c) \in Nat /\ Parent(c) < c
      BY <1>2, ParentIs
    <2> QED
      BY <1>2, <1>6, <2>1 DEF DownTo
  <1> QED
    BY <1>1, <1>6, <1>7 DEF z

LEMMA HeapSorts ==
    ASSUME NEW n \in Nat, n >= 2, NEW v \in Arrays(n)
    PROVE  SortOf(heapSort(v), v, n)
  <1> DEFINE Push == [i \in Index(n) |-> [w \in Arrays(n) |-> heapInsert(w, i)]]
             Free(r) == n - 1 - r
             Pop == [r \in Index(n) |-> [w \in Arrays(n) |-> heapify(swap(w, 0, Free(r)), Free(r))]]
             Inv == [i \in 0..n |-> {w \in Arrays(n) : Same(v, w) /\ Heap(w, i)}]
             Out == [r \in 0..n |-> {w \in Arrays(n) : /\ Same(v, w) /\ Heap(w, n - r)
                                                       /\ HighDone(w, r, n)}]
             h == After(v, n, Push)
             z == After(h, n, Pop)
  <1>1. heapSort(v) = z
    <2>1. DOMAIN v = Index(n) /\ Like(v) = Arrays(n) /\ length(v) = n
      BY ArrayIs, ArrayOfNats
    <2> QED
      BY <2>1, Zenon DEF heapSort
  <1>2. h \in Inv[n]
    <2>1. v \in Inv[0]
      <3>1. Heap(v, 0)
        BY DEF Heap
      <3> QED
        BY <3>1, Reflexive
    <2>2. ASSUME NEW i \in 0..(n - 1), NEW w \in Inv[i] PROVE Push[i][w] \in Inv[i + 1]
      <3>0. i \in Index(n) /\ i \in 0..n /\ i + 1 \in 0..n
        BY DEF Index
      <3>1. w \in Arrays(n) /\ Same(v, w) /\ Heap(w, i)
        BY <3>0
      <3>2. Push[i][w] = heapInsert(w, i)
        BY <3>0, <3>1, Zenon
      <3>3. heapInsert(w, i) \in Arrays(n) /\ Same(w, heapInsert(w, i)) /\ Heap(heapInsert(w, i), i + 1)
        BY <3>0, <3>1, InsertMakesHeap
      <3>4. Same(v, heapInsert(w, i))
        BY <3>1, <3>3, Transitive, Zenon
      <3> QED
        BY <3>0, <3>2, <3>3, <3>4
    <2> HIDE DEF Inv, Push
    <2> QED
      BY <2>1, <2>2, AfterKeeps
  <1>3. h \in Arrays(n) /\ Same(v, h) /\ Heap(h, n)
    BY <1>2
  <1> HIDE DEF h, Push, Inv
  <1>4. h \in Out[0]
    <2>1. HighDone(h, 0, n) /\ n - 0 = n /\ 0 \in 0..n
      BY DEF HighDone, Index
    <2> QED
      BY <1>3, <2>1
  <1>5. ASSUME NEW r \in 0..(n - 1), NEW w \in Out[r] PROVE Pop[r][w] \in Out[r + 1]
    <2> DEFINE m == Free(r)  u == swap(w, 0, m)  y == heapify(u, m)
    <2>0. /\ r \in Index(n) /\ r \in 0..n /\ r + 1 \in 0..n /\ n - (r + 1) = m /\ n - m = r + 1
          /\ m \in Nat /\ m \in 0..n /\ n - r = m + 1 /\ m < n /\ m \in Index(n) /\ 0 \in Index(n)
          /\ r \in Nat
      BY DEF Index
    <2>1. w \in Arrays(n) /\ Same(v, w) /\ Heap(w, n - r) /\ HighDone(w, r, n)
      BY <2>0
    <2>2. Pop[r][w] = y
      BY <2>0, <2>1, Zenon
    <2> HIDE DEF m
    <2>3. Swapped(u, w, 0, m, n)
      BY <2>0, <2>1, SwapIs, Zenon
    <2> HIDE DEF u
    <2>4. /\ u \in Arrays(n) /\ Same(w, u)
          /\ \A j \in Index(n) : u[j] = IF j = m THEN w[0] ELSE IF j = 0 THEN w[m] ELSE w[j]
      BY <2>3 DEF Swapped
    <2>5. \A c \in 1..(m - 1) : /\ c \in Index(n) /\ c # m /\ c # 0 /\ c \in 1..((n - r) - 1) /\ c \in Nat
                                /\ Parent(c) \in Nat /\ Parent(c) < c /\ Parent(c) \in Index(n)
      BY <2>0, ParentIs DEF Index
    <2>6. DownTo(u, m, 0)
      BY <2>0, <2>1, <2>4, <2>5 DEF Heap, DownTo
    <2>7. \A j \in Index(n) : w[j] \in Nat
      BY <2>1, ArrayIs, ArrayOfNats
    <2>8. \A i \in 0..m : w[i] <= w[0]
      <3>1. n - r \in 1..n /\ (n - r) - 1 = m
        BY <2>0
      <3> QED
        BY <2>1, <3>1, RootIsLargest
    <2>9. HighDone(u, n - m, n)
      <3>1. \A p \in Index(n), q \in (m + 1)..(n - 1) : p <= q => w[p] <= w[q]
        BY <2>0, <2>1 DEF HighDone
      <3>2. ASSUME NEW p \in Index(n), NEW q \in m..(n - 1), p <= q PROVE u[p] <= u[q]
        <4>1. p \in Nat /\ q \in Nat /\ q \in Index(n)
          BY <2>0 DEF Index
        <4>2. CASE q = m
          <5>1. p \in 0..m /\ m \in 0..m /\ 0 \in 0..m
            BY <2>0, <3>2, <4>1, <4>2
          <5>2. u[q] = w[0] /\ u[p] \in {w[0], w[m], w[p]}
            BY <2>4, <4>1, <4>2
          <5> QED
            BY <2>8, <5>1, <5>2
        <4>3. CASE q # m
          <5>1. q \in (m + 1)..(n - 1) /\ q # 0 /\ 0 <= q /\ m <= q
            BY <2>0, <4>1, <4>3
          <5>2. u[q] = w[q] /\ u[p] \in {w[0], w[m], w[p]}
            BY <2>4, <4>1, <4>3, <5>1
          <5> QED
            BY <2>0, <3>1, <3>2, <5>1, <5>2
        <4> QED
          BY <4>2, <4>3
      <3>3. n - (n - m) = m
        BY <2>0
      <3> QED
        BY <3>2, <3>3 DEF HighDone
    <2>10. y \in Arrays(n) /\ Same(u, y) /\ Heap(y, m) /\ HighDone(y, n - m, n)
      <3>1. n >= 1
        OBVIOUS
      <3> QED
        BY <2>0, <2>4, <2>6, <2>9, <3>1, SiftMakesHeap
    <2> HIDE DEF y
    <2>11. Same(v, y)
      <3>1. Same(v, u)
        BY <2>1, <2>4, Transitive, Zenon
      <3> QED
        BY <2>10, <3>1, Transitive, Zenon
    <2> QED
      BY <2>0, <2>2, <2>10, <2>11
  <1>6. z \in Out[n]
    <2> HIDE DEF Out, Pop
    <2> QED
      BY <1>4, <1>5, AfterKeeps
  <1>7. z \in Arrays(n) /\ Same(v, z) /\ HighDone(z, n, n)
    BY <1>6
  <1> HIDE DEF z
  <1>8. Ascends(z, 0, n - 1)
    BY <1>7 DEF HighDone, Index, Ascends
  <1> QED
    BY <1>1, <1>7, <1>8, ArrayOfNats DEF SortOf

\* tmp holds the elements of v at the places of D, each once.
Got(tmp, k, D, v) ==
    \E src \in [1..k -> D], dst \in [D -> 1..k] :
        /\ \A q \in 1..k : dst[src[q]] = q /\ tmp[q] = v[src[q]]
        /\ \A a \in D : src[dst[a]] = a

LEMMA AppendIs ==
    ASSUME NEW tmp \in Seq(Value), NEW x \in Value, NEW k \in Nat, Len(tmp) = k
    PROVE  /\ Append(tmp, x) \in Seq(Value) /\ Len(Append(tmp, x)) = k + 1
           /\ \A q \in 1..(k + 1) : Append(tmp, x)[q] = IF q = k + 1 THEN x ELSE tmp[q]
  BY AppendProperties, LenProperties

LEMMA GotOneMore ==
    ASSUME NEW v, NEW tmp \in Seq(Value), NEW D, NEW n \in Nat, Len(tmp) = n, Got(tmp, n, D, v), NEW a, a \notin D, v[a] \in Value
    PROVE  Got(Append(tmp, v[a]), n + 1, D \cup {a}, v)
  <1> DEFINE new == Append(tmp, v[a])  E == D \cup {a}
  <1>1. PICK src \in [1..n -> D], dst \in [D -> 1..n] :
            /\ \A q \in 1..n : dst[src[q]] = q /\ tmp[q] = v[src[q]]
            /\ \A b \in D : src[dst[b]] = b
    BY DEF Got
  <1>2. n \in Nat /\ Len(new) = n + 1 /\ \A q \in 1..(n + 1) : new[q] = IF q = n + 1 THEN v[a] ELSE tmp[q]
    BY AppendIs
  <1> HIDE DEF new
  <1>3. \A q \in 1..(n + 1) : q = n + 1 \/ (q \in 1..n /\ q # n + 1)
    BY <1>2
  <1>4. 1..n \subseteq 1..(n + 1) /\ n + 1 \in 1..(n + 1) /\ n + 1 \notin 1..n
    BY <1>2
  <1> DEFINE src2 == [q \in 1..(n + 1) |-> IF q = n + 1 THEN a ELSE src[q]]
             dst2 == [b \in E |-> IF b = a THEN n + 1 ELSE dst[b]]
  <1>5. src2 \in [1..(n + 1) -> E] /\ dst2 \in [E -> 1..(n + 1)]
    BY <1>1, <1>3, <1>4
  <1>6. ASSUME NEW q \in 1..(n + 1) PROVE dst2[src2[q]] = q /\ new[q] = v[src2[q]]
    <2>1. CASE q = n + 1
      BY <1>2, <2>1
    <2>2. CASE q \in 1..n /\ q # n + 1
      <3>1. src2[q] = src[q] /\ src[q] \in D /\ src[q] # a
        BY <1>1, <2>2
      <3>2. dst2[src[q]] = dst[src[q]]
        BY <3>1
      <3>3. dst[src[q]] = q /\ tmp[q] = v[src[q]] /\ new[q] = tmp[q]
        BY <1>1, <1>2, <2>2
      <3> HIDE DEF src2, dst2
      <3> QED
        BY <3>1, <3>2, <3>3
    <2> QED
      BY <1>3, <2>1, <2>2
  <1>7. ASSUME NEW b \in E PROVE src2[dst2[b]] = b
    <2>1. CASE b = a
      BY <1>4, <2>1
    <2>2. CASE b \in D /\ b # a
      <3>1. dst2[b] = dst[b] /\ dst[b] \in 1..n /\ src[dst[b]] = b
        BY <1>1, <2>2
      <3>2. src2[dst[b]] = src[dst[b]]
        BY <1>4, <3>1
      <3> HIDE DEF src2, dst2
      <3> QED
        BY <3>1, <3>2
    <2> QED
      BY <2>1, <2>2
  <1> HIDE DEF src2, dst2, E
  <1>8. Got(new, n + 1, E, v)
    <2> SUFFICES \E f \in [1..(n + 1) -> E], g \in [E -> 1..(n + 1)] :
                    /\ \A q \in 1..(n + 1) : g[f[q]] = q /\ new[q] = v[f[q]]
                    /\ \A b \in E : f[g[b]] = b
      BY Zenon DEF Got
    <2>1. \A q \in 1..(n + 1) : dst2[src2[q]] = q /\ new[q] = v[src2[q]]
      BY <1>6
    <2>2. \A b \in E : src2[dst2[b]] = b
      BY <1>7
    <2> QED
      BY <1>5, <2>1, <2>2
  <1> QED
    BY <1>8 DEF new, E

LEMMA OneMore ==
    ASSUME NEW a \in Int, NEW b \in Int, a <= b
    PROVE  a..b = (a..(b - 1)) \cup {b}
  OBVIOUS

\* What sorting left..right of v does to the whole of v.
Part(w, v, left, right, n) ==
    /\ w \in Arrays(n) /\ Same(v, w) /\ Ascends(w, left, right)
    /\ \A m \in Index(n) : m \notin left..right => w[m] = v[m]

LEMMA MergeSorts ==
    ASSUME NEW n \in Nat, NEW v \in Arrays(n),
           NEW left \in Index(n), NEW mid \in Index(n), NEW right \in Index(n),
           left <= mid, mid < right, Ascends(v, left, mid), Ascends(v, mid + 1, right)
    PROVE  Part(merge(left, mid, right, v), v, left, right, n)
  <1> DEFINE Both == [i : Nat, j : Nat, tmp : Seq(Value)]
             Left(s) == [i |-> s.i + 1, j |-> s.j, tmp |-> Append(s.tmp, v[s.i])]
             RightPart(s) == [i |-> s.i, j |-> s.j + 1, tmp |-> Append(s.tmp, v[s.j])]
             Take == [s \in Both |-> IF s.i <= mid /\ (s.j <= right => v[s.i] < v[s.j])
                                     THEN Left(s) ELSE RightPart(s)]
             K == right - left
             step == [k \in 0..K |-> Take]
             first == [i |-> left, j |-> mid + 1, tmp |-> <<>>]
             Gone(i, j) == (left..(i - 1)) \cup ((mid + 1)..(j - 1))
             Rest(i, j) == (i..mid) \cup (j..right)
             Inv == [k \in 0..(K + 1) |-> {s \in Both :
                        /\ s.i \in left..(mid + 1) /\ s.j \in (mid + 1)..(right + 1)
                        /\ Len(s.tmp) = k /\ k = (s.i - left) + (s.j - (mid + 1))
                        /\ Got(s.tmp, k, Gone(s.i, s.j), v)
                        /\ \A p, q \in 1..k : p <= q => s.tmp[p] <= s.tmp[q]
                        /\ \A p \in 1..k, q \in Rest(s.i, s.j) : s.tmp[p] <= v[q]}]
             z == After(first, K + 1, step)
             w == merge(left, mid, right, v)
  <1>1. w = [m \in Index(n) |-> IF m \in left..right THEN z.tmp[m - left + 1] ELSE v[m]]
    <2>1. DOMAIN v = Index(n)
      BY ArrayIs, ArrayOfNats
    <2> QED
      BY <2>1, Zenon DEF merge
  <1>2. /\ left \in Nat /\ mid \in Nat /\ right \in Nat /\ K \in Nat /\ K = right - left /\ right < n
        /\ \A a \in left..right : a \in Index(n) /\ v[a] \in Value /\ v[a] \in Nat
    <2>1. \A a \in left..right : a \in Index(n)
      BY DEF Index
    <2>2. \A a \in Index(n) : v[a] \in Value /\ v[a] \in Nat
      BY ArrayOfNats DEF Arrays
    <2> QED
      BY <2>1, <2>2 DEF Index
  <1> HIDE DEF w, K, z
  <1>3. first \in Inv[0]
    <2>1. Gone(left, mid + 1) = {}
      BY <1>2
    <2>2. first \in Both /\ first.i = left /\ first.j = mid + 1 /\ first.tmp = <<>> /\ Len(<<>>) = 0
      BY <1>2
    <2>3. Got(<<>>, 0, {}, v)
      <3> DEFINE none == [q \in {} |-> 0]
      <3>1. none \in [1..0 -> {}] /\ none \in [{} -> 1..0]
        BY <2>2
      <3> QED
        BY <3>1 DEF Got
    <2>4. 0 \in 0..(K + 1) /\ 0 = (left - left) + ((mid + 1) - (mid + 1)) /\ 1..0 = {}
          /\ left \in left..(mid + 1) /\ mid + 1 \in (mid + 1)..(right + 1)
      BY <1>2
    <2> HIDE DEF first, Gone
    <2> QED
      BY <2>1, <2>2, <2>3, <2>4
  <1>4. ASSUME NEW k \in 0..K, NEW s \in Inv[k] PROVE step[k][s] \in Inv[k + 1]
    <2> DEFINE i == s.i  j == s.j  u == s.tmp  t == step[k][s]
    <2>0. k \in 0..(K + 1) /\ k + 1 \in 0..(K + 1) /\ k \in Nat
      BY <1>2
    <2>1. /\ s \in Both /\ i \in left..(mid + 1) /\ j \in (mid + 1)..(right + 1)
          /\ u \in Seq(Value) /\ Len(u) = k /\ k = (i - left) + (j - (mid + 1))
          /\ Got(u, k, Gone(i, j), v)
          /\ \A p, q \in 1..k : p <= q => u[p] <= u[q]
          /\ \A p \in 1..k, q \in Rest(i, j) : u[p] <= v[q]
      BY <2>0
    <2>2. t = IF i <= mid /\ (j <= right => v[i] < v[j])
              THEN [i |-> i + 1, j |-> j, tmp |-> Append(u, v[i])]
              ELSE [i |-> i, j |-> j + 1, tmp |-> Append(u, v[j])]
      BY <2>1, Zenon
    <2> HIDE DEF t, i, j, u
    <2>3. i \in Nat /\ j \in Nat /\ k <= K
      BY <1>2, <2>1
    <2>3a. /\ left \in Nat /\ mid \in Nat /\ right \in Nat /\ left <= i /\ i <= mid + 1 /\ mid + 1 <= j
           /\ j <= right + 1 /\ k = (i - left) + (j - (mid + 1)) /\ i \in Int /\ j \in Int /\ k \in Int
      BY <1>2, <2>0, <2>1, <2>3
    \* The element taken is not larger than those that are left.
    <2> DEFINE Takes(a, i2, j2) ==
                 /\ a \in left..right /\ a \notin Gone(i, j) /\ a \in Rest(i, j)
                 /\ t = [i |-> i2, j |-> j2, tmp |-> Append(u, v[a])]
                 /\ Gone(i2, j2) = Gone(i, j) \cup {a} /\ Rest(i2, j2) \subseteq Rest(i, j)
                 /\ \A q \in Rest(i2, j2) : v[a] <= v[q]
                 /\ i2 \in left..(mid + 1) /\ j2 \in (mid + 1)..(right + 1)
                 /\ k + 1 = (i2 - left) + (j2 - (mid + 1))
    <2>4. ASSUME NEW a, NEW i2, NEW j2, Takes(a, i2, j2)
          PROVE  t \in Inv[k + 1]
      <3> DEFINE new == Append(u, v[a])
      <3>0. v[a] \in Value /\ v[a] \in Nat
        BY <1>2, <2>4
      <3>1. /\ new \in Seq(Value) /\ Len(new) = k + 1
            /\ \A q \in 1..(k + 1) : new[q] = IF q = k + 1 THEN v[a] ELSE u[q]
        BY <2>1, <3>0, AppendIs
      <3>2. \A q \in 1..(k + 1) : q = k + 1 \/ (q \in 1..k /\ q # k + 1)
        <4>1. k \in Nat
          BY <2>0
        <4> QED
          BY ONLY <4>1
      <3>3. Got(new, k + 1, Gone(i2, j2), v)
        <4> HIDE DEF Gone
        <4>1. Got(new, k + 1, Gone(i, j) \cup {a}, v)
          BY <2>0, <2>1, <2>4, <3>0, GotOneMore, Zenon
        <4> QED
          BY <2>4, <4>1
      <3> HIDE DEF Rest, Gone, new
      <3>4. \A p, q \in 1..(k + 1) : p <= q => new[p] <= new[q]
        <4> TAKE p, q \in 1..(k + 1)
        <4> HAVE p <= q
        <4>1. CASE q = k + 1 /\ p = k + 1
          BY <3>0, <3>1, <4>1
        <4>2. CASE q = k + 1 /\ p \in 1..k /\ p # k + 1
          BY <2>1, <2>4, <3>1, <4>2
        <4>3. CASE q \in 1..k /\ q # k + 1
          <5>1. p \in 1..k /\ p # k + 1
            BY <2>0, <4>3
          <5> QED
            BY <2>1, <3>1, <4>3, <5>1
        <4> QED
          BY <3>2, <4>1, <4>2, <4>3
      <3>5. \A p \in 1..(k + 1), q \in Rest(i2, j2) : new[p] <= v[q]
        BY <2>1, <2>4, <3>1, <3>2
      <3>6. t.i = i2 /\ t.j = j2 /\ t.tmp = new /\ t \in Both
        <4>1. i2 \in Nat /\ j2 \in Nat
          BY <1>2, <2>4
        <4> QED
          BY <2>4, <3>1, <4>1 DEF new
      <3> QED
        BY <2>0, <2>4, <3>1, <3>3, <3>4, <3>5, <3>6
    <2> HIDE DEF Takes
    <2>5. CASE i <= mid /\ (j <= right => v[i] < v[j])
      <3>1. t = [i |-> i + 1, j |-> j, tmp |-> Append(u, v[i])]
        BY <2>2, <2>5
      <3>2. i \in left..right /\ i \notin Gone(i, j) /\ i \in Rest(i, j) /\ i + 1 \in left..(mid + 1)
        BY <1>2, <2>3a, <2>5
      <3>3. Gone(i + 1, j) = Gone(i, j) \cup {i} /\ Rest(i + 1, j) \subseteq Rest(i, j)
        <4>1. left..((i + 1) - 1) = (left..(i - 1)) \cup {i}
          <5>1. (i + 1) - 1 = i /\ left <= i /\ left \in Int /\ i \in Int
            BY ONLY <2>3a
          <5> QED
            BY <2>3a, <5>1, OneMore, Zenon
        <4>2. (i + 1)..mid \subseteq i..mid
          BY <1>2, <2>3
        <4> QED
          BY <4>1, <4>2
      <3>4. \A q \in Rest(i + 1, j) : v[i] <= v[q]
        <4> TAKE q \in Rest(i + 1, j)
        <4>1. CASE q \in (i + 1)..mid
          <5>1. i \in left..mid /\ q \in left..mid /\ i <= q
            BY <1>2, <2>3a, <4>1
          <5> QED
            BY <5>1 DEF Ascends
        <4>2. CASE q \in j..right
          <5>1. /\ j <= right /\ j \in (mid + 1)..right /\ q \in (mid + 1)..right /\ j <= q
                /\ j \in left..right /\ q \in left..right
            BY <1>2, <2>3a, <4>2
          <5>2. v[j] <= v[q] /\ v[i] < v[j]
            BY <2>5, <5>1 DEF Ascends
          <5>3. v[i] \in Nat /\ v[j] \in Nat /\ v[q] \in Nat
            BY <1>2, <3>2, <5>1
          <5> QED
            BY <5>2, <5>3
        <4> QED
          BY <4>1, <4>2
      <3>5. k + 1 = ((i + 1) - left) + (j - (mid + 1))
        BY ONLY <2>3a
      <3> HIDE DEF Gone, Rest, Inv
      <3>6. Takes(i, i + 1, j)
        BY <2>1, <3>1, <3>2, <3>3, <3>4, <3>5 DEF Takes
      <3> QED
        BY <2>4, <3>6 DEF t
    <2>6. CASE ~(i <= mid /\ (j <= right => v[i] < v[j]))
      <3>1. t = [i |-> i, j |-> j + 1, tmp |-> Append(u, v[j])]
        BY <2>2, <2>6
      <3>0. j <= right
        <4>1. i <= mid \/ i = mid + 1
          BY <1>2, <2>3a
        <4>2. CASE i = mid + 1
          BY <1>2, <2>3a, <4>2
        <4> QED
          BY <2>6, <4>1, <4>2
      <3>2. j \in left..right /\ j \notin Gone(i, j) /\ j \in Rest(i, j) /\ j + 1 \in (mid + 1)..(right + 1)
        BY <1>2, <2>3a, <3>0
      <3>3. Gone(i, j + 1) = Gone(i, j) \cup {j} /\ Rest(i, j + 1) \subseteq Rest(i, j)
        <4>1. (mid + 1)..((j + 1) - 1) = ((mid + 1)..(j - 1)) \cup {j}
          <5>1. (j + 1) - 1 = j /\ mid + 1 <= j /\ mid + 1 \in Int /\ j \in Int
            BY ONLY <2>3a
          <5> QED
            BY <2>3a, <5>1, OneMore, Zenon
        <4>2. (j + 1)..right \subseteq j..right
          BY <1>2, <2>3
        <4> QED
          BY <4>1, <4>2
      <3>4. \A q \in Rest(i, j + 1) : v[j] <= v[q]
        <4> TAKE q \in Rest(i, j + 1)
        <4>1. CASE q \in (j + 1)..right
          <5>1. j \in (mid + 1)..right /\ q \in (mid + 1)..right /\ j <= q
            BY <1>2, <2>3a, <3>0, <4>1
          <5> QED
            BY <5>1 DEF Ascends
        <4>2. CASE q \in i..mid
          <5>1. /\ i <= mid /\ i \in left..mid /\ q \in left..mid /\ i <= q
                /\ i \in left..right /\ q \in left..right
            BY <1>2, <2>3a, <4>2
          <5>2. v[i] <= v[q] /\ ~(v[i] < v[j])
            BY <2>6, <5>1 DEF Ascends
          <5>3. v[i] \in Nat /\ v[j] \in Nat /\ v[q] \in Nat
            BY <1>2, <3>2, <5>1
          <5> QED
            BY <5>2, <5>3
        <4> QED
          BY <4>1, <4>2
      <3>5. k + 1 = (i - left) + ((j + 1) - (mid + 1))
        BY ONLY <2>3a
      <3> HIDE DEF Gone, Rest, Inv
      <3>6. Takes(j, i, j + 1)
        BY <2>1, <3>1, <3>2, <3>3, <3>4, <3>5 DEF Takes
      <3> QED
        BY <2>4, <3>6 DEF t
    <2> QED
      BY <2>5, <2>6 DEF t
  <1>5. z \in Inv[K + 1]
    <2>1. K + 1 \in Nat /\ (K + 1) - 1 = K
      BY <1>2
    <2> HIDE DEF Inv, step, first
    <2> QED
      BY <1>3, <1>4, <2>1, AfterKeeps DEF z
  <1>6. /\ Len(z.tmp) = K + 1 /\ z.tmp \in Seq(Value) /\ Got(z.tmp, K + 1, left..right, v)
        /\ \A p, q \in 1..(K + 1) : p <= q => z.tmp[p] <= z.tmp[q]
    <2>1. K + 1 \in 0..(K + 1)
      BY <1>2
    <2>2. /\ z \in Both /\ z.i \in left..(mid + 1) /\ z.j \in (mid + 1)..(right + 1)
          /\ Len(z.tmp) = K + 1 /\ K + 1 = (z.i - left) + (z.j - (mid + 1))
          /\ Got(z.tmp, K + 1, Gone(z.i, z.j), v)
          /\ \A p, q \in 1..(K + 1) : p <= q => z.tmp[p] <= z.tmp[q]
      BY <1>5, <2>1
    <2>3. z.i = mid + 1 /\ z.j = right + 1
      <3> DEFINE i == z.i  j == z.j
      <3>1. i \in left..(mid + 1) /\ j \in (mid + 1)..(right + 1) /\ K + 1 = (i - left) + (j - (mid + 1))
        BY <2>2
      <3>2. i \in Int /\ j \in Int /\ i <= mid + 1 /\ j <= right + 1
        BY <1>2, <3>1
      <3> HIDE DEF i, j
      <3>3. i = mid + 1 /\ j = right + 1
        BY <1>2, <3>1, <3>2
      <3> QED
        BY <3>3 DEF i, j
    <2>4. Gone(mid + 1, right + 1) = left..right
      BY <1>2
    <2> HIDE DEF Gone
    <2> QED
      BY <2>2, <2>3, <2>4
  <1> HIDE DEF Inv, step, first
  <1>7. \A m \in left..right : m - left + 1 \in 1..(K + 1) /\ m \in Index(n)
    BY <1>2
  <1>8. \A m \in left..right : z.tmp[m - left + 1] \in Value
    BY <1>6, <1>7, ElementOfSeq
  <1>9. w \in Arrays(n)
    BY <1>1, <1>8 DEF Arrays
  <1>10. \A m \in Index(n) : w[m] = IF m \in left..right THEN z.tmp[m - left + 1] ELSE v[m]
    BY <1>1
  <1>11. Ascends(w, left, right)
    <2> SUFFICES ASSUME NEW p \in left..right, NEW q \in left..right, p <= q PROVE w[p] <= w[q]
      BY DEF Ascends
    <2>1. p - left + 1 <= q - left + 1
      BY <1>2
    <2> QED
      BY <1>6, <1>7, <1>10, <2>1
  <1>12. Same(v, w)
    <2>1. PICK src \in [1..(K + 1) -> left..right], dst \in [left..right -> 1..(K + 1)] :
              /\ \A q \in 1..(K + 1) : dst[src[q]] = q /\ z.tmp[q] = v[src[q]]
              /\ \A a \in left..right : src[dst[a]] = a
      BY <1>6 DEF Got
    <2> DEFINE f == [m \in Index(n) |-> IF m \in left..right THEN src[m - left + 1] ELSE m]
               g == [m \in Index(n) |-> IF m \in left..right THEN dst[m] - 1 + left ELSE m]
    <2>2. f \in [Index(n) -> Index(n)] /\ \A m \in left..right : f[m] = src[m - left + 1] /\ f[m] \in left..right
      BY <1>7, <2>1
    <2>3. \A d \in 1..(K + 1) : (d - 1 + left) \in left..right /\ (d - 1 + left) - left + 1 = d
      BY <1>2
    <2>4. \A m \in left..right : (m - left + 1) - 1 + left = m
      BY <1>2
    <2>5. g \in [Index(n) -> Index(n)] /\ \A m \in left..right : g[m] = dst[m] - 1 + left /\ g[m] \in left..right
      BY <1>7, <2>1, <2>3
    <2>6. \A m \in Index(n) : m \notin left..right => f[m] = m /\ g[m] = m
      OBVIOUS
    <2> HIDE DEF f, g
    <2>7. ASSUME NEW m \in Index(n) PROVE f[g[m]] = m /\ g[f[m]] = m /\ w[m] = v[f[m]]
      <3>1. CASE m \in left..right
        <4>1. f[g[m]] = m
          <5>1. dst[m] \in 1..(K + 1) /\ src[dst[m]] = m
            BY <2>1, <3>1
          <5>2. f[g[m]] = src[g[m] - left + 1] /\ g[m] = dst[m] - 1 + left
            BY <2>2, <2>5, <3>1
          <5>3. g[m] - left + 1 = dst[m]
            BY <2>3, <5>1, <5>2
          <5> QED
            BY <5>1, <5>2, <5>3
        <4>2. g[f[m]] = m /\ w[m] = v[f[m]]
          <5>1. m - left + 1 \in 1..(K + 1) /\ f[m] = src[m - left + 1] /\ f[m] \in left..right
            BY <1>7, <2>2, <3>1
          <5>2. dst[f[m]] = m - left + 1 /\ z.tmp[m - left + 1] = v[f[m]]
            BY <2>1, <5>1
          <5>3. g[f[m]] = dst[f[m]] - 1 + left
            BY <2>5, <5>1
          <5> QED
            BY <1>10, <2>4, <3>1, <5>2, <5>3
        <4> QED
          BY <4>1, <4>2
      <3>2. CASE m \notin left..right
        BY <1>10, <2>6, <3>2
      <3> QED
        BY <3>1, <3>2
    <2>8. DOMAIN v = Index(n) /\ DOMAIN w = Index(n)
      BY <1>9 DEF Arrays
    <2> QED
      <3>1. f \in [Index(n) -> Index(n)] /\ g \in [Index(n) -> Index(n)]
        BY <2>2, <2>5
      <3> HIDE DEF Same
      <3> QED
        BY <2>7, <2>8, <3>1, Rearranged
  <1>13. \A m \in Index(n) : m \notin left..right => w[m] = v[m]
    BY <1>10
  <1> QED
    BY <1>9, <1>11, <1>12, <1>13 DEF Part, w

\* What merge owes, from what the sorts of the two halves owe.
LEMMA HalvesSort ==
    ASSUME NEW n \in Nat, NEW v \in Arrays(n), NEW left \in Index(n), NEW right \in Index(n),
           left < right, NEW mid, mid = (left + right) \div 2, NEW x, NEW y,
           Part(x, v, left, mid, n), Part(y, x, mid + 1, right, n)
    PROVE  Part(merge(left, mid, right, y), v, left, right, n)
  <1>1. /\ left \in Nat /\ right \in Nat /\ mid \in Nat /\ left <= mid /\ mid < right /\ right < n
        /\ mid \in Index(n)
    BY DEF Index
  <1>2. Ascends(y, left, mid)
    <2>1. \A m \in left..mid : m \in Index(n) /\ m \notin (mid + 1)..right
      BY <1>1 DEF Index
    <2> QED
      BY <2>1 DEF Part, Ascends
  <1>3. Ascends(y, mid + 1, right) /\ y \in Arrays(n) /\ Same(v, y)
    BY Transitive DEF Part
  <1> DEFINE w == merge(left, mid, right, y)
  <1>4. Part(w, y, left, right, n)
    BY <1>1, <1>2, <1>3, MergeSorts
  <1> HIDE DEF w
  <1>5. w \in Arrays(n) /\ Ascends(w, left, right) /\ Same(v, w)
    BY <1>3, <1>4, Transitive DEF Part
  <1>6. \A m \in Index(n) : m \notin left..right => w[m] = v[m]
    <2> SUFFICES ASSUME NEW m \in Index(n), m \notin left..right PROVE w[m] = v[m]
      OBVIOUS
    <2>1. m \notin left..mid /\ m \notin (mid + 1)..right
      BY <1>1
    <2> QED
      BY <1>4, <2>1 DEF Part
  <1> QED
    BY <1>5, <1>6 DEF Part, w

LEMMA MergeSortSorts ==
    ASSUME NEW n \in Nat, n >= 2, NEW v \in Arrays(n)
    PROVE  SortOf(mergeSort(0, n - 1, v), v, n)
  <1> DEFINE P == Index(n) \X Index(n) \X Arrays(n)
             V == Arrays(n)
             Mid(p) == (p[1] + p[2]) \div 2
             One(p, f) == f[<<p[1], Mid(p), p[3]>>]
             Two(p, f) == f[<<Mid(p) + 1, p[2], One(p, f)>>]
             Body(p, f) == IF p[1] >= p[2] THEN p[3] ELSE merge(p[1], Mid(p), p[2], Two(p, f))
             W == [p \in P |-> {x \in V : Part(x, p[3], p[1], p[2], n)}]
             deep == [p \in P |-> IF p[1] < p[2] THEN p[2] - p[1] ELSE 0]
             f0 == [p \in P |-> p[3]]
             step == [p \in P |-> [f \in [P -> V] |-> Body(p, f)]]
             g == CHOOSE f : f = [p \in P |-> Body(p, f)]
  <1>1. mergeSort(0, n - 1, v) = g[<<0, n - 1, v>>]
    <2>1. DOMAIN v = Index(n) /\ Like(v) = Arrays(n)
      BY ArrayIs, ArrayOfNats
    <2> QED
      BY <2>1 DEF mergeSort
  <1>2. \A p \in P : /\ p[1] \in Index(n) /\ p[2] \in Index(n) /\ p[3] \in Arrays(n)
                     /\ p[1] \in Nat /\ p[2] \in Nat /\ p[1] < n /\ p[2] < n
    BY DEF Index
  \* The two halves are less deep, and have solutions if what is less deep has.
  <1>3. ASSUME NEW p \in P, NEW f, p[1] < p[2],
               \A q \in P : deep[q] < deep[p] => f[q] \in W[q]
        PROVE  LET p1 == <<p[1], Mid(p), p[3]>>
                   p2 == <<Mid(p) + 1, p[2], f[p1]>>
               IN  /\ p1 \in P /\ deep[p1] < deep[p] /\ Part(f[p1], p[3], p[1], Mid(p), n)
                   /\ p2 \in P /\ deep[p2] < deep[p] /\ Part(f[p2], f[p1], Mid(p) + 1, p[2], n)
    <2> DEFINE left == p[1]  right == p[2]  mid == Mid(p)
               p1 == <<left, mid, p[3]>>  p2 == <<mid + 1, right, f[p1]>>
    <2>1. /\ left \in Nat /\ right \in Nat /\ mid = (left + right) \div 2 /\ left < right /\ right < n
          /\ left \in Index(n) /\ right \in Index(n) /\ p[3] \in Arrays(n)
      BY <1>2, <1>3
    <2> HIDE DEF left, right, mid
    <2>2. mid \in Nat /\ left <= mid /\ mid < right /\ mid \in Index(n) /\ mid + 1 \in Index(n)
      BY <2>1 DEF Index
    <2>3. p1 \in P /\ p1[1] = left /\ p1[2] = mid /\ p1[3] = p[3]
      BY <2>1, <2>2
    <2>4. deep[p] = right - left
      BY <2>1 DEF left, right
    <2>5. deep[p1] < deep[p]
      <3>1. deep[p1] = IF left < mid THEN mid - left ELSE 0
        BY <2>3
      <3> HIDE DEF deep
      <3> QED
        BY <2>1, <2>2, <2>4, <3>1
    <2>6. f[p1] \in V /\ Part(f[p1], p[3], left, mid, n)
      <3>1. f[p1] \in W[p1]
        BY <1>3, <2>3, <2>5
      <3> QED
        BY <2>3, <3>1
    <2>7. p2 \in P /\ p2[1] = mid + 1 /\ p2[2] = right /\ p2[3] = f[p1]
      BY <2>1, <2>2, <2>6
    <2>8. deep[p2] < deep[p]
      <3>1. deep[p2] = IF mid + 1 < right THEN right - (mid + 1) ELSE 0
        BY <2>7
      <3> HIDE DEF deep
      <3> QED
        BY <2>1, <2>2, <2>4, <3>1
    <2>9. Part(f[p2], f[p1], mid + 1, right, n)
      <3>1. f[p2] \in W[p2]
        BY <1>3, <2>7, <2>8
      <3> QED
        BY <2>7, <3>1
    <2> HIDE DEF deep
    <2> QED
      BY <2>3, <2>5, <2>6, <2>7, <2>8, <2>9 DEF left, right, mid
  <1>4. ASSUME NEW p \in P, NEW f, \A q \in P : deep[q] < deep[p] => f[q] \in W[q]
        PROVE  Body(p, f) \in W[p]
    <2> SUFFICES Body(p, f) \in V /\ Part(Body(p, f), p[3], p[1], p[2], n)
      OBVIOUS
    <2>1. CASE p[1] >= p[2]
      <3>1. Body(p, f) = p[3]
        BY <2>1
      <3>2. Ascends(p[3], p[1], p[2])
        <4>1. \A i \in Index(n) : p[3][i] \in Nat
          BY <1>2, ArrayIs, ArrayOfNats
        <4>2. \A i, j \in p[1]..p[2] : i = j /\ i \in Index(n)
          BY <1>2, <2>1
        <4> QED
          BY <4>1, <4>2 DEF Ascends
      <3> QED
        BY <1>2, <3>1, <3>2, Reflexive DEF Part
    <2>2. CASE ~(p[1] >= p[2])
      <3>1. p[1] < p[2] /\ Body(p, f) = merge(p[1], Mid(p), p[2], Two(p, f))
        BY <1>2, <2>2
      <3>2. Part(One(p, f), p[3], p[1], Mid(p), n) /\ Part(Two(p, f), One(p, f), Mid(p) + 1, p[2], n)
        <4> HIDE DEF deep, W, P
        <4> QED
          BY <1>3, <1>4, <3>1
      <3> HIDE DEF Body, One, Two
      <3>3. Part(Body(p, f), p[3], p[1], p[2], n)
        BY <1>2, <3>1, <3>2, HalvesSort
      <3> QED
        BY <3>3 DEF Part
    <2> QED
      BY <2>1, <2>2
  <1>5. \E f \in [P -> V] : f = [p \in P |-> step[p][f]]
    <2>1. deep \in [P -> Nat] /\ \A p \in P : deep[p] < n
      BY <1>2
    <2>2. f0 \in [P -> V] /\ \A p \in P : W[p] \subseteq V
      BY <1>2
    <2>3. \A p \in P : \A f \in [P -> V] : step[p][f] = Body(p, f)
      OBVIOUS
    <2> HIDE DEF step
    <2>4. ASSUME NEW p \in P, NEW f \in [P -> V], \A q \in P : deep[q] < deep[p] => f[q] \in W[q]
          PROVE  step[p][f] \in W[p]
      <3> HIDE DEF W, deep, Body, P
      <3> QED
        BY <1>4, <2>3, <2>4
    <2>5. ASSUME NEW p \in P, NEW f \in [P -> V], NEW h \in [P -> V],
                 \A q \in P : deep[q] < deep[p] => f[q] \in W[q] /\ f[q] = h[q]
          PROVE  step[p][f] = step[p][h]
      <3>1. Body(p, f) = Body(p, h)
        <4>1. CASE p[1] >= p[2]
          BY <4>1
        <4>2. CASE ~(p[1] >= p[2])
          <5>1. p[1] < p[2]
            BY <1>2, <4>2
          <5> HIDE DEF deep, W, P, Mid
          <5>2. One(p, f) = One(p, h)
            BY <1>3, <2>5, <5>1
          <5>3. Two(p, f) = f[<<Mid(p) + 1, p[2], One(p, f)>>] /\ Two(p, h) = h[<<Mid(p) + 1, p[2], One(p, f)>>]
            BY <5>2
          <5>4. Two(p, f) = Two(p, h)
            BY <1>3, <2>5, <5>1, <5>3
          <5> HIDE DEF Two
          <5> QED
            BY <5>4
        <4> QED
          BY <4>1, <4>2
      <3> HIDE DEF P, V, Body
      <3> QED
        BY <2>3, <3>1
    <2> HIDE DEF P, V, W, deep, f0, Body
    <2>6. \A p \in P : \A f \in [P -> V] :
             (\A q \in P : deep[q] < deep[p] => f[q] \in W[q]) => step[p][f] \in W[p]
      BY <2>4
    <2>7. \A p \in P : \A f, h \in [P -> V] :
             (\A q \in P : deep[q] < deep[p] => f[q] \in W[q] /\ f[q] = h[q]) => step[p][f] = step[p][h]
      BY <2>5
    <2>8. Recursive(P, V, W, f0, deep, n, step)
      BY <2>1, <2>2, <2>6, <2>7 DEF Recursive
    <2> QED
      BY <2>8, RecursionExists
  <1>6. g = [p \in P |-> Body(p, g)]
    <2>1. PICK f \in [P -> V] : f = [p \in P |-> step[p][f]]
      BY <1>5
    <2>2. f = [p \in P |-> Body(p, f)]
      <3> HIDE DEF P, V, Body
      <3> QED
        BY <2>1
    <2> HIDE DEF P, V, Body
    <2> QED
      BY <2>2, Zenon
  <1> HIDE DEF g
  <1>7. \A p \in P : g[p] = Body(p, g)
    <2> HIDE DEF P, Body
    <2> QED
      BY <1>6, Zenon
  <1> DEFINE T == {k \in Nat : \A p \in P : deep[p] < k => g[p] \in W[p]}
  <1>8. n \in T
    <2>1. deep \in [P -> Nat]
      BY <1>2
    <2>2. 0 \in T
      BY <2>1
    <2>3. ASSUME NEW k \in Nat, k \in T PROVE k + 1 \in T
      <3> SUFFICES ASSUME NEW p \in P, deep[p] < k + 1 PROVE g[p] \in W[p]
        OBVIOUS
      <3> HIDE DEF deep, W, P, Body
      <3>1. \A q \in P : deep[q] < deep[p] => deep[q] < k
        BY <2>1
      <3> QED
        BY <1>4, <1>7, <2>3, <3>1
    <2> HIDE DEF T
    <2> QED
      BY <2>2, <2>3, Induction
  <1> DEFINE p0 == <<0, n - 1, v>>  w == g[p0]
  <1>9. p0 \in P /\ p0[1] = 0 /\ p0[2] = n - 1 /\ p0[3] = v
    BY DEF Index
  <1>10. w \in W[p0]
    <2>1. deep[p0] < n
      BY <1>2, <1>9
    <2> HIDE DEF deep, W, P, p0
    <2> QED
      BY <1>8, <1>9, <2>1
  <1>11. Part(w, v, 0, n - 1, n)
    <2> HIDE DEF w, p0
    <2> QED
      BY <1>9, <1>10
  <1> QED
    BY <1>1, <1>11, ArrayOfNats DEF Part, SortOf

\* w has the elements of v in other places of L..R.
Moved(w, v, L, R, n) ==
    /\ w \in Arrays(n) /\ Same(v, w)
    /\ \A m \in Index(n) : m \notin L..R => w[m] = v[m]
    /\ \A p \in L..R : \E q \in L..R : w[p] = v[q]

LEMMA MovedIs ==
    ASSUME NEW n \in Nat, NEW L, NEW R
    PROVE  /\ \A v \in Arrays(n) : Moved(v, v, L, R, n)
           /\ \A u, v, w : Moved(v, u, L, R, n) /\ Moved(w, v, L, R, n) => Moved(w, u, L, R, n)
  <1>1. \A v \in Arrays(n) : Moved(v, v, L, R, n)
    BY Reflexive DEF Moved
  <1>2. ASSUME NEW u, NEW v, NEW w, Moved(v, u, L, R, n), Moved(w, v, L, R, n)
        PROVE  Moved(w, u, L, R, n)
    <2>1. Same(u, w)
      <3>1. Same(u, v) /\ Same(v, w)
        BY <1>2 DEF Moved
      <3> QED
        BY <3>1, Transitive, Zenon
    <2>2. \A p \in L..R : \E q \in L..R : w[p] = u[q]
      BY <1>2 DEF Moved
    <2> QED
      BY <1>2, <2>1, <2>2 DEF Moved
  <1> QED
    BY <1>1, <1>2

\* The elements at i and j have changed places, both inside L..R.
Exchanged(w, v, i, j, L, R, n) ==
    /\ Moved(w, v, L, R, n)
    /\ \A k \in Index(n) : w[k] = IF k = j THEN v[i] ELSE IF k = i THEN v[j] ELSE v[k]

LEMMA SwapMoves ==
    ASSUME NEW n \in Nat, NEW v \in Arrays(n), NEW L \in Nat, NEW R \in Nat, R < n,
           NEW i \in L..R, NEW j \in L..R
    PROVE  Exchanged(swap(v, i, j), v, i, j, L, R, n)
  <1> DEFINE w == swap(v, i, j)
  <1>1. i \in Index(n) /\ j \in Index(n) /\ \A p \in L..R : p \in Index(n)
    BY DEF Index
  <1>2. Swapped(w, v, i, j, n)
    BY <1>1, SwapIs, Zenon
  <1> HIDE DEF w
  <1>3. /\ w \in Arrays(n) /\ Same(v, w)
        /\ \A k \in Index(n) : w[k] = IF k = j THEN v[i] ELSE IF k = i THEN v[j] ELSE v[k]
    BY <1>2 DEF Swapped
  <1>4. \A m \in Index(n) : m \notin L..R => w[m] = v[m]
    BY <1>3
  <1>5. ASSUME NEW p \in L..R PROVE \E q \in L..R : w[p] = v[q]
    <2>1. p \in Index(n)
      BY <1>1
    <2> QED
      BY <1>3, <2>1
  <1>6. Moved(w, v, L, R, n)
    BY <1>3, <1>4, <1>5 DEF Moved
  <1> QED
    BY <1>3, <1>6 DEF w, Exchanged

LEMMA PartitionSplits ==
    ASSUME NEW n \in Nat, NEW v \in Arrays(n), NEW L \in Nat, NEW R \in Nat, L < R, R < n,
           NEW pivot \in L..R
    PROVE  LET s == partition(L, R, v, pivot)
           IN  /\ s.l \in L..R /\ Moved(s.v, v, L, R, n)
               /\ \A p \in L..(s.l - 1) : s.v[p] <= s.v[s.l]
               /\ \A p \in (s.l + 1)..R : s.v[p] > s.v[s.l]
  <1> DEFINE Both == [l : L..R, more : L..R, v : Arrays(n)]
             Less(s) == [l |-> s.l + 1, more |-> s.more, v |-> swap(s.v, s.l + 1, s.l)]
             More(s) == [l |-> s.l, more |-> s.more - 1, v |-> swap(s.v, s.l + 1, s.more)]
             OneTurn == [s \in Both |-> IF s.l >= s.more THEN s
                                     ELSE IF s.v[s.l + 1] <= s.v[s.l] THEN Less(s) ELSE More(s)]
             K == R - L
             step == [k \in Index(K) |-> OneTurn]
             first == [l |-> L, more |-> R, v |-> swap(v, pivot, L)]
             Parted(w, l, more) == /\ \A p \in L..(l - 1) : w[p] <= w[l]
                                   /\ \A p \in (more + 1)..R : w[p] > w[l]
             Inv == [k \in 0..K |-> {s \in Both : /\ s.l <= s.more /\ s.more - s.l <= K - k
                                                  /\ Moved(s.v, v, L, R, n)
                                                  /\ Parted(s.v, s.l, s.more)}]
             z == After(first, K, step)
  <1>1. partition(L, R, v, pivot) = z
    <2>1. Like(v) = Arrays(n)
      BY ArrayIs, ArrayOfNats
    <2> QED
      BY <2>1, Zenon DEF partition
  <1>2. K \in Nat /\ K = R - L /\ K \in 0..K /\ \A p \in L..R : p \in Index(n) /\ p \in Nat
    BY DEF Index
  <1>3. first \in Inv[0]
    <2> DEFINE w == swap(v, pivot, L)
    <2>1. Moved(w, v, L, R, n)
      <3>1. L \in L..R
        OBVIOUS
      <3>2. Exchanged(w, v, pivot, L, L, R, n)
        BY <3>1, SwapMoves, Zenon
      <3> QED
        BY <3>2, Zenon DEF Exchanged
    <2> HIDE DEF w
    <2>2. w \in Arrays(n)
      BY <2>1 DEF Moved
    <2>3. first = [l |-> L, more |-> R, v |-> w]
      BY DEF w
    <2> HIDE DEF first
    <2>4. first \in Both /\ first.l = L /\ first.more = R /\ first.v = w
      BY <2>2, <2>3
    <2>5. Parted(w, L, R)
      OBVIOUS
    <2>6. 0 \in 0..K /\ R - L <= K - 0
      BY <1>2
    <2> HIDE DEF K, Parted
    <2> QED
      BY <2>1, <2>4, <2>5, <2>6
  <1> HIDE DEF K
  <1>4. ASSUME NEW k \in 0..(K - 1), NEW s \in Inv[k] PROVE step[k][s] \in Inv[k + 1]
    <2> DEFINE l == s.l  more == s.more  u == s.v  t == step[k][s]
    <2>0. k \in 0..K /\ k + 1 \in 0..K /\ k \in Index(K) /\ k \in Nat
      BY <1>2 DEF Index
    <2>1. /\ s \in Both /\ l \in L..R /\ more \in L..R /\ u \in Arrays(n)
          /\ l <= more /\ more - l <= K - k
          /\ Moved(u, v, L, R, n) /\ Parted(u, l, more)
      BY <2>0
    <2>2. t = IF l >= more THEN s
              ELSE IF u[l + 1] <= u[l] THEN [l |-> l + 1, more |-> more, v |-> swap(u, l + 1, l)]
              ELSE [l |-> l, more |-> more - 1, v |-> swap(u, l + 1, more)]
      BY <2>0, <2>1, Zenon
    <2>3. l \in Nat /\ more \in Nat /\ L <= l /\ more <= R /\ l <= more /\ more - l <= K - k
      BY <2>1
    <2>4. \A p \in Index(n) : u[p] \in Nat
      BY <2>1, ArrayIs, ArrayOfNats
    <2>5. s = [l |-> l, more |-> more, v |-> u]
      BY <2>1
    <2> HIDE DEF l, more, u, t
    \* What is left to show of a turn.
    <2> DEFINE Good(l2, more2, w) ==
                 /\ l2 \in L..R /\ more2 \in L..R /\ t = [l |-> l2, more |-> more2, v |-> w]
                 /\ l2 <= more2 /\ more2 - l2 <= K - (k + 1)
                 /\ Moved(w, v, L, R, n) /\ Parted(w, l2, more2)
    <2>6. ASSUME NEW l2, NEW more2, NEW w, Good(l2, more2, w)
          PROVE  t \in Inv[k + 1]
      <3>1. w \in Arrays(n)
        BY <2>6 DEF Moved
      <3>2. t \in Both /\ t.l = l2 /\ t.more = more2 /\ t.v = w
        BY <2>6, <3>1
      <3> HIDE DEF Parted
      <3> QED
        BY <2>0, <2>6, <3>2
    <2> HIDE DEF Good
    <2>7. CASE l >= more
      <3>1. t = [l |-> l, more |-> more, v |-> u]
        BY <2>2, <2>5, <2>7
      <3>2. more - l <= K - (k + 1)
        BY <1>2, <2>0, <2>3, <2>7
      <3> HIDE DEF Parted, Inv
      <3>3. Good(l, more, u)
        BY <2>1, <2>3, <3>1, <3>2 DEF Good
      <3> QED
        BY <2>6, <3>3 DEF t
    <2>8. CASE l < more /\ u[l + 1] <= u[l]
      <3> DEFINE w == swap(u, l + 1, l)
      <3>1. t = [l |-> l + 1, more |-> more, v |-> w]
        BY <2>2, <2>3, <2>8
      <3>2. l \in L..R /\ l + 1 \in L..R /\ l + 1 <= more /\ more - (l + 1) <= K - (k + 1)
        BY <1>2, <2>0, <2>3, <2>8
      <3>3. /\ Moved(w, u, L, R, n)
            /\ \A p \in Index(n) : w[p] = IF p = l THEN u[l + 1] ELSE IF p = l + 1 THEN u[l] ELSE u[p]
        <4>1. Exchanged(w, u, l + 1, l, L, R, n)
          BY <2>1, <3>2, SwapMoves, Zenon
        <4> QED
          BY <4>1, Zenon DEF Exchanged
      <3> HIDE DEF w
      <3>4. Moved(w, v, L, R, n)
        BY <2>1, <3>3, MovedIs, Zenon
      <3>5. Parted(w, l + 1, more)
        <4>1. l \in Index(n) /\ l + 1 \in Index(n) /\ w[l + 1] = u[l] /\ w[l] = u[l + 1]
          BY <1>2, <2>3, <3>2, <3>3
        <4>2. ASSUME NEW p \in L..((l + 1) - 1) PROVE w[p] <= w[l + 1]
          <5>1. p = l \/ (p \in L..(l - 1) /\ p # l /\ p # l + 1 /\ p \in Index(n))
            BY <1>2, <2>3, <3>2
          <5> QED
            BY <2>1, <2>8, <3>3, <4>1, <5>1
        <4>3. ASSUME NEW p \in (more + 1)..R PROVE w[p] > w[l + 1]
          <5>1. p # l /\ p # l + 1 /\ p \in Index(n)
            BY <1>2, <2>3, <3>2
          <5> QED
            BY <2>1, <3>3, <4>1, <5>1
        <4> QED
          BY <4>2, <4>3
      <3> HIDE DEF Parted, Inv
      <3>6. Good(l + 1, more, w)
        BY <2>1, <3>1, <3>2, <3>4, <3>5 DEF Good
      <3> QED
        BY <2>6, <3>6 DEF t
    <2>9. CASE l < more /\ ~(u[l + 1] <= u[l])
      <3> DEFINE w == swap(u, l + 1, more)
      <3>1. t = [l |-> l, more |-> more - 1, v |-> w]
        BY <2>2, <2>3, <2>9
      <3>2. /\ l \in L..R /\ l + 1 \in L..R /\ more \in L..R /\ more - 1 \in L..R
            /\ l <= more - 1 /\ (more - 1) - l <= K - (k + 1)
        BY <1>2, <2>0, <2>3, <2>9
      <3>3. /\ Moved(w, u, L, R, n)
            /\ \A p \in Index(n) : w[p] = IF p = more THEN u[l + 1] ELSE IF p = l + 1 THEN u[more] ELSE u[p]
        <4>1. Exchanged(w, u, l + 1, more, L, R, n)
          BY <2>1, <3>2, SwapMoves, Zenon
        <4> QED
          BY <4>1, Zenon DEF Exchanged
      <3> HIDE DEF w
      <3>4. Moved(w, v, L, R, n)
        BY <2>1, <3>3, MovedIs, Zenon
      <3>5. Parted(w, l, more - 1)
        <4>1. l \in Index(n) /\ l + 1 \in Index(n) /\ more \in Index(n) /\ w[l] = u[l] /\ w[more] = u[l + 1]
          BY <1>2, <2>3, <2>9, <3>2, <3>3
        <4>2. ASSUME NEW p \in L..(l - 1) PROVE w[p] <= w[l]
          <5>1. p # more /\ p # l + 1 /\ p \in Index(n)
            BY <1>2, <2>3, <3>2
          <5> QED
            BY <2>1, <3>3, <4>1, <5>1
        <4>3. ASSUME NEW p \in ((more - 1) + 1)..R PROVE w[p] > w[l]
          <5>1. p = more \/ (p \in (more + 1)..R /\ p # more /\ p # l + 1 /\ p \in Index(n))
            BY <1>2, <2>3, <3>2
          <5>2. u[l + 1] > u[l]
            BY <2>4, <2>9, <4>1
          <5> QED
            BY <2>1, <3>3, <4>1, <5>1, <5>2
        <4> QED
          BY <4>2, <4>3
      <3> HIDE DEF Parted, Inv
      <3>6. Good(l, more - 1, w)
        BY <2>1, <3>1, <3>2, <3>4, <3>5 DEF Good
      <3> QED
        BY <2>6, <3>6 DEF t
    <2> QED
      BY <2>3, <2>7, <2>8, <2>9
  <1>5. z \in Inv[K]
    <2> HIDE DEF Inv, step, first
    <2> QED
      BY <1>2, <1>3, <1>4, AfterKeeps
  <1> HIDE DEF z
  <1>6. /\ z.l \in L..R /\ z.more \in L..R /\ z.l <= z.more /\ z.more - z.l <= K - K
        /\ Moved(z.v, v, L, R, n) /\ Parted(z.v, z.l, z.more)
    BY <1>2, <1>5
  <1>7. z.more = z.l
    <2>1. z.l \in Nat /\ z.more \in Nat
      BY <1>6
    <2> QED
      BY <1>2, <1>6, <2>1
  <1>8. Parted(z.v, z.l, z.l)
    BY <1>6, <1>7
  <1> QED
    BY <1>1, <1>6, <1>8

\* What quickSort owes for L..R of v.
Quick(w, v, L, R, n) == Moved(w, v, L, R, n) /\ Ascends(w, L, R)

LEMMA MovedWithin ==
    ASSUME NEW n \in Nat, NEW L \in Nat, NEW R \in Nat, NEW a \in Int, NEW b \in Int, L <= a, b <= R,
           NEW w, NEW v, Moved(w, v, a, b, n), R < n
    PROVE  Moved(w, v, L, R, n)
  <1>1. \A p \in a..b : p \in L..R
    OBVIOUS
  <1>2. ASSUME NEW m \in Index(n), m \notin L..R PROVE w[m] = v[m]
    BY <1>1, <1>2 DEF Moved
  <1>3. ASSUME NEW p \in L..R PROVE \E q \in L..R : w[p] = v[q]
    <2>1. CASE p \in a..b
      BY <1>1, <2>1 DEF Moved
    <2>2. CASE p \notin a..b
      <3>1. p \in Index(n)
        BY DEF Index
      <3>2. w[p] = v[p]
        BY <2>2, <3>1 DEF Moved
      <3> QED
        BY <3>2
    <2> QED
      BY <2>1, <2>2
  <1> QED
    BY <1>2, <1>3 DEF Moved

\* The sorted parts before and behind the pivot make the whole sorted.
LEMMA PartsSort ==
    ASSUME NEW n \in Nat, NEW v \in Arrays(n), NEW L \in Nat, NEW R \in Nat, L < R, R < n,
           NEW pivot \in L..R, NEW x, NEW y,
           Quick(x, partition(L, R, v, pivot).v, L, partition(L, R, v, pivot).l - 1, n),
           Quick(y, x, partition(L, R, v, pivot).l + 1, R, n)
    PROVE  Quick(y, v, L, R, n)
  <1> DEFINE s == partition(L, R, v, pivot)  l == s.l  u == s.v
  <1>1. /\ l \in L..R /\ Moved(u, v, L, R, n)
        /\ \A p \in L..(l - 1) : u[p] <= u[l]
        /\ \A p \in (l + 1)..R : u[p] > u[l]
    BY PartitionSplits
  <1>2. Quick(x, u, L, l - 1, n) /\ Quick(y, x, l + 1, R, n)
    OBVIOUS
  <1> HIDE DEF s, l, u
  <1>3. l \in Nat /\ L <= l /\ l <= R /\ \A p \in L..R : p \in Index(n) /\ p \in Nat
    BY <1>1 DEF Index
  <1>4. Moved(x, u, L, l - 1, n) /\ Moved(y, x, l + 1, R, n)
    BY <1>2 DEF Quick
  <1>5. Moved(y, v, L, R, n)
    <2>1. Moved(x, u, L, R, n)
      <3>1. L \in Int /\ l - 1 \in Int /\ L <= L /\ l - 1 <= R
        BY <1>3
      <3> QED
        BY <1>4, <3>1, MovedWithin
    <2>2. Moved(y, x, L, R, n)
      <3>1. R \in Int /\ l + 1 \in Int /\ R <= R /\ L <= l + 1
        BY <1>3
      <3> QED
        BY <1>4, <3>1, MovedWithin
    <2>3. Moved(x, v, L, R, n)
      BY <1>1, <2>1, MovedIs, Zenon
    <2> QED
      BY <2>2, <2>3, MovedIs, Zenon
  <1>6. u \in Arrays(n) /\ y \in Arrays(n)
    BY <1>1, <1>5 DEF Moved
  <1>7. \A p \in Index(n) : u[p] \in Nat /\ y[p] \in Nat
    BY <1>6, ArrayIs, ArrayOfNats
  <1>8. ASSUME NEW p \in L..(l - 1) PROVE p \in Index(n) /\ y[p] = x[p] /\ y[p] <= u[l]
    <2>1. p \in Index(n) /\ p \notin (l + 1)..R
      BY <1>3
    <2>2. y[p] = x[p]
      BY <1>4, <2>1 DEF Moved
    <2>3. PICK q \in L..(l - 1) : x[p] = u[q]
      BY <1>4 DEF Moved
    <2> QED
      BY <1>1, <2>1, <2>2, <2>3
  <1>9. y[l] = u[l] /\ l \in Index(n)
    <2>1. l \in Index(n) /\ l \notin (l + 1)..R /\ l \notin L..(l - 1)
      BY <1>3
    <2> QED
      BY <1>4, <2>1 DEF Moved
  <1>10. ASSUME NEW p \in (l + 1)..R PROVE p \in Index(n) /\ u[l] <= y[p]
    <2>1. PICK q \in (l + 1)..R : y[p] = x[q]
      BY <1>4 DEF Moved
    <2>2. q \in Index(n) /\ p \in Index(n) /\ q \notin L..(l - 1)
      BY <1>3
    <2>3. x[q] = u[q]
      BY <1>4, <2>2 DEF Moved
    <2>4. u[q] > u[l]
      BY <1>1
    <2> QED
      BY <1>7, <1>9, <2>1, <2>2, <2>3, <2>4
  <1>11. Ascends(y, L, R)
    <2> SUFFICES ASSUME NEW p \in L..R, NEW q \in L..R, p <= q PROVE y[p] <= y[q]
      BY DEF Ascends
    <2>1. /\ p \in L..(l - 1) \/ p = l \/ p \in (l + 1)..R
          /\ q \in L..(l - 1) \/ q = l \/ q \in (l + 1)..R
      BY <1>3
    <2>2. y[p] \in Nat /\ y[q] \in Nat /\ u[l] \in Nat
      BY <1>3, <1>7, <1>9
    <2>3. CASE q \in L..(l - 1)
      <3>1. p \in L..(l - 1)
        BY <1>3, <2>3
      <3>2. x[p] <= x[q]
        BY <1>2, <2>3, <3>1 DEF Quick, Ascends
      <3> QED
        BY <1>8, <2>3, <3>1, <3>2
    <2>4. CASE q = l
      <3>1. p \in L..(l - 1) \/ p = l
        BY <1>3, <2>4
      <3> QED
        BY <1>8, <1>9, <2>2, <2>4, <3>1
    <2>5. CASE q \in (l + 1)..R
      <3>1. CASE p \in (l + 1)..R
        BY <1>2, <2>5, <3>1 DEF Quick, Ascends
      <3>2. CASE p \in L..(l - 1) \/ p = l
        <4>1. y[p] <= u[l]
          BY <1>8, <1>9, <2>2, <3>2
        <4>2. u[l] <= y[q]
          BY <1>10, <2>5
        <4> QED
          BY <2>2, <4>1, <4>2
      <3> QED
        BY <2>1, <3>1, <3>2
    <2> QED
      BY <2>1, <2>3, <2>4, <2>5
  <1> QED
    BY <1>5, <1>11 DEF Quick

LEMMA QuickSortSorts ==
    ASSUME NEW n \in Nat, n >= 2, NEW v \in Arrays(n), NEW w \in quickSort(0, n - 1, v)
    PROVE  SortOf(w, v, n)
  <1> DEFINE P == (0..((n - 1) + 1)) \X ((-1)..(n - 1)) \X Arrays(n)
             V == SUBSET Arrays(n)
             Split(p, c) == partition(p[1], p[2], p[3], c)
             Before(p, c) == <<p[1], Split(p, c).l - 1, Split(p, c).v>>
             Behind(p, c, x) == <<Split(p, c).l + 1, p[2], x>>
             Some(p, f, c) == UNION {f[Behind(p, c, x)] : x \in f[Before(p, c)]}
             Body(p, f) == IF p[1] >= p[2] THEN {p[3]} ELSE UNION {Some(p, f, c) : c \in p[1]..p[2]}
             W == [p \in P |-> SUBSET {x \in Arrays(n) : Quick(x, p[3], p[1], p[2], n)}]
             deep == [p \in P |-> IF p[1] < p[2] THEN p[2] - p[1] ELSE 0]
             f0 == [p \in P |-> {}]
             step == [p \in P |-> [f \in [P -> V] |-> Body(p, f)]]
             g == CHOOSE f : f = [p \in P |-> Body(p, f)]
  <1>1. quickSort(0, n - 1, v) = g[<<0, n - 1, v>>]
    <2>1. Like(v) = Arrays(n)
      BY ArrayIs, ArrayOfNats
    <2> QED
      BY <2>1 DEF quickSort
  <1>2. \A p \in P : /\ p[1] \in 0..n /\ p[2] \in (-1)..(n - 1) /\ p[3] \in Arrays(n)
                     /\ p[1] \in Nat /\ p[2] \in Int /\ p[2] < n
    OBVIOUS
  <1>3. ASSUME NEW p \in P, p[1] < p[2], NEW c \in p[1]..p[2]
        PROVE  Before(p, c) \in P /\ deep[Before(p, c)] < deep[p]
    <2> DEFINE L == p[1]  R == p[2]  l == Split(p, c).l
    <2>1. L \in Nat /\ R \in Nat /\ L < R /\ R < n /\ p[3] \in Arrays(n) /\ c \in L..R
      BY <1>2, <1>3
    <2> HIDE DEF L, R
    <2>2. l \in L..R /\ Split(p, c).v \in Arrays(n)
      <3>1. l \in L..R /\ Moved(Split(p, c).v, p[3], L, R, n)
        BY <2>1, PartitionSplits DEF L, R
      <3> QED
        BY <3>1 DEF Moved
    <2> HIDE DEF Split, l
    <2>3. Before(p, c) = <<L, l - 1, Split(p, c).v>>
      BY DEF L, l
    <2>4. L \in 0..((n - 1) + 1) /\ l - 1 \in (-1)..(n - 1)
      BY <2>1, <2>2
    <2>5. Before(p, c) \in P
      BY <2>2, <2>3, <2>4
    <2>6. deep[Before(p, c)] = IF L < l - 1 THEN (l - 1) - L ELSE 0
      BY <2>3, <2>5
    <2>7. deep[p] = R - L
      BY <2>1 DEF L, R
    <2> QED
      BY <2>1, <2>2, <2>5, <2>6, <2>7
  <1>4. ASSUME NEW p \in P, p[1] < p[2], NEW c \in p[1]..p[2], NEW x \in Arrays(n)
        PROVE  Behind(p, c, x) \in P /\ deep[Behind(p, c, x)] < deep[p]
    <2> DEFINE L == p[1]  R == p[2]  l == Split(p, c).l
    <2>1. L \in Nat /\ R \in Nat /\ L < R /\ R < n /\ p[3] \in Arrays(n) /\ c \in L..R
      BY <1>2, <1>4
    <2> HIDE DEF L, R
    <2>2. l \in L..R
      BY <2>1, PartitionSplits DEF L, R
    <2> HIDE DEF Split, l
    <2>3. Behind(p, c, x) = <<l + 1, R, x>>
      BY DEF R, l
    <2>4. l + 1 \in 0..((n - 1) + 1) /\ R \in (-1)..(n - 1)
      BY <2>1, <2>2
    <2>5. Behind(p, c, x) \in P
      BY <2>3, <2>4
    <2>6. deep[Behind(p, c, x)] = IF l + 1 < R THEN R - (l + 1) ELSE 0
      BY <2>3, <2>5
    <2>7. deep[p] = R - L
      BY <2>1 DEF L, R
    <2> QED
      BY <2>1, <2>2, <2>5, <2>6, <2>7
  <1>5. \A p \in P : \A x : (\E A \in W[p] : x \in A) <=> (x \in Arrays(n) /\ Quick(x, p[3], p[1], p[2], n))
    <2> TAKE p \in P
    <2>1. W[p] = SUBSET {x \in Arrays(n) : Quick(x, p[3], p[1], p[2], n)}
      OBVIOUS
    <2> HIDE DEF W, P
    <2> QED
      BY <2>1
  \* What one pivot leads to is sorted if what is less deep is.
  <1>6. ASSUME NEW p \in P, NEW f, p[1] < p[2], NEW c \in p[1]..p[2],
               \A q \in P : deep[q] < deep[p] => f[q] \in W[q],
               NEW x \in f[Before(p, c)]
        PROVE  /\ x \in Arrays(n)
               /\ \A y \in f[Behind(p, c, x)] : y \in Arrays(n) /\ Quick(y, p[3], p[1], p[2], n)
    <2> DEFINE b == Before(p, c)  h == Behind(p, c, x)
    <2>1. b \in P /\ f[b] \in W[b]
      <3> HIDE DEF Before, deep, W, P
      <3> QED
        BY <1>3, <1>6
    <2>2. x \in Arrays(n) /\ Quick(x, b[3], b[1], b[2], n)
      <3> HIDE DEF Before, W, P
      <3> QED
        BY <1>5, <2>1
    <2>3. h \in P /\ f[h] \in W[h]
      <3> HIDE DEF Behind, deep, W, P
      <3> QED
        BY <1>4, <1>6, <2>2
    <2>4. ASSUME NEW y \in f[h] PROVE y \in Arrays(n) /\ Quick(y, h[3], h[1], h[2], n)
      <3> HIDE DEF Behind, W, P
      <3> QED
        BY <1>5, <2>3
    <2>5. Quick(x, Split(p, c).v, p[1], Split(p, c).l - 1, n)
      <3> HIDE DEF Split
      <3> QED
        BY <2>2
    <2> SUFFICES ASSUME NEW y \in f[h] PROVE y \in Arrays(n) /\ Quick(y, p[3], p[1], p[2], n)
      BY <2>2
    <2>6. y \in Arrays(n) /\ Quick(y, x, Split(p, c).l + 1, p[2], n)
      <3> HIDE DEF Split
      <3> QED
        BY <2>4
    <2>7. p[1] \in Nat /\ p[2] \in Nat /\ p[1] < p[2] /\ p[2] < n /\ p[3] \in Arrays(n) /\ c \in p[1]..p[2]
      BY <1>2, <1>6
    <2> HIDE DEF P, W, deep, h, b, Behind, Before
    <2> QED
      BY <2>5, <2>6, <2>7, PartsSort
  <1>7. ASSUME NEW p \in P, NEW f, \A q \in P : deep[q] < deep[p] => f[q] \in W[q]
        PROVE  Body(p, f) \in W[p]
    <2>0. W[p] = SUBSET {x \in Arrays(n) : Quick(x, p[3], p[1], p[2], n)}
      OBVIOUS
    <2>1. CASE p[1] >= p[2]
      <3>1. Body(p, f) = {p[3]}
        BY <2>1
      <3>2. Ascends(p[3], p[1], p[2])
        <4>1. \A i \in p[1]..p[2] : i \in Index(n) /\ \A j \in p[1]..p[2] : i = j
          BY <1>2, <2>1 DEF Index
        <4>2. \A i \in Index(n) : p[3][i] \in Nat
          BY <1>2, ArrayIs, ArrayOfNats
        <4> QED
          BY <4>1, <4>2 DEF Ascends
      <3>3. Quick(p[3], p[3], p[1], p[2], n)
        BY <1>2, <3>2, MovedIs DEF Quick
      <3> QED
        BY <1>2, <2>0, <3>1, <3>3
    <2>2. CASE ~(p[1] >= p[2])
      <3>1. p[1] < p[2] /\ Body(p, f) = UNION {Some(p, f, c) : c \in p[1]..p[2]}
        BY <1>2, <2>2
      <3>2. ASSUME NEW y \in Body(p, f) PROVE y \in Arrays(n) /\ Quick(y, p[3], p[1], p[2], n)
        <4>1. PICK c \in p[1]..p[2] : y \in Some(p, f, c)
          BY <3>1
        <4>2. PICK x \in f[Before(p, c)] : y \in f[Behind(p, c, x)]
          BY <4>1
        <4> HIDE DEF Before, Behind, deep, W, P, Body
        <4> QED
          BY <1>6, <1>7, <3>1, <4>2
      <3> HIDE DEF Body
      <3> QED
        BY <2>0, <3>2
    <2> QED
      BY <2>1, <2>2
  <1>8. \E f \in [P -> V] : f = [p \in P |-> step[p][f]]
    <2>1. deep \in [P -> Nat] /\ \A p \in P : deep[p] < n
      BY <1>2
    <2>2. f0 \in [P -> V] /\ \A p \in P : W[p] \subseteq V
      OBVIOUS
    <2>3. \A p \in P : \A f \in [P -> V] : step[p][f] = Body(p, f)
      OBVIOUS
    <2> HIDE DEF step
    <2>4. ASSUME NEW p \in P, NEW f \in [P -> V], \A q \in P : deep[q] < deep[p] => f[q] \in W[q]
          PROVE  step[p][f] \in W[p]
      <3> HIDE DEF W, deep, Body, P
      <3> QED
        BY <1>7, <2>3, <2>4
    <2>5. ASSUME NEW p \in P, NEW f \in [P -> V], NEW h \in [P -> V],
                 \A q \in P : deep[q] < deep[p] => f[q] \in W[q] /\ f[q] = h[q]
          PROVE  step[p][f] = step[p][h]
      <3>1. Body(p, f) = Body(p, h)
        <4>1. CASE p[1] >= p[2]
          BY <4>1
        <4>2. CASE ~(p[1] >= p[2])
          <5>1. p[1] < p[2]
            BY <1>2, <4>2
          <5>2. ASSUME NEW c \in p[1]..p[2] PROVE Some(p, f, c) = Some(p, h, c)
            <6> HIDE DEF Before, Behind, deep, W, P
            <6>1. f[Before(p, c)] = h[Before(p, c)]
              BY <1>3, <2>5, <5>1
            <6>2. \A x \in f[Before(p, c)] : f[Behind(p, c, x)] = h[Behind(p, c, x)]
              <7> TAKE x \in f[Before(p, c)]
              <7>1. x \in Arrays(n)
                BY <1>6, <2>5, <5>1
              <7> QED
                BY <1>4, <2>5, <5>1, <7>1
            <6> QED
              BY <6>1, <6>2
          <5> HIDE DEF Some
          <5>3. {Some(p, f, c) : c \in p[1]..p[2]} = {Some(p, h, c) : c \in p[1]..p[2]}
            BY <5>2
          <5> QED
            BY <5>3
        <4> QED
          BY <4>1, <4>2
      <3> HIDE DEF P, V, Body
      <3> QED
        BY <2>3, <3>1
    <2> HIDE DEF P, V, W, deep, f0, Body
    <2>6. \A p \in P : \A f \in [P -> V] :
             (\A q \in P : deep[q] < deep[p] => f[q] \in W[q]) => step[p][f] \in W[p]
      BY <2>4
    <2>7. \A p \in P : \A f, h \in [P -> V] :
             (\A q \in P : deep[q] < deep[p] => f[q] \in W[q] /\ f[q] = h[q]) => step[p][f] = step[p][h]
      BY <2>5
    <2>8. Recursive(P, V, W, f0, deep, n, step)
      BY <2>1, <2>2, <2>6, <2>7 DEF Recursive
    <2> QED
      BY <2>8, RecursionExists
  <1>9. g = [p \in P |-> Body(p, g)]
    <2>1. PICK f \in [P -> V] : f = [p \in P |-> step[p][f]]
      BY <1>8
    <2>2. f = [p \in P |-> Body(p, f)]
      <3> HIDE DEF P, V, Body
      <3> QED
        BY <2>1
    <2> HIDE DEF P, V, Body
    <2> QED
      BY <2>2, Zenon
  <1> HIDE DEF g
  <1>10. \A p \in P : g[p] = Body(p, g)
    <2> HIDE DEF P, Body
    <2> QED
      BY <1>9, Zenon
  <1> DEFINE T == {k \in Nat : \A p \in P : deep[p] < k => g[p] \in W[p]}
  <1>11. n \in T
    <2>1. deep \in [P -> Nat]
      BY <1>2
    <2>2. 0 \in T
      BY <2>1
    <2>3. ASSUME NEW k \in Nat, k \in T PROVE k + 1 \in T
      <3> SUFFICES ASSUME NEW p \in P, deep[p] < k + 1 PROVE g[p] \in W[p]
        OBVIOUS
      <3> HIDE DEF deep, W, P, Body
      <3>1. \A q \in P : deep[q] < deep[p] => deep[q] < k
        BY <2>1
      <3> QED
        BY <1>7, <1>10, <2>3, <3>1
    <2> HIDE DEF T
    <2> QED
      BY <2>2, <2>3, Induction
  <1> DEFINE p0 == <<0, n - 1, v>>
  <1>12. p0 \in P /\ p0[1] = 0 /\ p0[2] = n - 1 /\ p0[3] = v
    OBVIOUS
  <1>13. g[p0] \in W[p0]
    <2>1. deep[p0] < n
      BY <1>2, <1>12
    <2> HIDE DEF deep, W, P, p0
    <2> QED
      BY <1>11, <1>12, <2>1
  <1>14. w \in Arrays(n) /\ Quick(w, v, 0, n - 1, n)
    <2>1. w \in g[p0]
      BY <1>1
    <2> HIDE DEF W, P, p0
    <2> QED
      BY <1>5, <1>12, <1>13, <2>1
  <1> QED
    BY <1>14, ArrayOfNats DEF Quick, Moved, SortOf

\* What the menu program has made of the array it drew.
SortInv ==
    \/ original = <<>> /\ choose = 0
    \/ \E n \in Nat : /\ n >= 1 /\ original \in Arrays(n)
                      /\ choose # 0 => SortOf(nums, original, n)

LEMMA EverySort ==
    ASSUME NEW n \in Nat, n >= 1, NEW v \in Arrays(n), v = original, NEW c \in 1..7, Choose(c)
    PROVE  SortOf(nums', v, n)
  <1>1. length(v) = n /\ v \in [Index(n) -> Nat]
    BY ArrayIs, ArrayOfNats
  <1>2. CASE n < 2
    <2>1. nums' = v
      BY <1>1, <1>2 DEF Choose
    <2>2. \A i, j \in 0..(n - 1) : i = j /\ i \in Index(n)
      BY <1>2 DEF Index
    <2>3. Ascends(v, 0, n - 1)
      BY <1>1, <2>2 DEF Ascends
    <2> QED
      BY <1>1, <2>1, <2>3, Reflexive DEF SortOf
  <1>3. CASE ~(n < 2)
    <2>0. n >= 2
      BY <1>3
    <2>1. nums' \in CASE c = 1 -> {bubbleSort(v)}
                      [] c = 2 -> {bucketSort(v)}
                      [] c = 3 -> {heapSort(v)}
                      [] c = 4 -> {insertionSort(v)}
                      [] c = 5 -> {mergeSort(0, n - 1, v)}
                      [] c = 6 -> quickSort(0, n - 1, v)
                      [] c = 7 -> {selectionSort(v)}
      BY <1>1, <1>3 DEF Choose
    <2>2. \/ nums' = bubbleSort(v) \/ nums' = bucketSort(v) \/ nums' = heapSort(v)
          \/ nums' = insertionSort(v) \/ nums' = mergeSort(0, n - 1, v)
          \/ nums' \in quickSort(0, n - 1, v) \/ nums' = selectionSort(v)
      BY <2>1
    <2> QED
      BY <2>0, <2>2, BubbleSorts, BucketSorts, HeapSorts, InsertionSorts, MergeSortSorts,
         QuickSortSorts, SelectionSorts
  <1> QED
    BY <1>2, <1>3

\* Every sort of sort_impl.h leaves the array in ascending order with each value as
\* often as before: for arrays of any length and any values, whatever pivots
\* quickSort draws.
THEOREM EverySortSorts == SortInit /\ [][SortNext]_sortVars => []SortedAndSame
  <1>1. SortInit => SortInv
    BY DEF SortInit, SortInv
  <1>2. SortInv /\ [SortNext]_sortVars => SortInv'
    <2> SUFFICES ASSUME SortInv, [SortNext]_sortVars PROVE SortInv'
      OBVIOUS
    <2>1. CASE Draw
      <3>1. PICK m \in 1..MaxLength : original' \in [Index(m) -> Value]
        BY <2>1 DEF Draw, generateRandomArray
      <3>2. m \in Nat /\ m >= 1
        BY <3>1
      <3>3. choose' = 0
        BY <2>1 DEF Draw
      <3> QED
        BY <3>1, <3>2, <3>3 DEF SortInv, Arrays
    <2>2. ASSUME NEW c \in 1..7, Choose(c) PROVE SortInv'
      <3>1. original # <<>> /\ original' = original
        BY <2>2 DEF Choose
      <3>2. PICK n \in Nat : n >= 1 /\ original \in Arrays(n)
        BY <3>1 DEF SortInv
      <3>3. SortOf(nums', original, n)
        BY <2>2, <3>2, EverySort
      <3>4. SortOf(nums', original', n) /\ original' \in Arrays(n)
        BY <3>1, <3>2, <3>3
      <3> QED
        BY <3>2, <3>4 DEF SortInv
    <2>3. CASE UNCHANGED sortVars
      BY <2>3 DEF sortVars, SortInv
    <2> QED
      BY <2>1, <2>2, <2>3 DEF SortNext
  <1>3. SortInv => SortedAndSame
    <2> SUFFICES ASSUME SortInv, choose # 0
                 PROVE  /\ \A i \in 1..(length(nums) - 1) : nums[i - 1] <= nums[i]
                        /\ Same(original, nums)
      BY DEF SortedAndSame, Same
    <2>1. PICK n \in Nat : n >= 1 /\ SortOf(nums, original, n)
      BY DEF SortInv
    <2>2. length(nums) = n
      BY <2>1, ArrayIs DEF SortOf
    <2>3. ASSUME NEW i \in 1..(n - 1) PROVE nums[i - 1] <= nums[i]
      <3>1. i - 1 \in 0..(n - 1) /\ i \in 0..(n - 1) /\ i - 1 <= i
        OBVIOUS
      <3> QED
        BY <2>1, <3>1 DEF SortOf, Ascends
    <2> QED
      BY <2>1, <2>2, <2>3 DEF SortOf
  <1> QED
    BY <1>1, <1>2, <1>3, PTL

------------------------------------------------------------------------------
(* The skip list: every operation leaves one, and a search finds what is there. *)

Sorted(s) == \A i, j \in 1..Len(s) : i <= j => s[i].key <= s[j].key

Distinct(s) == \A i, j \in 1..Len(s) : s[i].id = s[j].id => i = j

\* The nodes of u are on s as well, in the same order.
Above(u, s) ==
    /\ \A i \in 1..Len(u) : \E j \in 1..Len(s) : s[j] = u[i]
    /\ \A i, i2 \in 1..Len(u), j, j2 \in 1..Len(s) :
          s[j] = u[i] /\ s[j2] = u[i2] /\ i < i2 => j < j2

Shape(all) ==
    /\ all \in Seq(Seq(Node)) /\ Len(all) >= 1
    /\ \A l \in 1..Len(all) : Sorted(all[l]) /\ Distinct(all[l])
    /\ \A l \in 2..Len(all) : all[l] # <<>> /\ Above(all[l], all[l - 1])

SkipInv == Shape(levels) /\ size = Len(levels[1])

\* j is the last position of s whose key is at most bound.
IsLast(s, j, bound) ==
    /\ j \in 0..Len(s)
    /\ \A k \in 1..j : s[k].key <= bound
    /\ \A k \in (j + 1)..Len(s) : s[k].key > bound

\* Where position k goes when something is inserted behind position i.
Moves(k, i) == IF k <= i THEN k ELSE k + 1

\* t is s with p behind position i.
Inserted(t, s, i, p) ==
    /\ t \in Seq(Node) /\ Len(t) = Len(s) + 1 /\ t[i + 1] = p
    /\ \A k \in 1..Len(s) : Moves(k, i) \in 1..Len(t) /\ t[Moves(k, i)] = s[k]
    /\ \A j \in 1..Len(t) : j = i + 1 \/ \E k \in 1..Len(s) : j = Moves(k, i)

\* t is s without position i.
Removed(t, s, i) ==
    /\ t \in Seq(Node) /\ Len(t) = Len(s) - 1
    /\ \A j \in 1..Len(t) : Moves(j, i - 1) \in 1..Len(s) /\ t[j] = s[Moves(j, i - 1)]
    /\ \A k \in 1..Len(s) : k = i \/ \E j \in 1..Len(t) : k = Moves(j, i - 1)

LEMMA NodeIs == \A p \in Node : p.key \in Int /\ p.key \in Key /\ p.id \in Int /\ p.key > INT_MIN
  <1> TAKE p \in Node
  <1>1. p.key \in Key /\ p.id \in 1..MaxSize
    BY DEF Node
  <1>2. p.id \in Int
    BY <1>1, BoundAssumption
  <1>3. p.key \in Int /\ p.key > INT_MIN
    BY <1>1, KeyAssumption
  <1> QED
    BY <1>1, <1>2, <1>3

LEMMA LevelIs ==
    ASSUME NEW s \in Seq(Node)
    PROVE  Len(s) \in Nat /\ DOMAIN s = 1..Len(s)
           /\ \A i \in 1..Len(s) : s[i] \in Node /\ s[i].key \in Int /\ s[i].key \in Key /\ s[i].id \in Int
  <1>1. Len(s) \in Nat /\ DOMAIN s = 1..Len(s)
    BY LenProperties
  <1>2. \A i \in 1..Len(s) : s[i] \in Node
    BY ElementOfSeq
  <1> QED
    BY <1>1, <1>2, NodeIs

LEMMA ConcatIs ==
    ASSUME NEW a \in Seq(Node), NEW b \in Seq(Node), NEW m, NEW n, Len(a) = m, Len(b) = n
    PROVE  /\ a \o b \in Seq(Node) /\ Len(a \o b) = m + n
           /\ \A k \in 1..(m + n) : (a \o b)[k] = IF k <= m THEN a[k] ELSE b[k - m]
  <1>1. Len(a) + Len(b) = m + n
    OBVIOUS
  <1>2. /\ a \o b \in Seq(Node) /\ Len(a \o b) = Len(a) + Len(b)
        /\ \A k \in 1..(Len(a) + Len(b)) : (a \o b)[k] = IF k <= Len(a) THEN a[k] ELSE b[k - Len(a)]
    BY ConcatProperties
  <1> QED
    BY <1>1, <1>2

LEMMA InsertIs ==
    ASSUME NEW s \in Seq(Node), NEW i \in 0..Len(s), NEW p \in Node
    PROVE  Inserted(bindNewNode(s, i, p), s, i, p)
  <1> DEFINE n == Len(s)  t == bindNewNode(s, i, p)
             a == SubSeq(s, 1, i)  b == SubSeq(s, i + 1, n)
  <1>1. n \in Nat /\ i \in Nat /\ i <= n /\ (i + 1) - 1 = i
    BY LevelIs
  <1>2. t = a \o <<p>> \o b
    BY <1>1 DEF bindNewNode, InsertAt
  <1>3. a \in Seq(Node) /\ Len(a) = i /\ \A k \in 1..i : a[k] = s[k]
    BY <1>1, SubSeqProperties
  <1>4. b \in Seq(Node) /\ Len(b) = n - i /\ \A k \in 1..(n - i) : b[k] = s[i + k]
    BY <1>1, SubSeqProperties
  <1> HIDE DEF a, b, t, n
  <1> DEFINE c == a \o <<p>>
  <1>5. c \in Seq(Node) /\ Len(c) = i + 1 /\ c[i + 1] = p /\ \A k \in 1..i : c[k] = s[k]
    <2>1. <<p>> \in Seq(Node) /\ Len(<<p>>) = 1 /\ <<p>>[1] = p
      OBVIOUS
    <2>2. /\ c \in Seq(Node) /\ Len(c) = i + 1
          /\ \A k \in 1..(i + 1) : c[k] = IF k <= i THEN a[k] ELSE <<p>>[k - i]
      BY <1>3, <2>1, ConcatIs
    <2>3. i + 1 \in 1..(i + 1) /\ ~(i + 1 <= i) /\ (i + 1) - i = 1 /\ \A k \in 1..i : k \in 1..(i + 1) /\ k <= i
      BY <1>1
    <2> QED
      BY <1>3, <2>1, <2>2, <2>3
  <1>6. t = c \o b
    BY <1>2
  <1> HIDE DEF c
  <1>7. /\ t \in Seq(Node) /\ Len(t) = n + 1
        /\ \A k \in 1..(i + 1) : t[k] = c[k]
        /\ \A k \in (i + 2)..(n + 1) : t[k] = b[k - (i + 1)]
    <2>1. (i + 1) + (n - i) = n + 1
      BY <1>1
    <2>2. t \in Seq(Node) /\ Len(t) = n + 1 /\ \A k \in 1..(n + 1) : t[k] = IF k <= i + 1 THEN c[k] ELSE b[k - (i + 1)]
      BY <1>4, <1>5, <1>6, <2>1, ConcatIs
    <2> QED
      BY <1>1, <2>2
  <1>8. \A k \in 1..n : Moves(k, i) \in 1..(n + 1) /\ t[Moves(k, i)] = s[k]
    <2> TAKE k \in 1..n
    <2>1. CASE k <= i
      BY <1>1, <1>5, <1>7, <2>1 DEF Moves
    <2>2. CASE ~(k <= i)
      <3>1. /\ Moves(k, i) = k + 1 /\ k + 1 \in (i + 2)..(n + 1) /\ (k + 1) - (i + 1) = k - i
            /\ k - i \in 1..(n - i) /\ i + (k - i) = k
        BY <1>1, <2>2 DEF Moves
      <3> QED
        BY <1>1, <1>4, <1>7, <3>1
    <2> QED
      BY <2>1, <2>2
  <1>9. ASSUME NEW j \in 1..(n + 1) PROVE j = i + 1 \/ \E k \in 1..n : j = Moves(k, i)
    <2>1. CASE j <= i
      <3>1. j \in 1..n /\ j = Moves(j, i)
        BY <1>1, <2>1 DEF Moves
      <3> QED
        BY <3>1
    <2>2. CASE j > i + 1
      <3>1. j - 1 \in 1..n /\ j = Moves(j - 1, i)
        BY <1>1, <2>2 DEF Moves
      <3> QED
        BY <3>1
    <2> QED
      BY <1>1, <2>1, <2>2
  <1>10. t[i + 1] = p
    BY <1>1, <1>5, <1>7
  <1> QED
    BY <1>7, <1>8, <1>9, <1>10 DEF Inserted, t, n

LEMMA RemoveIs ==
    ASSUME NEW s \in Seq(Node), NEW i \in 1..Len(s)
    PROVE  Removed(RemoveAt(s, i), s, i)
  <1> DEFINE n == Len(s)  t == RemoveAt(s, i)
             a == SubSeq(s, 1, i - 1)  b == SubSeq(s, i + 1, n)
  <1>1. n \in Nat /\ i \in Nat /\ i <= n /\ 1 <= i
    BY LevelIs
  <1>2. t = a \o b
    BY DEF RemoveAt
  <1>3. a \in Seq(Node) /\ Len(a) = i - 1 /\ \A k \in 1..(i - 1) : a[k] = s[k]
    BY <1>1, SubSeqProperties
  <1>4. b \in Seq(Node) /\ Len(b) = n - i /\ \A k \in 1..(n - i) : b[k] = s[i + k]
    BY <1>1, SubSeqProperties
  <1> HIDE DEF a, b, t, n
  <1>5. t \in Seq(Node) /\ Len(t) = n - 1 /\ \A k \in 1..(n - 1) : t[k] = IF k <= i - 1 THEN a[k] ELSE b[k - (i - 1)]
    <2>1. (i - 1) + (n - i) = n - 1
      BY <1>1
    <2>2. /\ t \in Seq(Node) /\ Len(t) = (i - 1) + (n - i)
          /\ \A k \in 1..((i - 1) + (n - i)) : t[k] = IF k <= i - 1 THEN a[k] ELSE b[k - (i - 1)]
      <3> DEFINE m == i - 1  q == n - i
      <3>1. a \in Seq(Node) /\ Len(a) = m /\ b \in Seq(Node) /\ Len(b) = q
        BY <1>3, <1>4
      <3> HIDE DEF m, q
      <3>2. /\ a \o b \in Seq(Node) /\ Len(a \o b) = m + q
            /\ \A k \in 1..(m + q) : (a \o b)[k] = IF k <= m THEN a[k] ELSE b[k - m]
        BY <3>1, ConcatIs
      <3> QED
        BY <1>2, <3>2 DEF m, q
    <2> QED
      BY <2>1, <2>2
  <1>6. \A j \in 1..(n - 1) : Moves(j, i - 1) \in 1..n /\ t[j] = s[Moves(j, i - 1)]
    <2> TAKE j \in 1..(n - 1)
    <2>1. CASE j <= i - 1
      BY <1>1, <1>3, <1>5, <2>1 DEF Moves
    <2>2. CASE ~(j <= i - 1)
      <3>1. Moves(j, i - 1) = j + 1 /\ j + 1 \in 1..n /\ j - (i - 1) \in 1..(n - i) /\ i + (j - (i - 1)) = j + 1
        BY <1>1, <2>2 DEF Moves
      <3>2. t[j] = b[j - (i - 1)]
        BY <1>5, <2>2
      <3>3. b[j - (i - 1)] = s[j + 1]
        BY <1>4, <3>1
      <3> QED
        BY <3>1, <3>2, <3>3
    <2> QED
      BY <2>1, <2>2
  <1>7. ASSUME NEW k \in 1..n PROVE k = i \/ \E j \in 1..(n - 1) : k = Moves(j, i - 1)
    <2>1. CASE k < i
      <3>1. k \in 1..(n - 1) /\ k = Moves(k, i - 1)
        BY <1>1, <2>1 DEF Moves
      <3> QED
        BY <3>1
    <2>2. CASE k > i
      <3>1. k - 1 \in 1..(n - 1) /\ k = Moves(k - 1, i - 1)
        BY <1>1, <2>2 DEF Moves
      <3> QED
        BY <3>1
    <2> QED
      BY <1>1, <2>1, <2>2
  <1> QED
    BY <1>5, <1>6, <1>7 DEF Removed, t, n

LEMMA MovesIs ==
    ASSUME NEW i \in Int
    PROVE  /\ \A k \in Int : Moves(k, i) \in Int /\ Moves(k, i) # i + 1
           /\ \A k, m \in Int : k < m <=> Moves(k, i) < Moves(m, i)
           /\ \A k \in Int : /\ k <= i <=> Moves(k, i) <= i
                             /\ k > i <=> Moves(k, i) > i + 1
  BY DEF Moves

\* A node inserted behind the last whose key is not larger keeps a level a level.
LEMMA InsertKeepsLevel ==
    ASSUME NEW s \in Seq(Node), Sorted(s), Distinct(s), NEW p \in Node, NEW i, IsLast(s, i, p.key),
           \A k \in 1..Len(s) : s[k].id # p.id, NEW t, Inserted(t, s, i, p)
    PROVE  Sorted(t) /\ Distinct(t)
  <1>1. /\ i \in Int /\ i + 1 \in Int
        /\ \A k \in 1..Len(s) : s[k].key \in Int /\ k \in Int
        /\ p.key \in Int
    BY LevelIs, NodeIs DEF IsLast
  <1>2. \A k \in 1..Len(s) : k <= i => s[k].key <= p.key
    BY <1>1 DEF IsLast
  <1>3. \A k \in 1..Len(s) : k > i => s[k].key > p.key
    BY <1>1, LevelIs DEF IsLast
  <1>4. /\ t[i + 1] = p /\ \A k \in 1..Len(s) : t[Moves(k, i)] = s[k]
        /\ \A j \in 1..Len(t) : j \in Int /\ (j = i + 1 \/ \E k \in 1..Len(s) : j = Moves(k, i))
    BY DEF Inserted
  <1>5. ASSUME NEW a \in 1..Len(t), NEW b \in 1..Len(t), a <= b PROVE t[a].key <= t[b].key
    <2>1. CASE a = i + 1 /\ b = i + 1
      BY <1>1, <1>4, <2>1
    <2>2. CASE a = i + 1 /\ \E k \in 1..Len(s) : b = Moves(k, i)
      <3>1. PICK k \in 1..Len(s) : b = Moves(k, i)
        BY <2>2
      <3>2. k > i
        BY <1>1, <1>5, <2>2, <3>1, MovesIs
      <3> QED
        BY <1>1, <1>3, <1>4, <2>2, <3>1, <3>2
    <2>3. CASE b = i + 1 /\ \E k \in 1..Len(s) : a = Moves(k, i)
      <3>1. PICK k \in 1..Len(s) : a = Moves(k, i)
        BY <2>3
      <3>2. k <= i
        BY <1>1, <1>5, <2>3, <3>1, MovesIs
      <3> QED
        BY <1>1, <1>2, <1>4, <2>3, <3>1, <3>2
    <2>4. ASSUME NEW k \in 1..Len(s), a = Moves(k, i), NEW m \in 1..Len(s), b = Moves(m, i)
          PROVE  t[a].key <= t[b].key
      <3>1. k <= m
        <4>1. k \in Int /\ m \in Int /\ Moves(k, i) <= Moves(m, i)
          BY <1>1, <1>5, <2>4
        <4>2. ~(m < k)
          <5>1. (m < k <=> Moves(m, i) < Moves(k, i)) /\ Moves(m, i) \in Int /\ Moves(k, i) \in Int
            BY <1>1, <4>1, MovesIs
          <5> QED
            BY <4>1, <5>1
        <4> QED
          BY <4>1, <4>2
      <3> QED
        BY <1>4, <2>4, <3>1 DEF Sorted
    <2> QED
      BY <1>4, <2>1, <2>2, <2>3, <2>4
  <1>6. ASSUME NEW a \in 1..Len(t), NEW b \in 1..Len(t), t[a].id = t[b].id PROVE a = b
    <2>1. CASE a = i + 1 \/ b = i + 1
      <3>1. \A j \in 1..Len(t) : t[j].id = p.id => j = i + 1
        BY <1>4
      <3> QED
        BY <1>4, <1>6, <2>1, <3>1
    <2>2. ASSUME NEW k \in 1..Len(s), a = Moves(k, i), NEW m \in 1..Len(s), b = Moves(m, i)
          PROVE  a = b
      BY <1>4, <1>6, <2>2 DEF Distinct
    <2> QED
      BY <1>4, <2>1, <2>2
  <1> QED
    BY <1>5, <1>6 DEF Sorted, Distinct

\* On two neighbouring levels that both get the node.
LEMMA InsertBoth ==
    ASSUME NEW u \in Seq(Node), NEW s \in Seq(Node), Above(u, s), NEW p \in Node,
           \A k \in 1..Len(s) : s[k].id # p.id,
           NEW i, IsLast(u, i, p.key), NEW j, IsLast(s, j, p.key),
           NEW w, Inserted(w, u, i, p), NEW t, Inserted(t, s, j, p)
    PROVE  Above(w, t)
  <1>1. /\ i \in Int /\ j \in Int /\ i + 1 \in 1..Len(w) /\ j + 1 \in 1..Len(t)
        /\ \A k \in 1..Len(s) : s[k].key \in Int /\ k \in Int
        /\ \A k \in 1..Len(u) : u[k].key \in Int /\ k \in Int
        /\ p.key \in Int
    BY LevelIs, NodeIs DEF IsLast, Inserted
  <1>2. /\ \A k \in 1..Len(s) : (k <= j => s[k].key <= p.key) /\ (k > j => s[k].key > p.key)
        /\ \A k \in 1..Len(u) : (k <= i => u[k].key <= p.key) /\ (k > i => u[k].key > p.key)
    <2>1. Len(s) \in Nat /\ Len(u) \in Nat
      BY LevelIs
    <2>2. \A k \in 1..Len(s) : (k <= j => k \in 1..j) /\ (k > j => k \in (j + 1)..Len(s))
      BY <1>1, <2>1
    <2>3. \A k \in 1..Len(u) : (k <= i => k \in 1..i) /\ (k > i => k \in (i + 1)..Len(u))
      BY <1>1, <2>1
    <2> QED
      BY <2>2, <2>3 DEF IsLast
  <1>3. /\ w[i + 1] = p /\ \A k \in 1..Len(u) : w[Moves(k, i)] = u[k]
        /\ \A a \in 1..Len(w) : a = i + 1 \/ \E k \in 1..Len(u) : a = Moves(k, i)
        /\ t[j + 1] = p /\ \A k \in 1..Len(s) : t[Moves(k, j)] = s[k] /\ Moves(k, j) \in 1..Len(t)
        /\ \A b \in 1..Len(t) : b = j + 1 \/ \E k \in 1..Len(s) : b = Moves(k, j)
    BY DEF Inserted
  <1>4. \A k \in 1..Len(u) : \E m \in 1..Len(s) : s[m] = u[k]
    BY DEF Above
  <1>5. ASSUME NEW a \in 1..Len(w) PROVE \E b \in 1..Len(t) : t[b] = w[a]
    <2>1. CASE a = i + 1
      BY <1>1, <1>3, <2>1
    <2>2. ASSUME NEW k \in 1..Len(u), a = Moves(k, i) PROVE \E b \in 1..Len(t) : t[b] = w[a]
      <3>1. PICK m \in 1..Len(s) : s[m] = u[k]
        BY <1>4
      <3>2. Moves(m, j) \in 1..Len(t) /\ t[Moves(m, j)] = w[a]
        BY <1>3, <2>2, <3>1
      <3> QED
        BY <3>2
    <2>3. a = i + 1 \/ \E k \in 1..Len(u) : a = Moves(k, i)
      BY <1>3
    <2> QED
      BY <2>1, <2>2, <2>3
  <1>6. ASSUME NEW a \in 1..Len(w), NEW a2 \in 1..Len(w), NEW b \in 1..Len(t), NEW b2 \in 1..Len(t),
               t[b] = w[a], t[b2] = w[a2], a < a2
        PROVE  b < b2
    \* A position of t either is the new one or holds an old node.
    <2>1. ASSUME NEW c \in 1..Len(t), t[c] = p PROVE c = j + 1
      BY <1>3, <2>1
    <2>2. ASSUME NEW k \in 1..Len(u), NEW c \in 1..Len(t), t[c] = u[k]
          PROVE  \E m \in 1..Len(s) : c = Moves(m, j) /\ s[m] = u[k]
      <3>1. u[k] # p
        BY <1>4
      <3>2. c # j + 1
        BY <1>3, <2>2, <3>1
      <3>3. PICK m \in 1..Len(s) : c = Moves(m, j)
        BY <1>3, <3>2
      <3> QED
        BY <1>3, <2>2, <3>3
    <2>3. CASE a = i + 1
      <3>1. b = j + 1
        BY <1>3, <1>6, <2>1, <2>3
      <3>2. PICK k \in 1..Len(u) : a2 = Moves(k, i)
        BY <1>1, <1>3, <1>6, <2>3
      <3>3. k > i
        BY <1>1, <1>6, <2>3, <3>2, MovesIs
      <3>4. PICK m \in 1..Len(s) : b2 = Moves(m, j) /\ s[m] = u[k]
        BY <1>3, <1>6, <2>2, <3>2
      <3>5. m > j
        <4>1. k \in Int /\ m \in Int /\ s[m].key = u[k].key /\ s[m].key \in Int
          BY <1>1, <3>4
        <4>2. u[k].key > p.key
          BY <1>2, <3>3
        <4>3. m <= j => s[m].key <= p.key
          BY <1>2
        <4>4. ~(s[m].key <= p.key)
          <5>1. p.key \in Int
            BY <1>1
          <5> QED
            BY ONLY <4>1, <4>2, <5>1
        <4>5. ~(m <= j)
          BY <4>3, <4>4
        <4> QED
          BY <1>1, <4>1, <4>5
      <3>6. b2 > j + 1
        <4>1. m \in Int /\ j \in Int
          BY <1>1
        <4>2. Moves(m, j) > j + 1
          BY <3>5, <4>1, MovesIs
        <4> QED
          BY <3>4, <4>2
      <3> QED
        BY <1>1, <3>1, <3>6
    <2>4. CASE a2 = i + 1
      <3>1. b2 = j + 1
        BY <1>3, <1>6, <2>1, <2>4
      <3>2. PICK k \in 1..Len(u) : a = Moves(k, i)
        BY <1>1, <1>3, <1>6, <2>4
      <3>3. k <= i
        <4>1. k \in Int /\ Moves(k, i) < i + 1 /\ Moves(k, i) \in Int
          BY <1>1, <1>6, <2>4, <3>2, MovesIs
        <4> QED
          BY <1>1, <4>1, MovesIs
      <3>4. PICK m \in 1..Len(s) : b = Moves(m, j) /\ s[m] = u[k]
        BY <1>3, <1>6, <2>2, <3>2
      <3>5. m <= j
        <4>1. k \in Int /\ m \in Int /\ s[m].key = u[k].key /\ s[m].key \in Int
          BY <1>1, <3>4
        <4>2. s[m].key <= p.key
          BY <1>2, <3>3, <4>1
        <4>3. m > j => s[m].key > p.key
          BY <1>2
        <4>4. ~(s[m].key > p.key)
          <5>1. p.key \in Int
            BY <1>1
          <5> QED
            BY ONLY <4>1, <4>2, <5>1
        <4>5. ~(m > j)
          BY <4>3, <4>4
        <4> QED
          BY <1>1, <4>1, <4>5
      <3>6. b <= j
        BY <1>1, <3>4, <3>5, MovesIs
      <3> QED
        BY <1>1, <3>1, <3>6
    <2>5. ASSUME NEW k \in 1..Len(u), a = Moves(k, i), NEW k2 \in 1..Len(u), a2 = Moves(k2, i)
          PROVE  b < b2
      <3>1. k < k2
        <4>1. k \in Int /\ k2 \in Int /\ i \in Int
          BY <1>1
        <4>2. Moves(k, i) < Moves(k2, i)
          BY <1>6, <2>5
        <4>3. k < k2 <=> Moves(k, i) < Moves(k2, i)
          BY ONLY <4>1, MovesIs, Zenon
        <4> QED
          BY <4>2, <4>3
      <3>2. PICK m \in 1..Len(s) : b = Moves(m, j) /\ s[m] = u[k]
        BY <1>3, <1>6, <2>2, <2>5
      <3>3. PICK m2 \in 1..Len(s) : b2 = Moves(m2, j) /\ s[m2] = u[k2]
        BY <1>3, <1>6, <2>2, <2>5
      <3>4. m < m2
        BY <3>1, <3>2, <3>3 DEF Above
      <3> QED
        BY <1>1, <3>2, <3>3, <3>4, MovesIs
    <2> QED
      BY <1>3, <2>3, <2>4, <2>5
  <1> QED
    BY <1>5, <1>6 DEF Above

\* On the lower of two levels only.
LEMMA InsertBelow ==
    ASSUME NEW u \in Seq(Node), NEW s \in Seq(Node), Above(u, s), NEW p \in Node,
           \A k \in 1..Len(s) : s[k].id # p.id,
           NEW j \in 0..Len(s), NEW t, Inserted(t, s, j, p)
    PROVE  Above(u, t)
  <1>1. j \in Int /\ \A k \in 1..Len(s) : k \in Int
    BY LevelIs
  <1>2. /\ t[j + 1] = p /\ \A k \in 1..Len(s) : t[Moves(k, j)] = s[k] /\ Moves(k, j) \in 1..Len(t)
        /\ \A b \in 1..Len(t) : b = j + 1 \/ \E k \in 1..Len(s) : b = Moves(k, j)
    BY DEF Inserted
  <1>3. \A k \in 1..Len(u) : \E m \in 1..Len(s) : s[m] = u[k]
    BY DEF Above
  <1>4. ASSUME NEW k \in 1..Len(u), NEW c \in 1..Len(t), t[c] = u[k]
        PROVE  \E m \in 1..Len(s) : c = Moves(m, j) /\ s[m] = u[k]
    <2>1. u[k] # p
      BY <1>3
    <2> QED
      BY <1>2, <1>4, <2>1
  <1>5. \A k \in 1..Len(u) : \E b \in 1..Len(t) : t[b] = u[k]
    BY <1>2, <1>3
  <1>6. ASSUME NEW k \in 1..Len(u), NEW k2 \in 1..Len(u), NEW b \in 1..Len(t), NEW b2 \in 1..Len(t),
               t[b] = u[k], t[b2] = u[k2], k < k2
        PROVE  b < b2
    <2>1. PICK m \in 1..Len(s) : b = Moves(m, j) /\ s[m] = u[k]
      BY <1>4, <1>6
    <2>2. PICK m2 \in 1..Len(s) : b2 = Moves(m2, j) /\ s[m2] = u[k2]
      BY <1>4, <1>6
    <2>3. m < m2
      BY <1>6, <2>1, <2>2 DEF Above
    <2> QED
      BY <1>1, <2>1, <2>2, <2>3, MovesIs
  <1> QED
    BY <1>5, <1>6 DEF Above

LEMMA RemoveKeepsLevel ==
    ASSUME NEW s \in Seq(Node), Sorted(s), Distinct(s), NEW i \in 1..Len(s), NEW t, Removed(t, s, i)
    PROVE  Sorted(t) /\ Distinct(t) /\ \A j \in 1..Len(t) : t[j].id # s[i].id
  <1>1. i \in Int /\ i - 1 \in Int /\ (i - 1) + 1 = i
    BY LevelIs
  <1>2. \A j \in 1..Len(t) : j \in Int /\ Moves(j, i - 1) \in 1..Len(s) /\ t[j] = s[Moves(j, i - 1)]
    BY DEF Removed
  <1>3. ASSUME NEW a \in 1..Len(t), NEW b \in 1..Len(t)
        PROVE  /\ a < b <=> Moves(a, i - 1) < Moves(b, i - 1)
               /\ a \in Int /\ b \in Int /\ Moves(a, i - 1) \in Int /\ Moves(b, i - 1) \in Int
               /\ Moves(a, i - 1) # i
    BY <1>1, <1>2, MovesIs
  <1>4. ASSUME NEW a \in 1..Len(t), NEW b \in 1..Len(t), a <= b PROVE t[a].key <= t[b].key
    <2>1. Moves(a, i - 1) <= Moves(b, i - 1)
      BY <1>3, <1>4
    <2> QED
      BY <1>2, <2>1 DEF Sorted
  <1>5. ASSUME NEW a \in 1..Len(t), NEW b \in 1..Len(t), t[a].id = t[b].id PROVE a = b
    <2>1. Moves(a, i - 1) = Moves(b, i - 1)
      BY <1>2, <1>5 DEF Distinct
    <2> QED
      BY <1>3, <2>1
  <1>6. ASSUME NEW a \in 1..Len(t) PROVE t[a].id # s[i].id
    BY <1>2, <1>3 DEF Distinct
  <1> QED
    BY <1>4, <1>5, <1>6 DEF Sorted, Distinct

\* From the upper of two levels.
LEMMA RemoveAbove ==
    ASSUME NEW u \in Seq(Node), NEW s \in Seq(Node), Above(u, s), NEW i \in 1..Len(u),
           NEW w, Removed(w, u, i)
    PROVE  Above(w, s)
  <1>1. i \in Int /\ i - 1 \in Int
    BY LevelIs
  <1>2. \A j \in 1..Len(w) : j \in Int /\ Moves(j, i - 1) \in 1..Len(u) /\ w[j] = u[Moves(j, i - 1)]
    <2> TAKE j \in 1..Len(w)
    <2>1. j \in Int
      OBVIOUS
    <2>2. Moves(j, i - 1) \in 1..Len(u) /\ w[j] = u[Moves(j, i - 1)]
      BY Zenon DEF Removed
    <2> QED
      BY <2>1, <2>2
  <1>3. ASSUME NEW a \in 1..Len(w), NEW a2 \in 1..Len(w), a < a2
        PROVE  Moves(a, i - 1) < Moves(a2, i - 1)
    BY <1>1, <1>2, <1>3, MovesIs
  <1>4. \A a \in 1..Len(w) : \E b \in 1..Len(s) : s[b] = w[a]
    BY <1>2 DEF Above
  <1>5. ASSUME NEW a \in 1..Len(w), NEW a2 \in 1..Len(w), NEW b \in 1..Len(s), NEW b2 \in 1..Len(s),
               s[b] = w[a], s[b2] = w[a2], a < a2
        PROVE  b < b2
    <2> DEFINE m == Moves(a, i - 1)  m2 == Moves(a2, i - 1)
    <2>1. m < m2
      BY <1>3, <1>5
    <2>2. m \in 1..Len(u) /\ m2 \in 1..Len(u) /\ w[a] = u[m] /\ w[a2] = u[m2]
      BY <1>2
    <2>3. s[b] = u[m] /\ s[b2] = u[m2]
      BY <1>5, <2>2
    <2> HIDE DEF m, m2
    <2> QED
      BY <2>1, <2>2, <2>3 DEF Above
  <1> QED
    BY <1>4, <1>5 DEF Above

\* From the lower of two levels, when the upper one does not have it.
LEMMA RemoveBelow ==
    ASSUME NEW u \in Seq(Node), NEW s \in Seq(Node), Above(u, s), NEW i \in 1..Len(s),
           \A k \in 1..Len(u) : u[k].id # s[i].id, NEW t, Removed(t, s, i)
    PROVE  Above(u, t)
  <1>1. i \in Int /\ i - 1 \in Int
    BY LevelIs
  <1>2. /\ \A j \in 1..Len(t) : j \in Int /\ Moves(j, i - 1) \in 1..Len(s) /\ t[j] = s[Moves(j, i - 1)]
        /\ \A k \in 1..Len(s) : k = i \/ \E j \in 1..Len(t) : k = Moves(j, i - 1)
    BY DEF Removed
  <1>3. ASSUME NEW a \in 1..Len(u) PROVE \E j \in 1..Len(t) : t[j] = u[a]
    <2>1. PICK k \in 1..Len(s) : s[k] = u[a]
      BY DEF Above
    <2>2. k # i
      BY <2>1
    <2>3. PICK j \in 1..Len(t) : k = Moves(j, i - 1)
      BY <1>2, <2>2
    <2> QED
      BY <1>2, <2>1, <2>3
  <1>4. ASSUME NEW a \in 1..Len(u), NEW a2 \in 1..Len(u), NEW b \in 1..Len(t), NEW b2 \in 1..Len(t),
               t[b] = u[a], t[b2] = u[a2], a < a2
        PROVE  b < b2
    <2>1. s[Moves(b, i - 1)] = u[a] /\ s[Moves(b2, i - 1)] = u[a2]
      BY <1>2, <1>4
    <2>2. Moves(b, i - 1) < Moves(b2, i - 1)
      BY <1>2, <1>4, <2>1 DEF Above
    <2> QED
      BY <1>1, <1>2, <2>2, MovesIs
  <1> QED
    BY <1>3, <1>4 DEF Above

\* A node of a level is on every level below.
LEMMA OnBottom ==
    ASSUME NEW all, Shape(all), NEW l \in 1..Len(all), NEW i \in 1..Len(all[l])
    PROVE  \E j \in 1..Len(all[1]) : all[1][j] = all[l][i]
  <1> DEFINE T == {m \in Nat : m + 1 <= Len(all) =>
                      \A k \in 1..Len(all[m + 1]) : \E j \in 1..Len(all[1]) : all[1][j] = all[m + 1][k]}
  <1>1. Len(all) \in Nat
    BY LenProperties DEF Shape
  <1>2. 0 \in T
    OBVIOUS
  <1>3. ASSUME NEW m \in Nat, m \in T PROVE m + 1 \in T
    <2> SUFFICES ASSUME (m + 1) + 1 <= Len(all), NEW k \in 1..Len(all[(m + 1) + 1])
                 PROVE  \E j \in 1..Len(all[1]) : all[1][j] = all[(m + 1) + 1][k]
      OBVIOUS
    <2>1. m + 1 <= Len(all) /\ (m + 1) + 1 \in 2..Len(all) /\ ((m + 1) + 1) - 1 = m + 1
      BY <1>1
    <2>2. PICK k2 \in 1..Len(all[m + 1]) : all[m + 1][k2] = all[(m + 1) + 1][k]
      <3>1. Above(all[(m + 1) + 1], all[m + 1])
        BY <2>1 DEF Shape
      <3> QED
        BY <3>1 DEF Above
    <2> QED
      BY <1>3, <2>1, <2>2
  <1> HIDE DEF T
  <1>4. l - 1 \in Nat /\ (l - 1) + 1 = l /\ l <= Len(all)
    BY <1>1
  <1>5. l - 1 \in T
    BY <1>2, <1>3, <1>4, Induction
  <1> QED
    BY <1>4, <1>5 DEF T

\* The level of a shape.
LEMMA ShapeIs ==
    ASSUME NEW all, Shape(all)
    PROVE  /\ Len(all) \in Nat /\ Len(all) >= 1 /\ DOMAIN all = 1..Len(all) /\ all \in Seq(Seq(Node))
           /\ \A l \in 1..Len(all) : all[l] \in Seq(Node) /\ Sorted(all[l]) /\ Distinct(all[l])
           /\ \A l \in 2..Len(all) : l - 1 \in 1..Len(all) /\ l \in 1..Len(all)
                                     /\ all[l] # <<>> /\ Above(all[l], all[l - 1])
  <1>1. all \in Seq(Seq(Node)) /\ Len(all) \in Nat /\ DOMAIN all = 1..Len(all) /\ Len(all) >= 1
    BY LenProperties DEF Shape
  <1>2. \A l \in 1..Len(all) : all[l] \in Seq(Node)
    BY <1>1, ElementOfSeq
  <1>3. \A l \in 2..Len(all) : l - 1 \in 1..Len(all) /\ l \in 1..Len(all)
    BY <1>1
  <1> QED
    BY <1>1, <1>2, <1>3 DEF Shape

\* The last position to the right whose key is at most bound.
LEMMA RightIsLast ==
    ASSUME Shape(levels), NEW l \in 1..Len(levels), NEW i \in 0..Len(levels[l]), NEW bound \in Int,
           \A k \in 1..i : levels[l][k].key <= bound
    PROVE  IsLast(levels[l], Right(l, i, bound), bound) /\ Right(l, i, bound) >= i
  <1> DEFINE s == levels[l]
             Stops(j) == /\ \A k \in (i + 1)..j : s[k].key <= bound
                         /\ j < Len(s) => s[j + 1].key > bound
             T == {j \in i..Len(s) : j < Len(s) => s[j + 1].key > bound}
             r == CHOOSE j \in i..Len(s) : Stops(j)
  <1>1. s \in Seq(Node) /\ Sorted(s) /\ Len(s) \in Nat /\ i \in 0..Len(s)
    BY ShapeIs, LenProperties
  <1>2. \A k \in 1..Len(s) : s[k].key \in Int
    BY <1>1, LevelIs
  <1>3. \A k \in 1..i : s[k].key <= bound
    OBVIOUS
  <1>4. Right(l, i, bound) = r
    BY DEF Right
  <1> HIDE DEF s
  <1>5. T \subseteq Nat /\ Len(s) \in T
    BY <1>1
  <1>6. PICK n \in T : \A m \in T : n <= m
    BY <1>5, Least
  <1>7. Stops(n)
    <2>1. n \in i..Len(s) /\ n \in Nat
      BY <1>1, <1>6
    <2>2. ASSUME NEW k \in (i + 1)..n PROVE s[k].key <= bound
      <3>1. k - 1 \in i..Len(s) /\ k - 1 < n /\ k - 1 < Len(s) /\ (k - 1) + 1 = k /\ k \in 1..Len(s)
        BY <1>1, <2>1
      <3>2. k - 1 \notin T
        BY <1>6, <2>1, <3>1
      <3>3. ~(s[k].key > bound)
        BY <3>1, <3>2
      <3> QED
        BY <1>2, <3>1, <3>3
    <2> QED
      BY <1>6, <2>2
  <1>8. r \in i..Len(s) /\ Stops(r)
    <2>1. n \in i..Len(s)
      BY <1>6
    <2> HIDE DEF Stops
    <2> QED
      BY <1>7, <2>1
  <1> HIDE DEF r
  <1>9. r \in 0..Len(s) /\ r \in Nat /\ r >= i
    BY <1>1, <1>8
  <1>10. ASSUME NEW k \in 1..r PROVE s[k].key <= bound
    <2>1. k \in 1..i \/ k \in (i + 1)..r
      BY <1>1, <1>9
    <2> QED
      BY <1>3, <1>8, <2>1
  <1>11. ASSUME NEW k \in (r + 1)..Len(s) PROVE s[k].key > bound
    <2>1. r < Len(s) /\ r + 1 \in 1..Len(s) /\ k \in 1..Len(s) /\ r + 1 <= k
      BY <1>1, <1>9
    <2>2. s[r + 1].key <= s[k].key
      BY <1>1, <2>1 DEF Sorted
    <2>3. s[r + 1].key > bound
      BY <1>8, <2>1
    <2> QED
      BY <1>2, <2>1, <2>2, <2>3
  <1>12. IsLast(s, r, bound)
    BY <1>9, <1>10, <1>11 DEF IsLast
  <1> QED
    BY <1>4, <1>9, <1>12 DEF s

\* Where the node of an id that is on the level stands.
LEMMA PositionIs ==
    ASSUME NEW s \in Seq(Node), Distinct(s), NEW i \in 1..Len(s)
    PROVE  PositionOf(s, s[i].id) = i
  <1>1. DOMAIN s = 1..Len(s)
    BY LevelIs
  <1> DEFINE j == CHOOSE k \in 1..Len(s) : s[k].id = s[i].id
  <1>2. j \in 1..Len(s) /\ s[j].id = s[i].id
    OBVIOUS
  <1>3. PositionOf(s, s[i].id) = j
    BY <1>1 DEF PositionOf
  <1> QED
    BY <1>2, <1>3 DEF Distinct

\* The same node one level below.
LEMMA DownIs ==
    ASSUME Shape(levels), NEW l \in 2..Len(levels), NEW i \in 0..Len(levels[l])
    PROVE  /\ Down(l, i) \in 0..Len(levels[l - 1])
           /\ i = 0 => Down(l, i) = 0
           /\ i # 0 => /\ i \in 1..Len(levels[l]) /\ Down(l, i) \in 1..Len(levels[l - 1])
                       /\ levels[l - 1][Down(l, i)] = levels[l][i]
  <1>1. /\ levels[l] \in Seq(Node) /\ levels[l - 1] \in Seq(Node) /\ Distinct(levels[l - 1])
        /\ Above(levels[l], levels[l - 1])
    BY ShapeIs
  <1>2. Len(levels[l]) \in Nat /\ Len(levels[l - 1]) \in Nat
    BY <1>1, LevelIs
  <1>3. CASE i = 0
    BY <1>2, <1>3 DEF Down
  <1>4. CASE i # 0
    <2>1. i \in 1..Len(levels[l])
      BY <1>2, <1>4
    <2>2. PICK j \in 1..Len(levels[l - 1]) : levels[l - 1][j] = levels[l][i]
      BY <1>1, <2>1 DEF Above
    <2>3. PositionOf(levels[l - 1], levels[l][i].id) = j
      BY <1>1, <2>2, PositionIs
    <2>4. Down(l, i) = j
      BY <1>4, <2>3 DEF Down
    <2> QED
      BY <1>2, <1>4, <2>1, <2>2, <2>4
  <1> QED
    BY <1>3, <1>4

\* From a position whose keys up to it are at most bound, down to one of the kind.
LEMMA DownKeeps ==
    ASSUME Shape(levels), NEW l \in 2..Len(levels), NEW i \in 0..Len(levels[l]), NEW bound \in Int,
           \A k \in 1..i : levels[l][k].key <= bound
    PROVE  \A k \in 1..Down(l, i) : levels[l - 1][k].key <= bound
  <1>1. levels[l - 1] \in Seq(Node) /\ Sorted(levels[l - 1])
    BY ShapeIs
  <1>2. Len(levels[l - 1]) \in Nat /\ \A k \in 1..Len(levels[l - 1]) : levels[l - 1][k].key \in Int
    BY <1>1, LevelIs
  <1>3. CASE i = 0
    BY <1>3, DownIs
  <1>4. CASE i # 0
    <2> DEFINE d == Down(l, i)
    <2>1. d \in 1..Len(levels[l - 1]) /\ levels[l - 1][d] = levels[l][i] /\ i \in 1..i
      BY <1>4, DownIs
    <2> HIDE DEF d
    <2>2. levels[l - 1][d].key <= bound
      BY <2>1
    <2>3. ASSUME NEW k \in 1..d PROVE levels[l - 1][k].key <= bound
      <3>1. k \in 1..Len(levels[l - 1]) /\ k <= d
        BY <1>2, <2>1
      <3>2. levels[l - 1][k].key <= levels[l - 1][d].key
        BY <1>1, <2>1, <3>1 DEF Sorted
      <3>3. levels[l - 1][k].key \in Int /\ levels[l - 1][d].key \in Int
        BY <1>2, <2>1, <3>1
      <3> QED
        BY <2>2, <3>2, <3>3
    <2> QED
      BY <2>3 DEF d
  <1> QED
    BY <1>3, <1>4

\* The positions of a level no key up to which is above the bound.
Behind(l, bound) == {i \in 0..Len(levels[l]) : \A k \in 1..i : levels[l][k].key <= bound}

LEMMA RightIs ==
    ASSUME Shape(levels), NEW l \in 1..Len(levels), NEW bound \in Int, NEW i \in Behind(l, bound)
    PROVE  /\ IsLast(levels[l], Right(l, i, bound), bound)
           /\ l > 1 => Down(l, Right(l, i, bound)) \in Behind(l - 1, bound)
  <1> DEFINE j == Right(l, i, bound)
  <1>1. i \in 0..Len(levels[l]) /\ \A k \in 1..i : levels[l][k].key <= bound
    BY DEF Behind
  <1>2. IsLast(levels[l], j, bound)
    BY <1>1, RightIsLast
  <1> HIDE DEF j
  <1>3. j \in 0..Len(levels[l]) /\ \A k \in 1..j : levels[l][k].key <= bound
    BY <1>2 DEF IsLast
  <1>4. ASSUME l > 1 PROVE Down(l, j) \in Behind(l - 1, bound)
    <2>1. l \in 2..Len(levels)
      BY <1>4, ShapeIs
    <2> QED
      BY <1>3, <2>1, DownIs, DownKeeps DEF Behind
  <1> QED
    BY <1>2, <1>4 DEF j

LEMMA PredecessorIsLast ==
    ASSUME Shape(levels), NEW key \in Int
    PROVE  IsLast(levels[1], Predecessor(key), key)
  <1> DEFINE n == Len(levels)
             Walk == [t \in Walks |-> [i \in Nat |->
                        LET l == LevelAt(t)  j == Right(l, i, key)
                        IN  IF l > 1 THEN Down(l, j) ELSE j]]
             Inv == [t \in 0..n |-> IF t = n THEN {j \in 0..Len(levels[1]) : IsLast(levels[1], j, key)}
                                    ELSE Behind(n - t, key)]
  <1>1. n \in Nat /\ n >= 1 /\ \A l \in 1..n : Len(levels[l]) \in Nat
    BY ShapeIs, LevelIs
  <1>2. 0 \in Inv[0]
    <2>1. 0 \in Behind(n, key)
      BY <1>1 DEF Behind
    <2>2. Inv[0] = Behind(n, key)
      BY <1>1
    <2> QED
      BY <2>1, <2>2
  <1>3. ASSUME NEW t \in 0..(n - 1), NEW i \in Inv[t] PROVE Walk[t][i] \in Inv[t + 1]
    <2> DEFINE l == LevelAt(t)
    <2>1. l = n - t /\ l \in 1..n /\ t \in Walks /\ t # n /\ t \in 0..n /\ t + 1 \in 0..n
      BY <1>1 DEF LevelAt, Walks
    <2>2. Inv[t] = Behind(l, key)
      BY <2>1
    <2>3. i \in Nat
      BY <1>1, <1>3, <2>1, <2>2 DEF Behind
    <2>4. Walk[t][i] = IF l > 1 THEN Down(l, Right(l, i, key)) ELSE Right(l, i, key)
      BY <2>1, <2>3
    <2> HIDE DEF Walk, l
    <2>5. /\ IsLast(levels[l], Right(l, i, key), key)
          /\ l > 1 => Down(l, Right(l, i, key)) \in Behind(l - 1, key)
      BY <1>3, <2>1, <2>2, RightIs
    <2>6. CASE l > 1
      <3>1. t + 1 # n /\ n - (t + 1) = l - 1
        BY <1>1, <2>1, <2>6
      <3>2. Inv[t + 1] = Behind(l - 1, key)
        BY <2>1, <3>1
      <3> QED
        BY <2>4, <2>5, <2>6, <3>2
    <2>7. CASE ~(l > 1)
      <3>1. t + 1 = n /\ l = 1
        BY <1>1, <2>1, <2>7
      <3>2. Inv[t + 1] = {j \in 0..Len(levels[1]) : IsLast(levels[1], j, key)}
        BY <2>1, <3>1
      <3> QED
        BY <2>4, <2>5, <2>7, <3>1, <3>2 DEF IsLast
    <2> QED
      BY <2>6, <2>7
  <1>4. Predecessor(key) = After(0, n, Walk)
    BY DEF Predecessor
  <1>5. Inv[n] = {j \in 0..Len(levels[1]) : IsLast(levels[1], j, key)}
    BY <1>1
  <1> HIDE DEF Walk, Inv, n
  <1>6. After(0, n, Walk) \in Inv[n]
    BY <1>1, <1>2, <1>3, AfterKeeps
  <1> QED
    BY <1>4, <1>5, <1>6

\* One level up from the last node whose key is at most the bound stands the last one.
LEMMA UpFromIsLast ==
    ASSUME Shape(levels), NEW l \in 1..(Len(levels) - 1), NEW key \in Int, NEW i, IsLast(levels[l], i, key)
    PROVE  IsLast(levels[l + 1], UpFrom(l, i), key)
  <1> DEFINE s == levels[l]  u == levels[l + 1]
             tops == {j \in 1..i : \E k \in DOMAIN u : u[k].id = s[j].id}
  <1>1. l \in 1..Len(levels) /\ l + 1 \in 2..Len(levels) /\ l + 1 \in 1..Len(levels) /\ (l + 1) - 1 = l
    BY ShapeIs
  <1>2. s \in Seq(Node) /\ u \in Seq(Node) /\ Above(u, s) /\ Distinct(s) /\ Distinct(u) /\ Sorted(s) /\ Sorted(u)
    BY <1>1, ShapeIs
  <1>3. UpFrom(l, i) = IF tops = {} THEN 0 ELSE PositionOf(u, s[Max(tops)].id)
    BY DEF UpFrom
  <1> HIDE DEF s, u
  <1>4. /\ Len(s) \in Nat /\ Len(u) \in Nat /\ DOMAIN u = 1..Len(u)
        /\ \A k \in 1..Len(s) : s[k].key \in Int
        /\ \A k \in 1..Len(u) : u[k].key \in Int
    BY <1>2, LevelIs
  <1>5. i \in 0..Len(s) /\ i \in Nat /\ \A k \in 1..Len(s) : k <= i <=> s[k].key <= key
    <2>1. i \in 0..Len(s)
      BY DEF IsLast, s
    <2>2. ASSUME NEW k \in 1..Len(s) PROVE k <= i <=> s[k].key <= key
      <3>1. k \in 1..i \/ (k \in (i + 1)..Len(s) /\ ~(k <= i))
        BY <1>4, <2>1
      <3>2. k \in 1..i => k <= i /\ s[k].key <= key
        BY <2>1 DEF IsLast, s
      <3>3. k \in (i + 1)..Len(s) => s[k].key > key
        BY DEF IsLast, s
      <3> QED
        BY <1>4, <3>1, <3>2, <3>3
    <2> QED
      BY <1>4, <2>1, <2>2
  \* A node above stands below at one place, and is at most the bound exactly up to i.
  <1>6. ASSUME NEW k \in 1..Len(u)
        PROVE  \E j \in 1..Len(s) : s[j] = u[k] /\ (j \in tops <=> u[k].key <= key)
    <2>1. PICK j \in 1..Len(s) : s[j] = u[k]
      BY <1>2 DEF Above
    <2>2. j <= i <=> u[k].key <= key
      BY <1>5, <2>1
    <2>3. j \in tops <=> j <= i
      <3>1. \E k2 \in DOMAIN u : u[k2].id = s[j].id
        BY <1>4, <2>1
      <3>2. j \in 1..i <=> j <= i
        BY <1>4, <1>5
      <3> QED
        BY <3>1, <3>2
    <2> QED
      BY <2>1, <2>2, <2>3
  <1>7. \A j \in tops : j \in 1..i /\ j \in 1..Len(s) /\ \E k \in 1..Len(u) : u[k] = s[j]
    <2> TAKE j \in tops
    <2>1. j \in 1..i /\ j \in 1..Len(s)
      BY <1>4, <1>5
    <2>2. PICK k \in 1..Len(u) : u[k].id = s[j].id
      BY <1>4
    <2>3. PICK j2 \in 1..Len(s) : s[j2] = u[k]
      BY <1>2 DEF Above
    <2>4. j2 = j
      BY <1>2, <2>1, <2>2, <2>3 DEF Distinct
    <2> QED
      BY <2>1, <2>3, <2>4
  <1>8. CASE tops = {}
    <2>1. ASSUME NEW k \in 1..Len(u) PROVE u[k].key > key
      <3> HIDE DEF tops
      <3>1. ~(u[k].key <= key)
        BY <1>6, <1>8
      <3> QED
        BY <1>4, <3>1
    <2>2. IsLast(u, 0, key)
      BY <1>4, <2>1 DEF IsLast
    <2> QED
      BY <1>3, <1>8, <2>2 DEF u
  <1>9. CASE tops # {}
    <2> DEFINE m == Max(tops)
    <2>1. m \in tops /\ \A j \in tops : j <= m
      <3>1. IsFiniteSet(1..i) /\ tops \subseteq 1..i
        BY <1>5, FS_Interval
      <3>2. IsFiniteSet(tops) /\ tops \subseteq Int
        BY <1>5, <3>1, FS_Subset
      <3> HIDE DEF tops
      <3>3. \E x \in tops : \A j \in tops : j <= x
        <4> DEFINE T == {d \in Nat : \E x \in tops : x = i - d}
        <4>1. \A x \in tops : x \in 1..i /\ i - x \in Nat /\ x = i - (i - x)
          BY <1>5, <1>7
        <4>2. T \subseteq Nat /\ T # {}
          BY <1>9, <4>1
        <4>3. PICK d \in T : \A e \in T : d <= e
          BY <4>2, Least
        <4>4. PICK x \in tops : x = i - d
          BY <4>3
        <4>5. ASSUME NEW j \in tops PROVE j <= x
          <5>1. i - j \in T
            BY <4>1
          <5>2. d \in Nat /\ d <= i - j /\ i \in Nat /\ j \in Int
            BY <1>5, <4>1, <4>3, <5>1
          <5> QED
            BY <4>4, <5>2
        <4> QED
          BY <4>4, <4>5
      <3> QED
        BY <3>3 DEF Max
    <2>2. m \in 1..Len(s) /\ m \in Int /\ s[m].key <= key
      BY <1>5, <1>7, <2>1
    <2> HIDE DEF m, tops
    <2>3. PICK k \in 1..Len(u) : u[k] = s[m]
      BY <1>7, <2>1
    <2>4. UpFrom(l, i) = k
      BY <1>2, <1>3, <1>9, <2>3, PositionIs DEF m
    <2>5. ASSUME NEW a \in 1..k PROVE u[a].key <= key
      <3>1. a \in 1..Len(u) /\ a <= k
        BY <1>4
      <3>2. u[a].key <= u[k].key
        BY <1>2, <3>1 DEF Sorted
      <3> QED
        BY <1>4, <2>2, <2>3, <3>1, <3>2
    <2>6. ASSUME NEW a \in (k + 1)..Len(u) PROVE u[a].key > key
      <3>1. a \in 1..Len(u) /\ k < a
        BY <1>4
      <3>2. PICK j \in 1..Len(s) : s[j] = u[a] /\ (j \in tops <=> u[a].key <= key)
        BY <1>6, <3>1
      <3>3. m < j
        BY <1>2, <2>2, <2>3, <3>1, <3>2 DEF Above
      <3>4. j \notin tops
        BY <2>1, <2>2, <3>3
      <3> QED
        BY <1>4, <3>1, <3>2, <3>4
    <2>7. IsLast(u, k, key)
      BY <1>4, <2>5, <2>6 DEF IsLast
    <2> QED
      BY <2>4, <2>7 DEF u
  <1> QED
    BY <1>8, <1>9

\* The place of a key on every level.
LEMMA PlacesAreLast ==
    ASSUME Shape(levels), NEW key \in Int, NEW l \in 1..Len(levels)
    PROVE  IsLast(levels[l], Places(key)[l], key)
  <1> DEFINE n == Len(levels)
             Up == [k \in Walks |-> [i \in Nat |-> UpFrom(k + 1, i)]]
             Inv == [t \in 0..(l - 1) |-> {j \in Nat : IsLast(levels[t + 1], j, key)}]
  <1>1. n \in Nat /\ l \in 1..n /\ l - 1 \in Nat /\ (l - 1) + 1 = l /\ 0 + 1 = 1 /\ 0 \in 0..(l - 1) /\ 1 \in 1..n
    BY ShapeIs
  <1>2. \A k \in 1..n : Len(levels[k]) \in Nat
    BY ShapeIs, LevelIs
  <1>3. Predecessor(key) \in Inv[0]
    <2>1. IsLast(levels[1], Predecessor(key), key)
      BY PredecessorIsLast
    <2>2. Predecessor(key) \in Nat
      BY <1>1, <1>2, <2>1 DEF IsLast
    <2>3. Inv[0] = {j \in Nat : IsLast(levels[1], j, key)}
      BY <1>1
    <2> QED
      BY <2>1, <2>2, <2>3
  <1>4. ASSUME NEW t \in 0..((l - 1) - 1), NEW i \in Inv[t] PROVE Up[t][i] \in Inv[t + 1]
    <2>1. /\ t \in Walks /\ t \in 0..(l - 1) /\ t + 1 \in 0..(l - 1)
          /\ t + 1 \in 1..(n - 1) /\ (t + 1) + 1 \in 1..n
      BY <1>1 DEF Walks
    <2>2. i \in Nat /\ IsLast(levels[t + 1], i, key)
      BY <1>4, <2>1
    <2>3. Up[t][i] = UpFrom(t + 1, i)
      BY <2>1, <2>2
    <2>4. IsLast(levels[(t + 1) + 1], UpFrom(t + 1, i), key)
      BY <2>1, <2>2, UpFromIsLast
    <2>5. UpFrom(t + 1, i) \in Nat
      BY <1>2, <2>1, <2>4 DEF IsLast
    <2>6. Inv[t + 1] = {j \in Nat : IsLast(levels[(t + 1) + 1], j, key)}
      BY <2>1
    <2> QED
      BY <2>3, <2>4, <2>5, <2>6
  <1>5. Places(key)[l] = After(Predecessor(key), l - 1, Up)
    BY DEF Places
  <1>6. Inv[l - 1] = {j \in Nat : IsLast(levels[l], j, key)}
    BY <1>1
  <1> HIDE DEF Up, Inv, n
  <1>7. After(Predecessor(key), l - 1, Up) \in Inv[l - 1]
    BY <1>1, <1>3, <1>4, AfterKeeps
  <1> QED
    BY <1>5, <1>6, <1>7

\* No node of the level has the key.
Absent(l, key) == \A i \in 1..Len(levels[l]) : levels[l][i].key # key

\* x is the place of a node of the key, and no level above has one.
Finds(x, key) ==
    /\ x.l \in 1..Len(levels) /\ x.i \in 1..Len(levels[x.l]) /\ levels[x.l][x.i].key = key
    /\ \A m \in (x.l + 1)..Len(levels) : Absent(m, key)

\* What the search has after t levels.
Searched(t, key) ==
    {x \in [l : Nat, i : Nat] :
        \/ x.l # 0 /\ Finds(x, key)
        \/ /\ x.l = 0
           /\ \A m \in (LevelAt(t) + 1)..Len(levels) : Absent(m, key)
           /\ t < Len(levels) => x.i \in Behind(LevelAt(t), key - 1)}

\* The last node whose key is less is followed by the key, or the level does not have it.
LEMMA NextIs ==
    ASSUME NEW s \in Seq(Node), Sorted(s), NEW key \in Int, NEW j, IsLast(s, j, key - 1),
           ~(j < Len(s) /\ s[j + 1].key = key)
    PROVE  \A i \in 1..Len(s) : s[i].key # key
  <1>1. Len(s) \in Nat /\ j \in 0..Len(s) /\ \A k \in 1..Len(s) : s[k].key \in Int
    BY LevelIs DEF IsLast
  <1> TAKE i \in 1..Len(s)
  <1>2. CASE i <= j
    <2>1. s[i].key <= key - 1
      BY <1>1, <1>2 DEF IsLast
    <2> QED
      BY <1>1, <2>1
  <1>3. CASE i > j
    <2>1. j < Len(s) /\ j + 1 \in 1..Len(s) /\ j + 1 <= i /\ j + 1 \in (j + 1)..Len(s)
      BY <1>1, <1>3
    <2>2. s[j + 1].key > key - 1 /\ s[j + 1].key # key
      BY <2>1 DEF IsLast
    <2>3. s[j + 1].key <= s[i].key
      BY <2>1 DEF Sorted
    <2> QED
      BY <1>1, <2>1, <2>2, <2>3
  <1> QED
    BY <1>1, <1>2, <1>3

LEMMA SearchIs ==
    ASSUME Shape(levels), NEW key \in Int
    PROVE  /\ searchNode(key) \in [l : Nat, i : Nat]
           /\ searchNode(key).l # 0 => Finds(searchNode(key), key)
           /\ searchNode(key).l = 0 => \A m \in 1..Len(levels) : Absent(m, key)
  <1> DEFINE n == Len(levels)
             Walk == [t \in Walks |-> [x \in [l : Nat, i : Nat] |->
                        LET l == LevelAt(t)  j == Right(l, x.i, key - 1)
                        IN  IF x.l # 0 THEN x
                            ELSE IF j < Len(levels[l]) /\ levels[l][j + 1].key = key
                            THEN [l |-> l, i |-> j + 1]
                            ELSE [l |-> 0, i |-> IF l > 1 THEN Down(l, j) ELSE j]]]
             Inv == [t \in 0..n |-> Searched(t, key)]
             x0 == [l |-> 0, i |-> 0]
  <1>1. n \in Nat /\ n >= 1 /\ key - 1 \in Int /\ \A l \in 1..n : Len(levels[l]) \in Nat
    BY ShapeIs, LevelIs
  <1>2. x0 \in Inv[0]
    <2>1. LevelAt(0) = n /\ \A m \in (n + 1)..n : FALSE
      BY <1>1 DEF LevelAt
    <2>2. 0 \in Behind(n, key - 1)
      BY <1>1 DEF Behind
    <2>3. x0 \in [l : Nat, i : Nat] /\ x0.l = 0 /\ x0.i = 0
      OBVIOUS
    <2> HIDE DEF x0
    <2>4. x0 \in Searched(0, key)
      BY <2>1, <2>2, <2>3 DEF Searched
    <2> QED
      BY <1>1, <2>4
  <1>3. ASSUME NEW t \in 0..(n - 1), NEW x \in Inv[t] PROVE Walk[t][x] \in Inv[t + 1]
    <2> DEFINE l == LevelAt(t)  j == Right(l, x.i, key - 1)
    <2>1. /\ l = n - t /\ l \in 1..n /\ t \in Walks /\ t \in 0..n /\ t + 1 \in 0..n /\ t < n
          /\ LevelAt(t + 1) = l - 1 /\ (t + 1 < n <=> l > 1) /\ l \in Nat /\ l # 0
      BY <1>1 DEF LevelAt, Walks
    <2>2. x \in Searched(t, key) /\ Inv[t + 1] = Searched(t + 1, key)
      BY <2>1
    <2>3. x \in [l : Nat, i : Nat]
      BY <2>2 DEF Searched
    <2>4. Walk[t][x] = IF x.l # 0 THEN x
                       ELSE IF j < Len(levels[l]) /\ levels[l][j + 1].key = key
                       THEN [l |-> l, i |-> j + 1]
                       ELSE [l |-> 0, i |-> IF l > 1 THEN Down(l, j) ELSE j]
      BY <2>1, <2>3
    <2> HIDE DEF Walk, Inv, l, j
    <2>5. CASE x.l # 0
      <3>1. Finds(x, key)
        BY <2>2, <2>5 DEF Searched
      <3>2. x \in Searched(t + 1, key)
        BY <2>3, <2>5, <3>1 DEF Searched
      <3> QED
        BY <2>2, <2>4, <2>5, <3>2
    <2>6. CASE x.l = 0
      <3>1. /\ \A m \in (l + 1)..n : Absent(m, key)
            /\ x.i \in Behind(l, key - 1)
        BY <2>1, <2>2, <2>6 DEF Searched, l
      <3>2. /\ IsLast(levels[l], j, key - 1)
            /\ l > 1 => Down(l, j) \in Behind(l - 1, key - 1)
        BY <1>1, <2>1, <3>1, RightIs DEF j
      <3>3. levels[l] \in Seq(Node) /\ Sorted(levels[l])
        BY <2>1, ShapeIs
      <3>4. j \in 0..Len(levels[l]) /\ j \in Nat /\ Len(levels[l]) \in Nat
        BY <1>1, <2>1, <3>2 DEF IsLast
      <3>5. CASE j < Len(levels[l]) /\ levels[l][j + 1].key = key
        <4> DEFINE y == [l |-> l, i |-> j + 1]
        <4>1. y \in [l : Nat, i : Nat] /\ y.l = l /\ y.i = j + 1
          BY <2>1, <3>4
        <4>2. j + 1 \in 1..Len(levels[l])
          BY <3>4, <3>5
        <4>3. Walk[t][x] = y
          BY <2>4, <2>6, <3>5
        <4> HIDE DEF y
        <4>4. Finds(y, key)
          BY <2>1, <3>1, <3>5, <4>1, <4>2 DEF Finds
        <4>5. y \in Searched(t + 1, key)
          BY <2>1, <4>1, <4>4 DEF Searched
        <4> QED
          BY <2>2, <4>3, <4>5
      <3>6. CASE ~(j < Len(levels[l]) /\ levels[l][j + 1].key = key)
        <4> DEFINE y == [l |-> 0, i |-> IF l > 1 THEN Down(l, j) ELSE j]
        <4>1. Absent(l, key)
          BY <3>2, <3>3, <3>6, NextIs DEF Absent
        <4>2. \A m \in (LevelAt(t + 1) + 1)..n : Absent(m, key)
          <5>1. \A m \in ((l - 1) + 1)..n : m = l \/ m \in (l + 1)..n
            BY <1>1, <2>1
          <5> QED
            BY <2>1, <3>1, <4>1, <5>1
        <4>3. Walk[t][x] = y
          BY <2>4, <2>6, <3>6
        <4>4. y.l = 0 /\ y.i = IF l > 1 THEN Down(l, j) ELSE j
          OBVIOUS
        <4>5. l > 1 => Down(l, j) \in Behind(l - 1, key - 1) /\ Down(l, j) \in Nat
          <5> SUFFICES ASSUME l > 1 PROVE Down(l, j) \in Behind(l - 1, key - 1) /\ Down(l, j) \in Nat
            OBVIOUS
          <5>1. l - 1 \in 1..n
            BY <1>1, <2>1
          <5>2. Len(levels[l - 1]) \in Nat
            BY <1>1, <5>1
          <5> QED
            BY <3>2, <5>2 DEF Behind
        <4>6. y \in [l : Nat, i : Nat]
          BY <3>4, <4>5
        <4> HIDE DEF y
        <4>7. t + 1 < n => y.i \in Behind(LevelAt(t + 1), key - 1)
          BY <2>1, <4>4, <4>5
        <4>8. y \in Searched(t + 1, key)
          BY <4>2, <4>4, <4>6, <4>7 DEF Searched
        <4> QED
          BY <2>2, <4>3, <4>8
      <3> QED
        BY <3>5, <3>6
    <2> QED
      BY <2>5, <2>6
  <1>4. searchNode(key) = After(x0, n, Walk)
    BY DEF searchNode
  <1>5. Inv[n] = Searched(n, key)
    BY <1>1
  <1> HIDE DEF Walk, Inv, n, x0
  <1>6. After(x0, n, Walk) \in Inv[n]
    BY <1>1, <1>2, <1>3, AfterKeeps
  <1>7. searchNode(key) \in Searched(n, key)
    BY <1>4, <1>5, <1>6
  <1>8. LevelAt(n) + 1 = 1
    BY <1>1 DEF LevelAt, n
  <1> QED
    BY <1>7, <1>8 DEF Searched

\* A node of a level is on every level below.
LEMMA OnBelow ==
    ASSUME NEW all, Shape(all), NEW l \in 1..Len(all), NEW i \in 1..Len(all[l]), NEW m \in 1..l
    PROVE  \E j \in 1..Len(all[m]) : all[m][j] = all[l][i]
  <1> DEFINE T == {d \in Nat : d < l => \E j \in 1..Len(all[l - d]) : all[l - d][j] = all[l][i]}
  <1>1. Len(all) \in Nat /\ l \in Nat
    BY ShapeIs
  <1>2. 0 \in T
    BY <1>1
  <1>3. ASSUME NEW d \in Nat, d \in T PROVE d + 1 \in T
    <2> SUFFICES ASSUME d + 1 < l PROVE \E j \in 1..Len(all[l - (d + 1)]) : all[l - (d + 1)][j] = all[l][i]
      <3>1. d + 1 \in Nat
        OBVIOUS
      <3> QED
        BY <3>1
    <2>1. d < l /\ l - d \in 2..Len(all) /\ l - (d + 1) = (l - d) - 1
      BY <1>1
    <2>2. PICK j \in 1..Len(all[l - d]) : all[l - d][j] = all[l][i]
      BY <1>3, <2>1
    <2>3. Above(all[l - d], all[(l - d) - 1])
      BY <2>1, ShapeIs
    <2>4. PICK k \in 1..Len(all[(l - d) - 1]) : all[(l - d) - 1][k] = all[l - d][j]
      BY <2>3 DEF Above
    <2> QED
      BY <2>1, <2>2, <2>4
  <1> HIDE DEF T
  <1>4. l - m \in Nat /\ l - m < l /\ l - (l - m) = m
    BY <1>1
  <1>5. l - m \in T
    BY <1>2, <1>3, <1>4, Induction
  <1> QED
    BY <1>4, <1>5 DEF T

\* The id is on no level above l.
IdNotAbove(all, l, id) == \A m \in (l + 1)..Len(all) : \A k \in 1..Len(all[m]) : all[m][k].id # id

\* new is all without the node at position i of level l, the last one its tower had.
Deleted(new, all, l, i) ==
    /\ Shape(new) /\ Len(new) >= l - 1
    /\ \A m \in 1..(l - 1) : new[m] = all[m]
    /\ IdNotAbove(new, l - 1, all[l][i].id)
    /\ l = 1 => Removed(new[1], all[1], i)

LEMMA DelNodeIs ==
    ASSUME NEW all, Shape(all), NEW l \in 1..Len(all), NEW i \in 1..Len(all[l]),
           IdNotAbove(all, l, all[l][i].id)
    PROVE  Deleted(delNode(all, l, all[l][i].id), all, l, i)
  <1> DEFINE id == all[l][i].id  new == delNode(all, l, id)  n == Len(all)
             t == RemoveAt(all[l], i)
  <1>1. /\ n \in Nat /\ n >= 1 /\ all \in Seq(Seq(Node)) /\ l \in 1..n
        /\ \A m \in 1..n : all[m] \in Seq(Node) /\ Sorted(all[m]) /\ Distinct(all[m])
        /\ \A m \in 2..n : all[m] # <<>> /\ Above(all[m], all[m - 1])
    BY ShapeIs
  <1>2. PositionOf(all[l], id) = i
    BY <1>1, PositionIs
  <1>3. new = IF Len(all[l]) = 1 /\ l = n /\ l > 1 THEN SubSeq(all, 1, l - 1) ELSE [all EXCEPT ![l] = t]
    BY <1>2 DEF delNode
  <1>4. Removed(t, all[l], i)
    BY <1>1, RemoveIs
  <1>5. Sorted(t) /\ Distinct(t) /\ \A j \in 1..Len(t) : t[j].id # id
    BY <1>1, <1>4, RemoveKeepsLevel
  <1>6. t \in Seq(Node) /\ Len(t) = Len(all[l]) - 1
    BY <1>4 DEF Removed
  <1>7. \A m \in (l + 1)..n : \A k \in 1..Len(all[m]) : all[m][k].id # id
    BY DEF IdNotAbove
  <1>8. id = all[l][i].id
    OBVIOUS
  <1> HIDE DEF new, t, n, id
  <1>9. CASE Len(all[l]) = 1 /\ l = n /\ l > 1
    <2>1. /\ new \in Seq(Seq(Node)) /\ Len(new) = l - 1
          /\ \A m \in 1..(l - 1) : new[m] = all[m]
      <3>1. new = SubSeq(all, 1, l - 1)
        BY <1>3, <1>9
      <3>2. l - 1 \in Nat /\ l - 1 <= n /\ (l - 1) - 1 + 1 = l - 1 /\ 1 <= l - 1
        BY <1>1, <1>9
      <3>3. \A m \in 1..(l - 1) : m \in 1..n
        BY <1>1, <3>2
      <3> DEFINE m1 == l - 1
      <3>4. /\ SubSeq(all, 1, m1) \in Seq(Seq(Node))
            /\ Len(SubSeq(all, 1, m1)) = IF 1 <= m1 THEN m1 - 1 + 1 ELSE 0
            /\ \A m \in 1..(m1 - 1 + 1) : SubSeq(all, 1, m1)[m] = all[1 + m - 1]
        <4>1. 1 \in Int /\ m1 \in Int /\ \A m \in 1..m1 : all[m] \in Seq(Node)
          BY <1>1, <3>2, <3>3
        <4> HIDE DEF m1
        <4> QED
          BY ONLY <4>1, SubSeqProperties
      <3>5. \A m \in 1..(l - 1) : 1 + m - 1 = m
        BY <3>2
      <3> QED
        BY <3>1, <3>2, <3>4, <3>5
    <2>2. /\ l - 1 >= 1 /\ \A m \in 1..(l - 1) : m \in 1..n
          /\ \A m \in 2..(l - 1) : m \in 2..n /\ m - 1 \in 1..(l - 1) /\ m \in 1..(l - 1)
      BY <1>1, <1>9
    <2>3. \A m \in 1..(l - 1) : Sorted(new[m]) /\ Distinct(new[m])
      BY <1>1, <2>1, <2>2
    <2>4. \A m \in 2..(l - 1) : new[m] # <<>> /\ Above(new[m], new[m - 1])
      BY <1>1, <2>1, <2>2
    <2>5. Shape(new)
      BY <2>1, <2>2, <2>3, <2>4 DEF Shape
    <2>6. IdNotAbove(new, l - 1, id)
      <3>1. \A m \in ((l - 1) + 1)..(l - 1) : FALSE
        BY <1>1
      <3> QED
        BY <2>1, <3>1 DEF IdNotAbove
    <2> QED
      BY <1>1, <1>8, <1>9, <2>1, <2>5, <2>6 DEF Deleted, new, id
  <1>10. CASE ~(Len(all[l]) = 1 /\ l = n /\ l > 1)
    <2>1. /\ new \in Seq(Seq(Node)) /\ Len(new) = n
          /\ \A m \in 1..n : new[m] = IF m = l THEN t ELSE all[m]
      <3>1. new = [all EXCEPT ![l] = t]
        BY <1>3, <1>10
      <3> QED
        BY <1>1, <1>6, <3>1, ExceptSeq DEF n
    <2>2. \A m \in 1..n : Sorted(new[m]) /\ Distinct(new[m])
      BY <1>1, <1>5, <2>1
    <2>3. l > 1 => t # <<>>
      <3> SUFFICES ASSUME l > 1, t = <<>> PROVE FALSE
        OBVIOUS
      <3>1. Len(all[l]) = 1
        <4>1. Len(all[l]) \in Nat /\ Len(t) = 0
          BY <1>1, LevelIs
        <4> QED
          BY <1>6, <4>1
      <3>2. i = 1 /\ 1 \in 1..Len(all[l]) /\ \A j \in 1..Len(all[l]) : j = 1
        BY <3>1
      <3>3. l < n /\ l + 1 \in 2..n /\ l + 1 \in (l + 1)..n /\ (l + 1) - 1 = l /\ l + 1 \in 1..n
        <4>1. l # n
          BY <1>10, <3>1
        <4>2. l \in 1..n /\ n \in Nat
          BY <1>1
        <4> QED
          BY <4>1, <4>2
      <3>4. all[l + 1] # <<>> /\ Above(all[l + 1], all[l]) /\ all[l + 1] \in Seq(Node)
        <4>1. all[l + 1] # <<>> /\ Above(all[l + 1], all[(l + 1) - 1])
          BY <1>1, <3>3
        <4> QED
          BY <1>1, <3>3, <4>1
      <3>5. 1 \in 1..Len(all[l + 1])
        <4>1. Len(all[l + 1]) \in Nat
          BY <3>4, LevelIs
        <4>2. Len(all[l + 1]) # 0
          BY <3>4, EmptySeq
        <4> QED
          BY <4>1, <4>2
      <3>6. PICK j \in 1..Len(all[l]) : all[l][j] = all[l + 1][1]
        BY <3>4, <3>5 DEF Above
      <3>7. all[l + 1][1].id = id
        BY <1>8, <3>2, <3>6
      <3> QED
        BY <1>7, <3>3, <3>5, <3>7
    <2>4. ASSUME NEW m \in 2..n PROVE new[m] # <<>> /\ Above(new[m], new[m - 1])
      <3>1. m \in 1..n /\ m - 1 \in 1..n
        BY <1>1
      <3>2. all[m] # <<>> /\ Above(all[m], all[m - 1]) /\ all[m] \in Seq(Node) /\ all[m - 1] \in Seq(Node)
        BY <1>1, <3>1
      <3>3. CASE m = l
        <4>0. m - 1 # l /\ l > 1
          BY <1>1, <3>3
        <4>1. new[m] = t /\ new[m - 1] = all[m - 1]
          BY <2>1, <3>1, <3>3, <4>0
        <4>2. Above(t, all[m - 1])
          BY <1>4, <3>2, <3>3, RemoveAbove
        <4>3. l > 1
          BY <4>0
        <4> QED
          BY <2>3, <4>1, <4>2, <4>3
      <3>4. CASE m - 1 = l
        <4>0. m # l /\ m \in (l + 1)..n
          BY <1>1, <3>4
        <4>1. new[m] = all[m] /\ new[m - 1] = t /\ m \in (l + 1)..n
          BY <2>1, <3>1, <3>4, <4>0
        <4>2. \A k \in 1..Len(all[m]) : all[m][k].id # all[l][i].id
          BY <1>7, <1>8, <4>1
        <4>3. Above(all[m], t)
          BY <1>1, <1>4, <3>2, <3>4, <4>2, RemoveBelow
        <4> QED
          BY <3>2, <4>1, <4>3
      <3>5. CASE m # l /\ m - 1 # l
        BY <2>1, <3>1, <3>2, <3>5
      <3> QED
        BY <3>3, <3>4, <3>5
    <2>5. Shape(new)
      BY <1>1, <2>1, <2>2, <2>4 DEF Shape
    <2>6. IdNotAbove(new, l - 1, id)
      <3>1. \A m \in ((l - 1) + 1)..n : m \in 1..n /\ (m = l \/ m \in (l + 1)..n)
        BY <1>1
      <3>2. ASSUME NEW m \in ((l - 1) + 1)..n, NEW k \in 1..Len(new[m]) PROVE new[m][k].id # id
        BY <1>5, <1>7, <2>1, <3>1
      <3> QED
        BY <2>1, <3>2 DEF IdNotAbove
    <2>7. n >= l - 1 /\ \A m \in 1..(l - 1) : m \in 1..n /\ m # l
      BY <1>1
    <2>8. l = 1 => Removed(new[1], all[1], i)
      BY <1>4, <2>1, <1>1
    <2> QED
      BY <1>8, <2>1, <2>5, <2>6, <2>7, <2>8 DEF Deleted, new, id
  <1> QED
    BY <1>9, <1>10

\* What is left after t levels of a tower of height f have lost the id.
Removing(f, t, id) ==
    {all \in Seq(Seq(Node)) :
        /\ Shape(all) /\ Len(all) >= f - t
        /\ \A m \in 1..(f - t) : all[m] = levels[m]
        /\ IdNotAbove(all, f - t, id)
        /\ t = f => Len(all[1]) = Len(levels[1]) - 1}

\* The loop of remove from the level on which the key was found.
LEMMA RemoveTower ==
    ASSUME Shape(levels), NEW f \in 1..Len(levels), NEW i \in 1..Len(levels[f]),
           \A m \in (f + 1)..Len(levels) : Absent(m, levels[f][i].key),
           NEW id, id = levels[f][i].id
    PROVE  After(levels, f, [t \in 0..(f - 1) |-> [all \in Seq(Seq(Node)) |-> delNode(all, f - t, id)]])
              \in Removing(f, f, id)
  <1> DEFINE Del == [t \in 0..(f - 1) |-> [all \in Seq(Seq(Node)) |-> delNode(all, f - t, id)]]
             Inv == [t \in 0..f |-> Removing(f, t, id)]
  <1>1. f \in Nat /\ f # 0 /\ Len(levels) \in Nat /\ levels \in Seq(Seq(Node)) /\ Distinct(levels[f])
    BY ShapeIs
  <1>2. \A t \in 0..(f - 1) : \A all \in Seq(Seq(Node)) : Del[t][all] = delNode(all, f - t, id)
    OBVIOUS
  <1>3. \A t \in 0..f : Inv[t] = Removing(f, t, id)
    OBVIOUS
  <1> HIDE DEF Del, Inv
  <1>4. levels \in Inv[0]
    <2>1. IdNotAbove(levels, f, id)
      <3>1. ASSUME NEW m \in (f + 1)..Len(levels), NEW k \in 1..Len(levels[m]), levels[m][k].id = id
            PROVE  FALSE
        <4>1. m \in 1..Len(levels) /\ f \in 1..m
          BY <1>1
        <4>2. PICK j \in 1..Len(levels[f]) : levels[f][j] = levels[m][k]
          BY <4>1, OnBelow
        <4>3. j = i
          BY <1>1, <3>1, <4>2 DEF Distinct
        <4> QED
          BY <4>2, <4>3 DEF Absent
      <3> QED
        BY <3>1 DEF IdNotAbove
    <2>2. f - 0 = f /\ 0 # f /\ 0 \in 0..f /\ Len(levels) >= f
      <3>1. f \in Nat /\ f # 0 /\ Len(levels) \in Nat /\ f <= Len(levels)
        BY <1>1
      <3> QED
        BY ONLY <3>1
    <2> QED
      BY <1>1, <1>3, <2>1, <2>2 DEF Removing
  <1>5. ASSUME NEW t \in 0..(f - 1), NEW all \in Inv[t] PROVE Del[t][all] \in Inv[t + 1]
    <2> DEFINE l == f - t
    <2>1. /\ t \in 0..f /\ t + 1 \in 0..f /\ l \in 1..f /\ f - (t + 1) = l - 1 /\ (t + 1 = f => l = 1)
          /\ l \in 1..Len(levels)
      <3>1. f \in Nat /\ Len(levels) \in Nat /\ f <= Len(levels) /\ t \in 0..(f - 1)
        BY <1>1
      <3>2. /\ t \in 0..f /\ t + 1 \in 0..f /\ f - t \in 1..f /\ f - (t + 1) = (f - t) - 1
            /\ (t + 1 = f => f - t = 1)
        BY ONLY <3>1
      <3> HIDE DEF l
      <3>3. \A m \in 1..f : m \in 1..Len(levels)
        BY <3>1
      <3> QED
        BY <3>2, <3>3 DEF l
    <2>2. /\ all \in Seq(Seq(Node)) /\ Shape(all) /\ Len(all) >= l
          /\ \A m \in 1..l : all[m] = levels[m]
          /\ IdNotAbove(all, l, id)
      BY <1>3, <1>5, <2>1 DEF Removing
    <2>3. Del[t][all] = delNode(all, l, id)
      BY <1>2, <2>2
    <2> HIDE DEF l
    <2>4. l \in 1..l /\ l \in 1..Len(all) /\ \A m \in 1..(l - 1) : m \in 1..l
      <3>1. Len(all) \in Nat
        BY <2>2, ShapeIs
      <3> QED
        BY <2>1, <2>2, <3>1
    <2>5. PICK j \in 1..Len(levels[l]) : levels[l][j] = levels[f][i]
      BY <2>1, OnBelow
    <2>6. all[l] = levels[l] /\ j \in 1..Len(all[l]) /\ all[l][j].id = id
      BY <2>2, <2>4, <2>5
    <2> DEFINE new == delNode(all, l, id)
    <2>7. Deleted(new, all, l, j)
      BY <2>2, <2>4, <2>6, DelNodeIs
    <2> HIDE DEF new
    <2>8. /\ Shape(new) /\ Len(new) >= l - 1
          /\ \A m \in 1..(l - 1) : new[m] = all[m]
          /\ IdNotAbove(new, l - 1, id)
          /\ l = 1 => Removed(new[1], all[1], j)
      BY <2>6, <2>7 DEF Deleted
    <2>9. t + 1 = f => Len(new[1]) = Len(levels[1]) - 1
      BY <2>1, <2>6, <2>8 DEF Removed
    <2>10. \A m \in 1..(l - 1) : new[m] = levels[m]
      BY <2>2, <2>4, <2>8
    <2>11. new \in Seq(Seq(Node))
      BY <2>8 DEF Shape
    <2>12. new \in Removing(f, t + 1, id)
      BY <2>1, <2>8, <2>9, <2>10, <2>11 DEF Removing
    <2> QED
      BY <1>3, <2>1, <2>3, <2>12 DEF new
  <1>6. After(levels, f, Del) \in Inv[f]
    BY <1>1, <1>4, <1>5, AfterKeeps
  <1>7. Inv[f] = Removing(f, f, id)
    BY <1>1, <1>3
  <1> QED
    BY <1>6, <1>7 DEF Del

LEMMA RemoveKeeps ==
    ASSUME SkipInv, NEW key \in Key, remove(key)
    PROVE  SkipInv'
  <1>1. Shape(levels) /\ size = Len(levels[1]) /\ key \in Int
    BY KeyAssumption DEF SkipInv
  <1>2. CASE ~search(key)
    <2>1. UNCHANGED skipVars
      BY <1>2 DEF remove
    <2> QED
      BY <1>1, <2>1 DEF SkipInv, Shape, skipVars
  <1>3. CASE search(key)
    <2> DEFINE x == searchNode(key)  f == x.l  id == levels[f][x.i].id
               gone == After(levels, f, [t \in 0..(f - 1) |-> [all \in Seq(Seq(Node)) |-> delNode(all, f - t, id)]])
    <2>1. x.l # 0 /\ Finds(x, key)
      BY <1>1, <1>3, SearchIs DEF search
    <2>2. levels' = gone /\ size' = size - 1
      BY <1>3 DEF remove
    <2>3. gone \in Removing(f, f, id)
      <3>1. /\ f \in 1..Len(levels) /\ x.i \in 1..Len(levels[f])
            /\ \A m \in (f + 1)..Len(levels) : Absent(m, levels[f][x.i].key)
        BY <2>1 DEF Finds
      <3> HIDE DEF x
      <3> QED
        BY <1>1, <3>1, RemoveTower
    <2> HIDE DEF gone, x
    <2>4. Shape(gone) /\ Len(gone[1]) = Len(levels[1]) - 1
      BY <2>3 DEF Removing
    <2>5. Shape(levels') /\ size' = Len(levels'[1])
      BY <1>1, <2>2, <2>4
    <2> QED
      BY <2>5 DEF SkipInv, Shape
  <1> QED
    BY <1>2, <1>3

\* While there is room there is an id no node of the bottom level has.
LEMMA NewId ==
    ASSUME Shape(levels), Len(levels[1]) < MaxSize
    PROVE  \E n \in 1..MaxSize : \A i \in 1..Len(levels[1]) : levels[1][i].id # n
  <1> SUFFICES ASSUME \A n \in 1..MaxSize : \E i \in 1..Len(levels[1]) : levels[1][i].id = n
               PROVE  FALSE
    OBVIOUS
  <1> DEFINE m == Len(levels[1])
             S == 1..MaxSize
             T == 1..m
             f == [n \in S |-> CHOOSE i \in T : levels[1][i].id = n]
  <1>1. m \in Nat /\ MaxSize \in Nat
    <2>1. levels[1] \in Seq(Node)
      BY ShapeIs
    <2> QED
      BY <2>1, LevelIs, BoundAssumption
  <1>2. \A n \in S : f[n] \in T /\ levels[1][f[n]].id = n
    OBVIOUS
  <1>3. f \in [S -> T]
    BY <1>2
  <1>4. IsFiniteSet(S) /\ Cardinality(S) = MaxSize /\ IsFiniteSet(T) /\ Cardinality(T) = m
    <2>1. /\ IsFiniteSet(1..MaxSize) /\ Cardinality(1..MaxSize) = IF 1 > MaxSize THEN 0 ELSE MaxSize - 1 + 1
          /\ IsFiniteSet(1..m) /\ Cardinality(1..m) = IF 1 > m THEN 0 ELSE m - 1 + 1
      <3>1. 1 \in Int /\ m \in Int /\ MaxSize \in Int
        BY <1>1
      <3> HIDE DEF m
      <3> QED
        BY <3>1, FS_Interval
    <2>2. \A k \in Nat : (IF 1 > k THEN 0 ELSE k - 1 + 1) = k
      OBVIOUS
    <2> HIDE DEF m
    <2> QED
      BY <1>1, <2>1, <2>2
  <1>5. Cardinality(T) < Cardinality(S)
    BY <1>4
  <1> HIDE DEF f, S, T
  <1>6. PICK a, b \in S : a # b /\ f[a] = f[b]
    BY <1>3, <1>4, <1>5, FS_PigeonHole
  <1> QED
    BY <1>2, <1>6

\* A function on a first part of the numbers is a sequence.
LEMMA SeqIs ==
    ASSUME NEW n \in Nat, NEW S, NEW f \in [1..n -> S]
    PROVE  f \in Seq(S) /\ Len(f) = n
  OBVIOUS

\* A level that starts with the node stands above one that got it.
LEMMA AloneAbove ==
    ASSUME NEW p \in Node, NEW s, NEW k \in 1..Len(s), s[k] = p
    PROVE  /\ <<p>> \in Seq(Node) /\ <<p>> # <<>> /\ Sorted(<<p>>) /\ Distinct(<<p>>)
           /\ Above(<<p>>, s)
  <1>1. <<p>> \in Seq(Node) /\ <<p>> # <<>> /\ Len(<<p>>) = 1 /\ <<p>>[1] = p /\ \A i \in 1..1 : i = 1
    OBVIOUS
  <1>2. p.key \in Int
    BY NodeIs
  <1>3. Sorted(<<p>>) /\ Distinct(<<p>>)
    <2>1. \A i, j \in 1..1 : <<p>>[i].key <= <<p>>[j].key /\ i = j
      BY <1>1, <1>2
    <2> QED
      BY <1>1, <2>1 DEF Sorted, Distinct
  <1>4. Above(<<p>>, s)
    <2>1. \A i, i2 \in 1..1 : ~(i < i2)
      OBVIOUS
    <2>2. \A i \in 1..1 : \E j \in 1..Len(s) : s[j] = <<p>>[i]
      BY <1>1
    <2> QED
      BY <1>1, <2>1, <2>2 DEF Above
  <1> QED
    BY <1>1, <1>3, <1>4

LEMMA InsertKeeps ==
    ASSUME SkipInv, NEW key \in Key, NEW height \in 1..MaxLevel, insert(key, height)
    PROVE  SkipInv'
  <1> DEFINE n == Len(levels)
             top == Max({n, height})
             place == Places(key)
             ids == {levels[1][i].id : i \in DOMAIN levels[1]}
             p == [key |-> key, id |-> CHOOSE m \in 1..MaxSize : m \notin ids]
             new == [l \in 1..top |->
                        IF l > n THEN <<p>>
                        ELSE IF l <= height THEN bindNewNode(levels[l], place[l], p)
                        ELSE levels[l]]
  <1>1. size < MaxSize /\ levels' = new /\ size' = size + 1
    BY DEF insert
  <1>2. Shape(levels) /\ size = Len(levels[1]) /\ key \in Int
    BY KeyAssumption DEF SkipInv
  <1>3. /\ n \in Nat /\ n >= 1
        /\ \A l \in 1..n : levels[l] \in Seq(Node) /\ Sorted(levels[l]) /\ Distinct(levels[l])
        /\ \A l \in 2..n : levels[l] # <<>> /\ Above(levels[l], levels[l - 1])
    BY <1>2, ShapeIs
  <1>4. /\ top \in Nat /\ top >= n /\ top >= height /\ (top = n \/ top = height) /\ height \in Nat /\ height >= 1
    <2>1. height \in Nat /\ height >= 1
      BY BoundAssumption
    <2>2. \E x \in {n, height} : \A y \in {n, height} : x >= y
      BY <1>3, <2>1
    <2> HIDE DEF n
    <2>3. top \in {n, height} /\ \A y \in {n, height} : top >= y
      BY <2>2 DEF Max
    <2> QED
      BY <1>3, <2>1, <2>3
  <1>5. p \in Node /\ p.key = key /\ \A i \in 1..Len(levels[1]) : levels[1][i].id # p.id
    <2>1. DOMAIN levels[1] = 1..Len(levels[1])
      BY <1>3, LevelIs
    <2>2. \E m \in 1..MaxSize : m \notin ids
      <3>1. PICK m \in 1..MaxSize : \A i \in 1..Len(levels[1]) : levels[1][i].id # m
        BY <1>1, <1>2, NewId
      <3> QED
        BY <2>1, <3>1
    <2> HIDE DEF ids
    <2>3. p.id \in 1..MaxSize /\ p.id \notin ids /\ p.key = key
      BY <2>2
    <2>4. p = [key |-> key, id |-> p.id]
      OBVIOUS
    <2> HIDE DEF p
    <2> QED
      BY <2>1, <2>3, <2>4 DEF Node, ids
  <1>6. \A l \in 1..top : new[l] = IF l > n THEN <<p>>
                          ELSE IF l <= height THEN bindNewNode(levels[l], place[l], p)
                          ELSE levels[l]
    OBVIOUS
  <1>7. new = [l \in 1..top |-> new[l]]
    OBVIOUS
  <1>8. \A l \in 1..n : IsLast(levels[l], place[l], key)
    BY <1>2, PlacesAreLast
  <1> HIDE DEF new, top, p, place, ids, n
  <1>9. \A l \in 1..n : \A k \in 1..Len(levels[l]) : levels[l][k].id # p.id
    <2> TAKE l \in 1..n
    <2> TAKE k \in 1..Len(levels[l])
    <2>1. l \in 1..Len(levels)
      BY DEF n
    <2>2. PICK j \in 1..Len(levels[1]) : levels[1][j] = levels[l][k]
      BY <1>2, <2>1, OnBottom
    <2> QED
      BY <1>5, <2>2
  <1>10. ASSUME NEW l \in 1..n PROVE /\ l \in 1..top /\ l <= n /\ IsLast(levels[l], place[l], p.key)
                                     /\ place[l] \in 0..Len(levels[l])
                                     /\ l <= height => Inserted(new[l], levels[l], place[l], p)
                                     /\ l > height => new[l] = levels[l]
    <2>1. l \in 1..top /\ ~(l > n) /\ l <= n
      BY <1>3, <1>4
    <2>2. IsLast(levels[l], place[l], p.key) /\ place[l] \in 0..Len(levels[l])
      BY <1>5, <1>8 DEF IsLast
    <2>3. ASSUME l <= height PROVE Inserted(new[l], levels[l], place[l], p)
      <3>1. new[l] = bindNewNode(levels[l], place[l], p)
        BY <1>6, <2>1, <2>3
      <3>2. levels[l] \in Seq(Node)
        BY <1>3
      <3> QED
        BY <1>5, <2>2, <3>1, <3>2, InsertIs
    <2>4. ASSUME l > height PROVE new[l] = levels[l]
      <3>1. ~(l <= height)
        BY <1>4, <2>4
      <3> QED
        BY <1>6, <2>1, <3>1
    <2> QED
      BY <2>1, <2>2, <2>3, <2>4
  <1>11. ASSUME NEW l \in 1..top PROVE new[l] \in Seq(Node) /\ Sorted(new[l]) /\ Distinct(new[l])
    <2>1. CASE l > n
      <3>1. new[l] = <<p>>
        BY <1>6, <2>1
      <3>2. <<p>> \in Seq(Node) /\ 1 \in 1..Len(<<p>>) /\ <<p>>[1] = p
        BY <1>5
      <3> QED
        BY <1>5, <3>1, <3>2, AloneAbove
    <2>2. CASE ~(l > n)
      <3>1. l \in 1..n
        BY <1>3, <1>4, <2>2
      <3>2. CASE l <= height
        <4>1. Inserted(new[l], levels[l], place[l], p) /\ IsLast(levels[l], place[l], p.key)
          BY <1>10, <3>1, <3>2
        <4>2. levels[l] \in Seq(Node) /\ Sorted(levels[l]) /\ Distinct(levels[l])
          BY <1>3, <3>1
        <4>3. \A k \in 1..Len(levels[l]) : levels[l][k].id # p.id
          BY <1>9, <3>1
        <4>4. Sorted(new[l]) /\ Distinct(new[l])
          BY <1>5, <4>1, <4>2, <4>3, InsertKeepsLevel
        <4> QED
          BY <4>1, <4>4 DEF Inserted
      <3>3. CASE l > height
        BY <1>3, <1>10, <3>1, <3>3
      <3> QED
        BY <1>4, <3>1, <3>2, <3>3
    <2> QED
      BY <2>1, <2>2
  <1>12. ASSUME NEW l \in 2..top PROVE new[l] # <<>> /\ Above(new[l], new[l - 1])
    <2>1. l \in 1..top /\ l - 1 \in 1..top /\ l - 1 \in Nat /\ l \in Nat
      BY <1>4
    <2>2. CASE l > n
      <3>1. new[l] = <<p>>
        BY <1>6, <2>1, <2>2
      <3>2. \E k \in 1..Len(new[l - 1]) : new[l - 1][k] = p
        <4>1. CASE l - 1 > n
          <5>1. new[l - 1] = <<p>>
            BY <1>6, <2>1, <4>1
          <5>2. 1 \in 1..Len(<<p>>) /\ <<p>>[1] = p
            OBVIOUS
          <5> QED
            BY <5>1, <5>2
        <4>2. CASE ~(l - 1 > n)
          <5>1. l - 1 \in 1..n /\ l - 1 <= height
            BY <1>3, <1>4, <2>1, <2>2, <4>2
          <5>2. Inserted(new[l - 1], levels[l - 1], place[l - 1], p) /\ place[l - 1] \in 0..Len(levels[l - 1])
            BY <1>10, <5>1
          <5>3. Len(levels[l - 1]) \in Nat
            BY <1>3, <5>1, LevelIs
          <5>4. place[l - 1] + 1 \in 1..(Len(levels[l - 1]) + 1)
            BY <5>2, <5>3
          <5> QED
            BY <5>2, <5>4 DEF Inserted
        <4> QED
          BY <4>1, <4>2
      <3>3. PICK k \in 1..Len(new[l - 1]) : new[l - 1][k] = p
        BY <3>2
      <3> QED
        BY <1>5, <3>1, <3>3, AloneAbove
    <2>3. CASE ~(l > n)
      <3>1. l \in 2..n /\ l \in 1..n /\ l - 1 \in 1..n
        BY <1>3, <2>1, <2>3
      <3>2. /\ levels[l] # <<>> /\ Above(levels[l], levels[l - 1])
            /\ levels[l] \in Seq(Node) /\ levels[l - 1] \in Seq(Node)
            /\ \A k \in 1..Len(levels[l - 1]) : levels[l - 1][k].id # p.id
        BY <1>3, <1>9, <3>1
      <3>3. CASE l <= height
        <4>1. Inserted(new[l], levels[l], place[l], p) /\ IsLast(levels[l], place[l], p.key)
          BY <1>10, <3>1, <3>3
        <4>2. l - 1 <= height
          BY <1>4, <2>1, <3>3
        <4>3. Inserted(new[l - 1], levels[l - 1], place[l - 1], p) /\ IsLast(levels[l - 1], place[l - 1], p.key)
          BY <1>10, <3>1, <4>2
        <4>4. Above(new[l], new[l - 1])
          BY <1>5, <3>2, <4>1, <4>3, InsertBoth
        <4>5. new[l] # <<>>
          <5>1. Len(new[l]) = Len(levels[l]) + 1 /\ Len(levels[l]) \in Nat
            BY <3>2, <4>1, LevelIs DEF Inserted
          <5>2. Len(<<>>) = 0
            OBVIOUS
          <5> QED
            BY <5>1, <5>2
        <4> QED
          BY <4>4, <4>5
      <3>4. CASE l > height /\ l - 1 <= height
        <4>1. new[l] = levels[l]
          BY <1>10, <3>1, <3>4
        <4>2. Inserted(new[l - 1], levels[l - 1], place[l - 1], p) /\ place[l - 1] \in 0..Len(levels[l - 1])
          BY <1>10, <3>1, <3>4
        <4>3. Above(levels[l], new[l - 1])
          BY <1>5, <3>2, <4>2, InsertBelow
        <4> QED
          BY <3>2, <4>1, <4>3
      <3>5. CASE l > height /\ l - 1 > height
        <4>1. new[l] = levels[l] /\ new[l - 1] = levels[l - 1]
          BY <1>10, <3>1, <3>5
        <4> QED
          BY <3>2, <4>1
      <3> QED
        BY <1>4, <2>1, <3>3, <3>4, <3>5
    <2> QED
      BY <2>2, <2>3
  <1>13. new \in Seq(Seq(Node)) /\ Len(new) = top
    <2>1. new \in [1..top -> Seq(Node)]
      BY <1>7, <1>11
    <2> QED
      BY <1>4, <2>1, SeqIs
  <1>14. Shape(new)
    BY <1>3, <1>4, <1>11, <1>12, <1>13 DEF Shape
  <1>15. Len(new[1]) = Len(levels[1]) + 1
    <2>1. 1 \in 1..n /\ 1 <= height
      BY <1>3, <1>4
    <2>2. Inserted(new[1], levels[1], place[1], p)
      BY <1>10, <2>1
    <2> QED
      BY <2>2 DEF Inserted
  <1>16. Shape(levels') /\ size' = Len(levels'[1])
    BY <1>1, <1>2, <1>14, <1>15
  <1> QED
    BY <1>16 DEF SkipInv, Shape

\* A list of this shape has what SearchFindsWhatIsThere says.
LEMMA SkipInvSuffices == SkipInv => SearchFindsWhatIsThere
  <1> SUFFICES ASSUME SkipInv PROVE SearchFindsWhatIsThere
    OBVIOUS
  <1>1. Shape(levels) /\ size = Len(levels[1])
    BY DEF SkipInv
  <1>2. /\ Len(levels) \in Nat /\ DOMAIN levels = 1..Len(levels)
        /\ \A l \in 1..Len(levels) : levels[l] \in Seq(Node) /\ Sorted(levels[l])
        /\ \A l \in 2..Len(levels) : levels[l] # <<>> /\ Above(levels[l], levels[l - 1])
    BY <1>1, ShapeIs
  <1>3. ASSUME NEW l \in 1..Len(levels), NEW i \in 2..Len(levels[l])
        PROVE  levels[l][i - 1].key <= levels[l][i].key
    <2>1. Len(levels[l]) \in Nat
      BY <1>2, LevelIs
    <2>2. i - 1 \in 1..Len(levels[l]) /\ i \in 1..Len(levels[l]) /\ i - 1 <= i
      BY <2>1
    <2> QED
      BY <1>2, <2>2 DEF Sorted
  <1>4. ASSUME NEW l \in 1..Len(levels), l > 1
        PROVE  levels[l] # <<>> /\ ToSet(levels[l]) \subseteq ToSet(levels[l - 1])
    <2>1. l \in 2..Len(levels) /\ l - 1 \in 1..Len(levels)
      BY <1>2, <1>4
    <2>2. levels[l] # <<>> /\ Above(levels[l], levels[l - 1])
      BY <1>2, <2>1
    <2>3. DOMAIN levels[l] = 1..Len(levels[l]) /\ DOMAIN levels[l - 1] = 1..Len(levels[l - 1])
      BY <1>2, <2>1, LevelIs
    <2>4. ToSet(levels[l]) \subseteq ToSet(levels[l - 1])
      BY <2>2, <2>3 DEF Above, ToSet
    <2> QED
      BY <2>2, <2>4
  <1>5. ASSUME NEW key \in Key PROVE search(key) <=> \E i \in 1..size : levels[1][i].key = key
    <2>0. key \in Int
      BY KeyAssumption
    <2>1. CASE searchNode(key).l = 0
      <3>1. Absent(1, key)
        <4>1. 1 \in 1..Len(levels)
          BY <1>1, ShapeIs
        <4> QED
          BY <1>1, <2>0, <2>1, <4>1, SearchIs
      <3> QED
        BY <1>1, <2>1, <3>1 DEF search, Absent
    <2>2. CASE searchNode(key).l # 0
      <3> DEFINE x == searchNode(key)
      <3>1. x.l \in 1..Len(levels) /\ x.i \in 1..Len(levels[x.l]) /\ levels[x.l][x.i].key = key
        BY <1>1, <2>0, <2>2, SearchIs DEF Finds
      <3> HIDE DEF x
      <3>2. PICK j \in 1..Len(levels[1]) : levels[1][j] = levels[x.l][x.i]
        BY <1>1, <3>1, OnBottom
      <3> QED
        BY <1>1, <2>2, <3>1, <3>2 DEF search
    <2> QED
      BY <2>1, <2>2
  <1> QED
    BY <1>1, <1>2, <1>3, <1>4, <1>5 DEF SearchFindsWhatIsThere

\* After any sequence of insertions, each with a tower of any height, and removals the
\* skip list is one again, and search finds exactly the keys on its bottom level.
THEOREM SearchIsRight == SkipInit /\ [][SkipNext]_skipVars => []SearchFindsWhatIsThere
  <1>1. SkipInit => SkipInv
    <2> SUFFICES ASSUME SkipInit PROVE SkipInv
      OBVIOUS
    <2>1. levels = << <<>> >> /\ size = 0
      BY DEF SkipInit
    <2>2. levels \in Seq(Seq(Node)) /\ Len(levels) = 1 /\ levels[1] = <<>> /\ Len(levels[1]) = 0
      BY <2>1
    <2>3. \A l \in 1..1 : l = 1
      OBVIOUS
    <2>4. Sorted(<<>>) /\ Distinct(<<>>)
      BY DEF Sorted, Distinct
    <2>5. \A l \in 2..1 : FALSE
      OBVIOUS
    <2> QED
      BY <2>1, <2>2, <2>3, <2>4, <2>5 DEF SkipInv, Shape
  <1>2. SkipInv /\ [SkipNext]_skipVars => SkipInv'
    <2> SUFFICES ASSUME SkipInv, [SkipNext]_skipVars PROVE SkipInv'
      OBVIOUS
    <2>1. CASE SkipNext
      BY <2>1, InsertKeeps, RemoveKeeps DEF SkipNext
    <2>2. CASE UNCHANGED skipVars
      BY <2>2 DEF SkipInv, Shape, skipVars
    <2> QED
      BY <2>1, <2>2
  <1> QED
    BY <1>1, <1>2, SkipInvSuffices, PTL
================================================================================
