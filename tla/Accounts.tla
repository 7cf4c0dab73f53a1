------------------------------- MODULE Accounts -------------------------------
(***************************************************************************)
(* The two programs that keep accounts in the MySQL table user(user, passwd),*)
(* which has no key: the CGI program of myprj/webServer (CGImysql/sign.cpp), *)
(* one process per request, and myprj/fastcgiApp, whose threads share one    *)
(* MySQL connection and one Redis server.  Each has its own data base; Init  *)
(* chooses the program.  A step is one use of the data base, of Redis or of   *)
(* what is read back from the shared connection.                            *)
(*                                                                         *)
(* Html pages stand for themselves by name.  The data base answers every     *)
(* query of a connection that is open; to open one may fail.                 *)
(***************************************************************************)
EXTENDS Naturals, Sequences, SequencesExt

CONSTANTS Thread, User, BadUser, Passwd, BadPasswd, Nothing,
          MaxRows,      \* bound on the accounts
          Careful       \* whether clients avoid what the programs cannot do: two
                        \* queries at once on one connection, two registrations at once

ASSUME AccountAssumption ==
    /\ MaxRows \in Nat /\ Careful \in BOOLEAN
    /\ BadUser \notin User /\ BadPasswd \notin Passwd

VARIABLES program,      \* "cgi" or "fastcgi"
          table,        \* the rows of user
          pc, req,      \* per thread, or process: where it is, and its request
          users,        \* CGI, per process: its copy of the table
          acceptor,     \* FastCGI: the thread that holds accept_mutex
          rows,         \* FastCGI: what getAffectedRows of the connection returns
          redis,        \* FastCGI: the users whose token Redis holds
          loginInfo,    \* FastCGI: _loginInfoMap
          known,        \* history: per thread, whether its account was in the table
                        \* when its request began
          said          \* history: the last answer

fcgiVars == <<acceptor, rows, redis, loginInfo>>
vars == <<program, table, pc, req, users, fcgiVars, known, said>>

Rows(t) == {t[i] : i \in 1..Len(t)}
Row(r) == [user |-> r.user, passwd |-> r.passwd]

\* token: whether a GET brings its user's token; otherwise it brings another text.
Request ==
    [method : {"POST"}, url : {"/login", "/register"}, user : User \cup {BadUser},
     passwd : Passwd \cup {BadPasswd}, token : {FALSE}]
    \cup [method : {"GET"}, url : {"/login"}, user : User, passwd : {Nothing}, token : BOOLEAN]
    \cup [method : {"GET", "POST"}, url : {"/logout", "/upload", "/other"}, user : {Nothing},
          passwd : {Nothing}, token : {FALSE}]
    \cup [method : {"GET"}, url : {"/register"}, user : {Nothing}, passwd : {Nothing},
          token : {FALSE}]

Register(r) == r.method = "POST" /\ r.url = "/register"
Login(r)    == r.method = "POST" /\ r.url = "/login"

Init ==
    /\ program \in {"cgi", "fastcgi"}
    /\ table = <<>>
    /\ pc = [t \in Thread |-> "idle"] /\ req = [t \in Thread |-> Nothing]
    /\ users = [t \in Thread |-> {}]
    /\ acceptor = Nothing /\ rows = 0 /\ redis = {} /\ loginInfo = {}
    /\ known = [t \in Thread |-> FALSE] /\ said = Nothing

Goto(t, label) == pc' = [pc EXCEPT ![t] = label]

\* The answer, and the end of the request.
Answer(t, answer) ==
    /\ Goto(t, "idle")
    /\ said' = answer
    /\ req' = [req EXCEPT ![t] = Nothing]
    /\ known' = [known EXCEPT ![t] = FALSE]
    /\ UNCHANGED program

Asks(t) == pc[t] \notin {"idle", "accept"} /\ (Register(req[t]) \/ Login(req[t]))

\* Clients bring a request; some keep out of each other's way.
MayBegin(r) ==
    /\ Register(r) => Len(table) < MaxRows
    /\ Careful => \A t \in Thread : Asks(t) =>
          IF program = "cgi" THEN ~(Register(r) /\ Register(req[t]))
          ELSE ~(Register(r) \/ Login(r))

Begin(t, r) ==
    /\ MayBegin(r)
    /\ req' = [req EXCEPT ![t] = r]
    /\ known' = [known EXCEPT ![t] = Row(r) \in Rows(table)]
    /\ said' = Nothing

-----------------------------------------------------------------------------
(* sign.cpp.                                                                *)

CgiStart(t, r) ==
    /\ program = "cgi" /\ pc[t] = "idle"
    /\ Register(r) \/ Login(r)
    /\ Begin(t, r)
    /\ Goto(t, "select")
    /\ UNCHANGED <<program, table, users, fcgiVars>>

\* The whole table, into a map: of the rows with one name the last one stays.
Copied(t) == {row \in Rows(t) :
                LET k == SelectLastInSeq(t, LAMBDA x : x.user = row.user) IN t[k] = row}

Select(t) ==
    /\ program = "cgi" /\ pc[t] = "select"
    /\ \/ /\ users' = [users EXCEPT ![t] = Copied(table)]
          /\ Goto(t, "decide")
          /\ UNCHANGED <<program, req, known, said>>
       \/ Answer(t, "Error") /\ UNCHANGED users        \* the connection fails
    /\ UNCHANGED <<table, fcgiVars>>

Found(t) == Row(req[t]) \in users[t]

CgiLogin(t) ==
    /\ program = "cgi" /\ pc[t] = "decide" /\ Login(req[t])
    /\ Answer(t, IF Found(t) THEN "welcome" ELSE "no such account")
    /\ users' = [users EXCEPT ![t] = {}]
    /\ UNCHANGED <<table, fcgiVars>>

Taken_Whole(t) == Row(req[t]) \in users[t]
Taken(t) == \E row \in users[t] : row.user = req[t].user

\* The mutex around the INSERT is a local of this process and keeps nobody out.
CgiRegister(t) ==
    LET taken == Taken(t) IN
    /\ program = "cgi" /\ pc[t] = "decide" /\ Register(req[t])
    /\ table' = IF taken THEN table ELSE Append(table, Row(req[t]))
    /\ Answer(t, IF taken THEN "taken" ELSE "registered")
    /\ users' = [users EXCEPT ![t] = {}]
    /\ UNCHANGED fcgiVars

-----------------------------------------------------------------------------
(* fastcgiApp: one thread at a time waits for a request, under accept_mutex. *)

Lock(t) ==
    /\ program = "fastcgi" /\ pc[t] = "idle" /\ acceptor = Nothing
    /\ acceptor' = t
    /\ Goto(t, "accept")
    /\ UNCHANGED <<program, table, req, users, rows, redis, loginInfo, known, said>>

Accept(t, r) ==
    /\ pc[t] = "accept" /\ acceptor = t
    /\ Begin(t, r)
    /\ acceptor' = Nothing
    /\ Goto(t, IF r.url = "/other" THEN "finish" ELSE "token")
    /\ UNCHANGED <<program, table, users, rows, redis, loginInfo>>

\* No handler for the url: nothing is written.
Silence == "nothing"
NoEvent(t) ==
    /\ pc[t] = "finish"
    /\ Answer(t, Silence)
    /\ UNCHANGED <<table, users, fcgiVars>>

\* Request::setToken, before any handler: a POST puts its user's token into Redis.
SetToken(t) ==
    /\ pc[t] = "token"
    /\ redis' = redis \cup IF req[t].method = "POST" THEN {req[t].user} ELSE {}
    /\ Goto(t, IF Asks(t) THEN "connect" ELSE "handle")
    /\ UNCHANGED <<program, table, req, users, acceptor, rows, loginInfo, known, said>>

\* Redis drops a token when its time is over.
Expire(u) ==
    /\ u \in redis
    /\ redis' = redis \ {u}
    /\ UNCHANGED <<program, table, pc, req, users, acceptor, rows, loginInfo, known, said>>

\* Login::login, GET: the token is compared ...
CheckToken(t) ==
    /\ pc[t] = "handle" /\ req[t].url = "/login"
    /\ IF req[t].token /\ req[t].user \in redis
       THEN Goto(t, "refresh") /\ UNCHANGED <<program, req, known, said>>
       ELSE Answer(t, "token is not match")
    /\ UNCHANGED <<table, users, fcgiVars>>

\* ... and set anew, for as long again.
Refresh(t) ==
    /\ pc[t] = "refresh"
    /\ redis' = redis \cup {req[t].user}
    /\ Answer(t, "welcome")
    /\ UNCHANGED <<table, users, acceptor, rows, loginInfo>>

\* Login::logout shows a page and forgets nothing.
Logout(t) ==
    /\ pc[t] = "handle" /\ req[t].url = "/logout"
    /\ Answer(t, IF req[t].method = "GET" THEN "login.html" ELSE "judge.html")
    /\ UNCHANGED <<table, users, fcgiVars>>

\* Upload::upload writes a file, if it can, and tells a POST that it could not.
Upload(t) ==
    /\ pc[t] = "handle" /\ req[t].url = "/upload"
    /\ \E opened \in BOOLEAN :
          Answer(t, IF opened /\ req[t].method = "GET" THEN Silence ELSE "fd open error")
    /\ UNCHANGED <<table, users, fcgiVars>>

\* Register::reg has no answer to a GET.
RegisterGet(t) ==
    /\ pc[t] = "handle" /\ req[t].url = "/register"
    /\ Answer(t, Silence)
    /\ UNCHANGED <<table, users, fcgiVars>>

ConnectFails(t) ==
    /\ pc[t] = "connect"
    /\ Answer(t, "mysql connect fail")
    /\ UNCHANGED <<table, users, fcgiVars>>

\* Register::reg looks at the name and the password first.
BadName(t) ==
    /\ pc[t] = "connect" /\ Register(req[t])
    /\ req[t].user = BadUser \/ req[t].passwd = BadPasswd
    /\ Answer(t, IF req[t].user = BadUser THEN "userError.html" ELSE "passwdError.html")
    /\ UNCHANGED <<table, users, fcgiVars>>

\* INSERT: without a key in the table it succeeds.
Insert(t) == table' = Append(table, Row(req[t])) /\ rows' = 1

QueryInsert(t) ==
    /\ pc[t] = "connect" /\ Register(req[t])
    /\ req[t].user # BadUser /\ req[t].passwd # BadPasswd
    /\ Insert(t)
    /\ Goto(t, "result")
    /\ UNCHANGED <<program, req, users, acceptor, redis, loginInfo, known, said>>

\* SELECT ... WHERE user AND passwd.
Selected_ByName(r) == {i \in 1..Len(table) : table[i].user = r.user}
Selected(r) == {i \in 1..Len(table) : table[i] = Row(r)}

QuerySelect(t) ==
    /\ pc[t] = "connect" /\ Login(req[t])
    /\ rows' = Cardinality(Selected(req[t]))
    /\ Goto(t, "result")
    /\ UNCHANGED <<program, table, req, users, acceptor, redis, loginInfo, known, said>>

\* getErrno: the last query on the connection, which never failed.
Registered(t) ==
    /\ pc[t] = "result" /\ Register(req[t])
    /\ Answer(t, "registered")
    /\ UNCHANGED <<table, users, fcgiVars>>

\* getAffectedRows, of the last query on the connection, whose ever it was.
Affected == rows # 0

LoggedIn(t) ==
    /\ pc[t] = "result" /\ Login(req[t])
    /\ loginInfo' = IF Affected THEN loginInfo \cup {req[t].user} ELSE loginInfo
    /\ Answer(t, IF Affected THEN "welcome" ELSE "no such account")
    /\ UNCHANGED <<table, users, acceptor, rows, redis>>

Work(t) ==
    \/ Select(t) \/ CgiLogin(t) \/ CgiRegister(t)
    \/ NoEvent(t) \/ SetToken(t) \/ CheckToken(t) \/ Refresh(t)
    \/ Logout(t) \/ Upload(t) \/ RegisterGet(t)
    \/ ConnectFails(t) \/ BadName(t) \/ QueryInsert(t) \/ QuerySelect(t)
    \/ Registered(t) \/ LoggedIn(t)

Next ==
    \/ \E t \in Thread :
          \/ \E r \in Request : CgiStart(t, r) \/ Accept(t, r)
          \/ Lock(t)
          \/ Work(t)
    \/ \E u \in User \cup {BadUser, Nothing} : Expire(u)

Spec == Init /\ [][Next]_vars

-----------------------------------------------------------------------------

TypeOK ==
    /\ Rows(table) \subseteq [user : User \cup {BadUser}, passwd : Passwd \cup {BadPasswd}]
    /\ \A t \in Thread : /\ req[t] \in Request \cup {Nothing}
                         /\ users[t] \subseteq Rows(table)
    /\ acceptor \in Thread \cup {Nothing} /\ rows \in 0..MaxRows
    /\ redis \subseteq User \cup {BadUser, Nothing} /\ loginInfo \subseteq User \cup {BadUser}

Ends(t) == pc[t] \notin {"idle", "accept"} /\ pc'[t] = "idle"

\* Who is let in has an account, and who had one when the request began is let in:
\* "if the data base has such a record, the user is verified" (CLogin.cpp:93,
\* sign.cpp:122).
LoginIsRight ==
    [][\A t \in Thread : Ends(t) /\ Login(req[t]) =>
          /\ said' = "welcome" => Row(req[t]) \in Rows(table)
          /\ said' = "no such account" => ~known[t]]_vars

\* A name is registered once (sign.cpp:96: "look first whether the name is there").
NamesAreUnique ==
    program = "cgi" => \A i, j \in 1..Len(table) : table[i].user = table[j].user => i = j
=============================================================================
