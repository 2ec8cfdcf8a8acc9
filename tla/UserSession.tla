------------------------------- MODULE UserSession -----------------------------
(******************************************************************************)
(* The handlers of the user service that register users and log them in       *)
(* (user_server.hpp): UserRegister, UserLogin, GetPhoneVerifyCode,            *)
(* PhoneRegister and PhoneLogin, as far as the code lets them get.  brpc runs *)
(* them concurrently; MySQL's statements and Redis' commands are atomic.      *)
(*                                                                            *)
(* Redis' client throws when a command fails and no handler catches: a failed *)
(* command ends the process like any crash.                                   *)
(******************************************************************************)
EXTENDS FormatChecks, FiniteSets

CONSTANTS
  UserId, SessionId, CodeId,   \* bounds: what uuid() may return
  Nickname, Password, Phone, Code,
  Worker, Null,
  Failures   \* may MySQL, the SMS service and the process fail?

Empty == <<>>  \* the string ""

ASSUME FailuresAssumption == Failures \in BOOLEAN
ASSUME StringsAssumption == Nickname \cup Password \cup Phone \subseteq Seq(Char)

VARIABLES
  rows,     \* MySQL: the user table, by user id
  session,  \* Redis: ssid -> uid (Session)
  status,   \* Redis: the users with a login mark (Status)
  codes,    \* Redis: code id -> code (Codes)
  pc,       \* where each worker is
  req,      \* the request it handles
  user,     \* the id of the user its handler found
  ssid,     \* the session id its handler made
  reply,    \* history: its last reply, and what is true of it
  told      \* history: the session ids sent to clients, with their users

vars == <<rows, session, status, codes, pc, req, user, ssid, reply, told>>
redis == <<session, status, codes>>

Op == {"UserRegister", "UserLogin", "GetPhoneVerifyCode", "PhoneRegister", "PhoneLogin"}
NoReq == [op |-> Null, name |-> Null, password |-> Null, phone |-> Null,
          codeId |-> Null, code |-> Null]

Init ==
  /\ rows = [u \in {} |-> Null]
  /\ session = [s \in {} |-> Null]
  /\ status = {}
  /\ codes = [c \in {} |-> Null]
  /\ pc = [w \in Worker |-> "idle"]
  /\ req = [w \in Worker |-> NoReq]
  /\ user = [w \in Worker |-> Null]
  /\ ssid = [w \in Worker |-> Null]
  /\ reply = [w \in Worker |-> Null]
  /\ told = [s \in {} |-> Null]

With(f, k, v) == [x \in DOMAIN f \cup {k} |-> IF x = k THEN v ELSE f[x]]
Without(f, k) == [x \in DOMAIN f \ {k} |-> f[x]]
SessionsOf(u) == {s \in DOMAIN session : session[s] = u}

Goto(w, from, to) == pc[w] = from /\ pc' = [pc EXCEPT ![w] = to]

\* The reply's text, and the user it is about when that user is in the table.
Reply(w, from, text, about) ==
  /\ Goto(w, from, "idle")
  /\ reply' = [reply EXCEPT ![w] = [text |-> text, about |-> about]]
  /\ req' = [req EXCEPT ![w] = NoReq]
  /\ user' = [user EXCEPT ![w] = Null]
  /\ ssid' = [ssid EXCEPT ![w] = Null]

--------------------------------------------------------------------------------
(* Requests                                                                   *)

Accept(w, r, first) ==
  /\ Goto(w, "idle", first)
  /\ req' = [req EXCEPT ![w] = r]
  /\ reply' = [reply EXCEPT ![w] = Null]
  /\ UNCHANGED <<rows, redis, user, ssid, told>>

\* A request whose format is wrong is answered at once.
Refuse(w) == Reply(w, "idle", "badformat", Null) /\ UNCHANGED <<rows, redis, told>>

UserRegister(w, n, p) ==
  IF nickname_check(n) /\ password_check(p)
  THEN Accept(w, [NoReq EXCEPT !.op = "UserRegister", !.name = n, !.password = p], "select")
  ELSE Refuse(w)

\* No check: any name, also the id that a user registered by phone has for a name,
\* and any password, also the empty one.
UserLogin(w, n, p) ==
  Accept(w, [NoReq EXCEPT !.op = "UserLogin", !.name = n, !.password = p], "select")

AcceptPhone(w, r, first) == IF phone_check(r.phone) THEN Accept(w, r, first) ELSE Refuse(w)

GetPhoneVerifyCode(w, p) ==
  AcceptPhone(w, [NoReq EXCEPT !.op = "GetPhoneVerifyCode", !.phone = p], "send")

PhoneRequest(op, p, c, k) == [NoReq EXCEPT !.op = op, !.phone = p, !.codeId = c, !.code = k]

PhoneRegister(w, p, c, k) == AcceptPhone(w, PhoneRequest("PhoneRegister", p, c, k), "code")

PhoneLogin(w, p, c, k) == AcceptPhone(w, PhoneRequest("PhoneLogin", p, c, k), "select")

Request(w) ==
  \/ \E n \in Nickname, p \in Password : UserRegister(w, n, p)
  \/ \E n \in Nickname \cup UserId, p \in Password \cup {Empty} : UserLogin(w, n, p)
  \/ \E p \in Phone : GetPhoneVerifyCode(w, p)
  \/ \E p \in Phone, c \in CodeId, k \in Code : PhoneRegister(w, p, c, k) \/ PhoneLogin(w, p, c, k)

--------------------------------------------------------------------------------
(* The user table                                                             *)

Asked(w) ==
  IF req[w].op \in {"UserRegister", "UserLogin"}
    THEN {u \in DOMAIN rows : rows[u].nickname = req[w].name}
    ELSE {u \in DOMAIN rows : rows[u].phone = req[w].phone}

\* What select_by_nickname and select_by_phone return: no user when there is
\* none, and none when the query throws.
Selected(w) == Asked(w) \cup (IF Asked(w) = {} \/ Failures THEN {Null} ELSE {})

\* UserRegister and PhoneRegister: the name or number must be free.
selectFree(w) ==
  /\ req[w].op \in {"UserRegister", "PhoneRegister"}
  /\ \E u \in Selected(w) :
       \/ u # Null /\ Reply(w, "select", "taken", u)
       \/ u = Null /\ Goto(w, "select", "insert") /\ UNCHANGED <<req, user, ssid, reply>>
  /\ UNCHANGED <<rows, redis, told>>

\* *user->password(): of a password that is NULL it reads the empty string.
PasswordRead(u) == IF rows[u].password = Null THEN Empty ELSE rows[u].password

\* UserLogin: the user, and the password.
selectLogin(w) ==
  /\ req[w].op = "UserLogin"
  /\ \E u \in Selected(w) :
       LET ok == u # Null /\ PasswordRead(u) = req[w].password IN
       \/ ~ok /\ Reply(w, "select", "wrong", u)
       \/ ok /\ Goto(w, "select", "exists") /\ user' = [user EXCEPT ![w] = u]
             /\ UNCHANGED <<req, ssid, reply>>
  /\ UNCHANGED <<rows, redis, told>>

\* PhoneLogin tests `if(user)': a user that is found is "not registered".
selectPhone(w) ==
  /\ req[w].op = "PhoneLogin"
  /\ \E u \in Selected(w) :
       \/ u # Null /\ Reply(w, "select", "unregistered", u)
       \/ u = Null /\ Goto(w, "select", "code") /\ UNCHANGED <<req, user, ssid, reply>>
  /\ UNCHANGED <<rows, redis, told>>

NewRow(w, u) ==
  IF req[w].op = "UserRegister"
    THEN [nickname |-> req[w].name, password |-> req[w].password, phone |-> Null]
    ELSE [nickname |-> u, password |-> Null, phone |-> req[w].phone]

\* Faulty: no unique index on phone.
ClashName(w, u) == \E v \in DOMAIN rows : rows[v].nickname = NewRow(w, u).nickname

\* The unique indexes: the user that asks is the one who would be second.
Clash(w, u) ==
  \E v \in DOMAIN rows :
    \/ rows[v].nickname = NewRow(w, u).nickname
    \/ rows[v].phone # Null /\ rows[v].phone = NewRow(w, u).phone

\* An id is new; whether its row fits in, the indexes say.
NewId == UserId \ DOMAIN rows

\* insert; `if(user)' is true after it whatever it returned, so that the
\* handlers reply that MySQL failed and never reach Elasticsearch.
insert(w) ==
  /\ \E u \in NewId :
       /\ ~Clash(w, u)
       /\ rows' = With(rows, u, NewRow(w, u))
       /\ Reply(w, "insert", "failed", u)
  /\ UNCHANGED <<redis, told>>

insertFailed(w) ==
  /\ Failures \/ \E u \in NewId : Clash(w, u)
  /\ Reply(w, "insert", "failed", Null)
  /\ UNCHANGED <<rows, redis, told>>

--------------------------------------------------------------------------------
(* Sessions: UserLogin                                                        *)

existsStatus(w) ==
  /\ \/ user[w] \in status /\ Reply(w, "exists", "elsewhere", user[w])
     \/ user[w] \notin status /\ Goto(w, "exists", "session")
                              /\ UNCHANGED <<req, user, ssid, reply>>
  /\ UNCHANGED <<rows, redis, told>>

\* Faulty: the id is made and never stored.
appendSessionDropped(w) ==
  /\ Goto(w, "session", "mark")
  /\ \E s \in SessionId \ DOMAIN session : ssid' = [ssid EXCEPT ![w] = s]
  /\ UNCHANGED <<rows, redis, req, user, reply, told>>

appendSession(w) ==
  /\ Goto(w, "session", "mark")
  /\ \E s \in SessionId \ DOMAIN session :
       /\ session' = With(session, s, user[w])
       /\ ssid' = [ssid EXCEPT ![w] = s]
  /\ UNCHANGED <<rows, status, codes, req, user, reply, told>>

\* Faulty: the session id is marked, not the user.
appendStatusSession(w) ==
  /\ Goto(w, "mark", "answer")
  /\ status' = status \cup {ssid[w]}
  /\ UNCHANGED <<rows, session, codes, req, user, ssid, reply, told>>

\* Faulty: no login mark, as PhoneLogin leaves it out.
appendStatusNone(w) ==
  /\ Goto(w, "mark", "answer")
  /\ UNCHANGED <<rows, redis, req, user, ssid, reply, told>>

appendStatus(w) ==
  /\ Goto(w, "mark", "answer")
  /\ status' = status \cup {user[w]}
  /\ UNCHANGED <<rows, session, codes, req, user, ssid, reply, told>>

\* The response is filled in, and sent when the ClosureGuard is destroyed.
answer(w) ==
  /\ Reply(w, "answer", "ok", user[w])
  /\ told' = With(told, ssid[w], user[w])
  /\ UNCHANGED <<rows, redis>>

--------------------------------------------------------------------------------
(* Verification codes                                                         *)

\* DMSClient::send; "" when it failed.
send(w) ==
  /\ \/ \E k \in Code : Goto(w, "send", "store") /\ req' = [req EXCEPT ![w].code = k]
                                                 /\ UNCHANGED <<user, ssid, reply>>
     \/ Failures /\ Reply(w, "send", "unsent", Null)
  /\ UNCHANGED <<rows, redis, told>>

\* An id is new while its predecessors' codes live.
appendCode(w) ==
  /\ Reply(w, "store", "ok", Null)
  /\ \E c \in CodeId \ DOMAIN codes : codes' = With(codes, c, req[w].code)
  /\ UNCHANGED <<rows, session, status, told>>

\* Sixty seconds after it was set a code is gone.
expire ==
  /\ \E c \in DOMAIN codes : codes' = Without(codes, c)
  /\ UNCHANGED <<rows, session, status, pc, req, user, ssid, reply, told>>

Verified(w) == req[w].codeId \in DOMAIN codes /\ codes[req[w].codeId] = req[w].code

checkCode(w) ==
  /\ \/ ~Verified(w) /\ Reply(w, "code", "badcode", Null)
     \/ Verified(w) /\ Goto(w, "code", IF req[w].op = "PhoneLogin" THEN "remove" ELSE "select")
                    /\ UNCHANGED <<req, user, ssid, reply>>
  /\ UNCHANGED <<rows, redis, told>>

removeCode(w) ==
  /\ Goto(w, "remove", "deref")
  /\ codes' = Without(codes, req[w].codeId)
  /\ UNCHANGED <<rows, session, status, req, user, ssid, reply, told>>

--------------------------------------------------------------------------------
(* The process                                                                *)

Die ==
  /\ pc' = [w \in Worker |-> "idle"]
  /\ req' = [w \in Worker |-> NoReq]
  /\ user' = [w \in Worker |-> Null]
  /\ ssid' = [w \in Worker |-> Null]
  /\ UNCHANGED <<rows, redis, reply, told>>

\* PhoneLogin asks for the id of the user it did not find: user_id() reads a
\* string next to address 0, which no build survives.
nullUser(w) == pc[w] = "deref" /\ Die

crash == Failures /\ (\E w \in Worker : pc[w] # "idle") /\ Die

Handler(w) ==
  \/ selectFree(w) \/ selectLogin(w) \/ selectPhone(w)
  \/ insert(w) \/ insertFailed(w)
  \/ existsStatus(w) \/ appendSession(w) \/ appendStatus(w) \/ answer(w)
  \/ send(w) \/ appendCode(w) \/ checkCode(w) \/ removeCode(w) \/ nullUser(w)

Next ==
  \/ \E w \in Worker : Request(w) \/ Handler(w)
  \/ expire
  \/ crash

Spec == Init /\ [][Next]_vars

--------------------------------------------------------------------------------
(* Properties                                                                 *)

TypeOK ==
  /\ DOMAIN rows \subseteq UserId
  /\ \A u \in DOMAIN rows : /\ rows[u].nickname \in Nickname \cup {u}
                            /\ rows[u].password \in Password \cup {Null}
                            /\ rows[u].phone \in Phone \cup {Null}
  /\ DOMAIN session \subseteq SessionId
  /\ \A s \in DOMAIN session : session[s] \in DOMAIN rows
  /\ status \subseteq UserId
  /\ DOMAIN told \subseteq SessionId
  /\ \A s \in DOMAIN told : told[s] \in DOMAIN rows
  /\ DOMAIN codes \subseteq CodeId
  /\ \A c \in DOMAIN codes : codes[c] \in Code
  /\ \A w \in Worker : pc[w] # "idle" => req[w].op \in Op

\* However the handlers interleave between the look-up and the insert, and when
\* the look-up fails and says "no user", a nickname and a phone number get one
\* account.
OneAccount ==
  \A u, v \in DOMAIN rows : u # v =>
    /\ rows[u].nickname # rows[v].nickname
    /\ rows[u].phone # Null => rows[u].phone # rows[v].phone

\* However a row got there, over look-ups and inserts of several handlers, its name
\* and password are of the form the comments at the top of UserRegister ask for: "不
\* 超过22位" and "只能包含字母, 数字, 长度限制 6 - 15 之间, 还可以用 '-' 和 '_'"
\* (user_server.hpp:60, 66).
StoredAreWellFormed ==
  \A u \in DOMAIN rows :
    /\ rows[u].nickname # u => Len(rows[u].nickname) <= 22
    /\ rows[u].password # Null => IsPassword(rows[u].password)

\* "验证手机号码格式是否正确(必须是 1 开始, 第二位 3-9 之间, 后面 9 个数字字符)"
\* (user_server.hpp:147): so is the number of a row that has one.
StoredPhonesAreNumbers ==
  \A u \in DOMAIN rows : rows[u].phone # Null => IsPhone(rows[u].phone)

\* The session is stored before the mark (user_server.hpp:126-127): whoever is
\* marked, and nothing takes a mark away, has a session in Redis, also after a
\* crash between the two commands.
MarkHasSession == \A u \in status : SessionsOf(u) # {}

\* A session id that was sent to a client is known for what it is, and its user is
\* marked, for good: also after other logins and crashes.
SuccessIsRecorded ==
  \A s \in DOMAIN told :
    s \in DOMAIN session /\ session[s] = told[s] /\ told[s] \in status

\* "根据 redis 中的登录标记信息是否存在判断用户是否已经登录" (user_server.hpp:118): a user
\* with the mark is logged in.  Some client was sent a session id of that user, or is
\* about to be.
MarkMeansLoggedIn ==
  \A u \in status :
    \/ \E s \in DOMAIN told : told[s] = u
    \/ \E w \in Worker : pc[w] = "answer" /\ user[w] = u

\* A user is logged in at one place: "根据 redis 中的登录标记信息是否存在判断用户是否
\* 已经登录" (user_server.hpp:118).
OneLogin == \A u \in UserId : Cardinality(SessionsOf(u)) <= 1

\* The message "MySQL数据库新增数据失败! " (user_server.hpp:84) tells a client that
\* the insert failed, not that its user is there.
RegisterTellsTruth ==
  \A w \in Worker : reply[w] # Null /\ reply[w].text = "failed" => reply[w].about = Null

\* The message "该手机号未注册过用户! " (user_server.hpp:245) is for numbers nobody
\* registered.
UnregisteredIsTold ==
  \A w \in Worker : reply[w] # Null /\ reply[w].text = "unregistered" => reply[w].about = Null

================================================================================
