---------------------------- MODULE UserSessionProofs ---------------------------
(******************************************************************************)
(* What the format checks say of every string, and what registration and      *)
(* login keep true of MySQL and Redis for any number of workers, users and    *)
(* sessions, whatever fails and whenever the process dies.                    *)
(******************************************************************************)
EXTENDS UserSession, TLAPS

--------------------------------------------------------------------------------
(* The format checks                                                          *)

\* phone_check reads characters of the number or the NUL behind it, never more,
\* although it compares the size with nothing but 1.
THEOREM PhoneReadsInBounds ==
  ASSUME NEW s \in Seq(Char), NEW i \in PhoneReads(s)
  PROVE  i <= Len(s)
<1>1. Len(s) \in Nat /\ i \in 0 .. 10
  BY DEF PhoneReads
<1>2. SUFFICES ASSUME i > Len(s) PROVE FALSE
  BY <1>1
<1>3. Len(s) \in 0 .. i - 1
  BY <1>1, <1>2
<1>4. At(s, Len(s)) \in PhoneChar(Len(s))
  BY <1>3 DEF PhoneReads
<1>5. At(s, Len(s)) = 0
  BY <1>1 DEF At
<1>6. 0 \notin PhoneChar(Len(s))
  BY <1>1 DEF PhoneChar, Digit
<1> QED
  BY <1>4, <1>5, <1>6

\* phone_check accepts exactly the strings that begin with a mobile number; what
\* follows the eleventh digit is not looked at.
THEOREM PhoneMeaning ==
  ASSUME NEW s \in Seq(Char)
  PROVE  phone_check(s) <=> Len(s) >= 11 /\ IsPhone(SubSeq(s, 1, 11))
<1>1. Len(s) \in Nat
  OBVIOUS
<1>2. ASSUME phone_check(s) PROVE Len(s) >= 11
  <2>1. SUFFICES ASSUME Len(s) < 11 PROVE FALSE
    BY <1>1
  <2>2. Len(s) \in 0 .. 10
    <3>1. \A n \in Nat : n < 11 => n \in 0 .. 10
      OBVIOUS
    <3> QED
      BY <1>1, <2>1, <3>1
  <2>3. At(s, Len(s)) \in PhoneChar(Len(s))
    BY <1>2, <2>2 DEF phone_check
  <2>4. At(s, Len(s)) = 0 /\ 0 \notin PhoneChar(Len(s))
    BY <1>1 DEF At, PhoneChar, Digit
  <2> QED
    BY <2>3, <2>4
<1>3. ASSUME Len(s) >= 11
      PROVE  phone_check(s) <=> IsPhone(SubSeq(s, 1, 11))
  <2> DEFINE p == SubSeq(s, 1, 11)
  <2>1. p \in Seq(Char) /\ Len(p) = 11 /\ \A i \in 1 .. 11 : p[i] = s[i]
    BY <1>1, <1>3
  <2>2. \A i \in 0 .. 10 : At(s, i) = p[i + 1]
    BY <1>1, <1>3, <2>1 DEF At
  <2> HIDE DEF p
  <2>3. phone_check(s) <=> \A i \in 0 .. 10 : p[i + 1] \in PhoneChar(i)
    BY <1>1, <1>3, <2>2 DEF phone_check
  <2>4. ASSUME \A i \in 0 .. 10 : p[i + 1] \in PhoneChar(i) PROVE IsPhone(p)
    <3>1. p[0 + 1] \in PhoneChar(0) /\ p[1 + 1] \in PhoneChar(1)
      BY <2>4
    <3>2. p[1] = 49 /\ p[2] \in 51 .. 57
      BY <3>1 DEF PhoneChar
    <3>3. ASSUME NEW i \in 3 .. 11 PROVE p[i] \in Digit
      <4>1. i - 1 \in 0 .. 10 /\ i - 1 # 0 /\ i - 1 # 1 /\ (i - 1) + 1 = i
        BY <3>3
      <4>2. p[(i - 1) + 1] \in PhoneChar(i - 1)
        BY <2>4, <4>1
      <4> QED
        BY <4>1, <4>2 DEF PhoneChar
    <3> QED
      BY <2>1, <3>2, <3>3 DEF IsPhone
  <2>5. ASSUME IsPhone(p), NEW i \in 0 .. 10 PROVE p[i + 1] \in PhoneChar(i)
    <3>1. CASE i = 0
      BY <2>5, <3>1 DEF IsPhone, PhoneChar
    <3>2. CASE i = 1
      BY <2>5, <3>2 DEF IsPhone, PhoneChar
    <3>3. CASE i \in 2 .. 10
      <4>1. i + 1 \in 3 .. 11
        BY <3>3
      <4> QED
        BY <2>5, <3>3, <4>1 DEF IsPhone, PhoneChar
    <3> QED
      BY <3>1, <3>2, <3>3
  <2> QED
    BY <2>3, <2>4, <2>5 DEF p
<1>4. ASSUME Len(s) >= 11, IsPhone(SubSeq(s, 1, 11)) PROVE phone_check(s)
  BY <1>3, <1>4
<1> QED
  BY <1>2, <1>3, <1>4

\* password_check lets no string through that the rule in the comment refuses.
THEOREM PasswordSound ==
  ASSUME NEW s \in Seq(Char), password_check(s)
  PROVE  IsPassword(s)
<1>1. PasswordChar \subseteq Lower \cup Upper \cup Digit \cup {Dash, Underscore}
  BY DEF PasswordChar, Lower, Upper, Digit
<1> QED
  BY <1>1 DEF password_check, IsPassword

\* But it is narrower: a password with an 'a', 'z', 'A', 'Z', '0', '9', '-' or '_'
\* in it is refused.
THEOREM PasswordNarrow ==
  ASSUME NEW s \in Seq(Char), NEW i \in 1 .. Len(s),
         s[i] \in {97, 122, 65, 90, 48, 57, Dash, Underscore}
  PROVE  ~password_check(s)
<1>1. \A c \in {97, 122, 65, 90, 48, 57, 45, 95} : c \notin PasswordChar
  BY DEF PasswordChar
<1>2. s[i] \notin PasswordChar
  BY <1>1 DEF Dash, Underscore
<1> QED
  BY <1>2 DEF password_check

--------------------------------------------------------------------------------
(* The inductive invariant                                                    *)

Place == {"idle", "select", "insert", "exists", "session", "mark", "answer",
          "send", "store", "code", "remove", "deref"}

OrNull(S) == S \cup {Null}

RequestType ==
  [op : OrNull(Op), name : OrNull(Nickname \cup UserId), password : OrNull(Password \cup {Empty}),
   phone : OrNull(Phone), codeId : OrNull(CodeId), code : OrNull(Code)]

Text == {"badformat", "taken", "wrong", "unregistered", "failed", "elsewhere",
         "unsent", "badcode", "ok"}

ReplyType == [text : Text, about : OrNull(UserId)]

\* What the workers hold is of its type.
WorkersOK ==
  /\ pc \in [Worker -> Place]
  /\ req \in [Worker -> RequestType]
  /\ user \in [Worker -> OrNull(UserId)]
  /\ ssid \in [Worker -> OrNull(SessionId)]
  /\ reply \in [Worker -> OrNull(ReplyType)]

\* The data a handler goes on with has passed its checks.
Checked(r) ==
  /\ r.op = "UserRegister" =>
       /\ r.name \in Nickname /\ nickname_check(r.name)
       /\ r.password \in Password /\ password_check(r.password)
  /\ r.op = "PhoneRegister" => r.phone \in Phone /\ phone_check(r.phone)

\* What a worker knows at each place of its handler.
AtPlace(w) ==
  /\ pc[w] # "idle" => req[w].op \in Op /\ Checked(req[w])
  /\ pc[w] = "insert" => req[w].op \in {"UserRegister", "PhoneRegister"}
  /\ pc[w] = "store" => req[w].code \in Code
  /\ pc[w] \in {"exists", "session", "mark", "answer"} => user[w] \in DOMAIN rows
  /\ pc[w] \in {"mark", "answer"} => ssid[w] \in DOMAIN session /\ session[ssid[w]] = user[w]
  /\ pc[w] = "answer" => user[w] \in status
  /\ pc[w] \notin {"mark", "answer"} => ssid[w] = Null

Knowledge == \A w \in Worker : AtPlace(w)

\* The user table.
RowsOK ==
  /\ DOMAIN rows \subseteq UserId
  /\ \A u \in DOMAIN rows : /\ rows[u].nickname \in Nickname \cup {u}
                            /\ rows[u].password \in Password \cup {Null}
                            /\ rows[u].phone \in Phone \cup {Null}
  /\ OneAccount
  /\ StoredAreWellFormed

\* Sessions and login marks.
SessionsOK ==
  /\ DOMAIN session \subseteq SessionId
  /\ \A s \in DOMAIN session : session[s] \in DOMAIN rows
  /\ status \subseteq UserId
  /\ MarkHasSession

CodesOK ==
  /\ DOMAIN codes \subseteq CodeId
  /\ \A c \in DOMAIN codes : codes[c] \in Code

\* What clients were told of their sessions.
ToldOK ==
  /\ DOMAIN told \subseteq SessionId
  /\ \A s \in DOMAIN told : told[s] \in DOMAIN rows
  /\ SuccessIsRecorded

IInv ==
  /\ WorkersOK
  /\ Knowledge
  /\ RowsOK
  /\ SessionsOK
  /\ CodesOK
  /\ ToldOK

--------------------------------------------------------------------------------
(* What the handlers rely on: rows, sessions and marks are never taken away,  *)
(* and a step of one worker leaves the others alone.                          *)

StoresGrow ==
  /\ DOMAIN rows \subseteq DOMAIN rows'
  /\ DOMAIN session \subseteq DOMAIN session'
  /\ \A s \in DOMAIN session : session'[s] = session[s]
  /\ status \subseteq status'

OthersStay(w) ==
  \A v \in Worker \ {w} :
    /\ pc'[v] = pc[v] /\ req'[v] = req[v] /\ user'[v] = user[v]
    /\ ssid'[v] = ssid[v] /\ reply'[v] = reply[v]

\* What the other workers know stays true when the stores grow.
LEMMA OthersKnow ==
  ASSUME IInv, NEW w \in Worker, OthersStay(w), StoresGrow, AtPlace(w)'
  PROVE  Knowledge'
<1>1. ASSUME NEW v \in Worker \ {w} PROVE AtPlace(v)'
  BY <1>1 DEF IInv, Knowledge, AtPlace, Checked, OthersStay, StoresGrow
<1> QED
  BY <1>1 DEF Knowledge

\* So does what clients were told.
LEMMA ToldStays ==
  ASSUME IInv, StoresGrow, UNCHANGED told
  PROVE  ToldOK'
BY DEF IInv, StoresGrow, ToldOK, SuccessIsRecorded

\* A worker that goes on without an answer.
LEMMA GoesOn ==
  ASSUME IInv, NEW w \in Worker, NEW from \in Place, NEW to \in Place, Goto(w, from, to),
         UNCHANGED <<reply, told>>, StoresGrow, AtPlace(w)',
         req' \in [Worker -> RequestType], user' \in [Worker -> OrNull(UserId)],
         ssid' \in [Worker -> OrNull(SessionId)],
         \A v \in Worker \ {w} : req'[v] = req[v] /\ user'[v] = user[v] /\ ssid'[v] = ssid[v]
  PROVE  WorkersOK' /\ Knowledge' /\ ToldOK'
<1>1. WorkersOK'
  BY DEF IInv, WorkersOK, Goto
<1>2. OthersStay(w)
  BY DEF IInv, WorkersOK, Goto, OthersStay
<1> QED
  BY <1>1, <1>2, OthersKnow, ToldStays

\* A worker that answers is idle and holds nothing.
LEMMA Answers ==
  ASSUME IInv, NEW w \in Worker, NEW from \in Place, NEW text \in Text,
         NEW about \in OrNull(UserId), Reply(w, from, text, about), StoresGrow
  PROVE  WorkersOK' /\ Knowledge'
<1>0. "idle" \in Place /\ Null \in OrNull(UserId) /\ Null \in OrNull(SessionId) /\ NoReq \in RequestType
  BY DEF Place, OrNull, NoReq, RequestType
<1>1. [text |-> text, about |-> about] \in OrNull(ReplyType)
  BY DEF ReplyType, OrNull
<1>2. WorkersOK'
  BY <1>0, <1>1 DEF IInv, WorkersOK, Reply, Goto
<1>3. OthersStay(w)
  BY DEF IInv, WorkersOK, Reply, Goto, OthersStay
<1>4. AtPlace(w)'
  BY DEF IInv, WorkersOK, Reply, Goto, AtPlace
<1> QED
  BY <1>2, <1>3, <1>4, OthersKnow

\* Untouched stores stay as good as they were.
LEMMA StoresStay ==
  ASSUME IInv, UNCHANGED <<rows, redis>>
  PROVE  StoresGrow /\ RowsOK' /\ SessionsOK' /\ CodesOK'
BY DEF IInv, redis, StoresGrow, RowsOK, OneAccount, StoredAreWellFormed, SessionsOK,
       MarkHasSession, SessionsOf, CodesOK

\* A handler begins with a request that has passed its checks.
LEMMA AcceptKeeps ==
  ASSUME IInv, NEW w \in Worker, NEW r \in RequestType, NEW first \in {"select", "send", "code"},
         Accept(w, r, first), r.op \in Op, Checked(r)
  PROVE  IInv'
<1>1. StoresGrow /\ RowsOK' /\ SessionsOK' /\ CodesOK'
  BY StoresStay DEF Accept
<1>2. WorkersOK'
  BY DEF IInv, WorkersOK, Accept, Goto, Place, OrNull
<1>3. OthersStay(w)
  BY DEF IInv, WorkersOK, Accept, Goto, OthersStay
<1>4. AtPlace(w)'
  <2>1. pc[w] = "idle" /\ pc'[w] = first /\ req'[w] = r /\ ssid'[w] = ssid[w]
    BY DEF IInv, WorkersOK, Accept, Goto
  <2>2. ssid[w] = Null
    BY <2>1 DEF IInv, Knowledge, AtPlace
  <2> QED
    BY <2>1, <2>2 DEF AtPlace, Checked
<1>5. Knowledge' /\ ToldOK'
  BY <1>1, <1>3, <1>4, OthersKnow, ToldStays DEF Accept
<1> QED
  BY <1>1, <1>2, <1>5 DEF IInv

\* A worker that answers without a change to the stores.
LEMMA PlainAnswer ==
  ASSUME IInv, NEW w \in Worker, NEW from \in Place, NEW text \in Text,
         NEW about \in OrNull(UserId), Reply(w, from, text, about),
         UNCHANGED <<rows, redis, told>>
  PROVE  IInv'
<1>1. StoresGrow /\ RowsOK' /\ SessionsOK' /\ CodesOK'
  BY StoresStay
<1>2. WorkersOK' /\ Knowledge' /\ ToldOK'
  BY <1>1, Answers, ToldStays
<1> QED
  BY <1>1, <1>2 DEF IInv

\* Every request, accepted or refused.
LEMMA RequestKeeps ==
  ASSUME IInv, NEW w \in Worker, Request(w)
  PROVE  IInv'
<1>0. /\ "idle" \in Place /\ Null \in OrNull(UserId) /\ "badformat" \in Text
      /\ "select" \in {"select", "send", "code"} /\ "send" \in {"select", "send", "code"}
      /\ "code" \in {"select", "send", "code"}
  BY DEF Place, OrNull, Text
<1>1. ASSUME Refuse(w) PROVE IInv'
  <2>1. Reply(w, "idle", "badformat", Null) /\ UNCHANGED <<rows, redis, told>>
    BY <1>1 DEF Refuse
  <2> QED
    BY <1>0, <2>1, PlainAnswer
<1>2. ASSUME NEW n \in Nickname, NEW p \in Password, UserRegister(w, n, p)
      PROVE  IInv'
  <2> DEFINE r == [NoReq EXCEPT !.op = "UserRegister", !.name = n, !.password = p]
  <2>1. r \in RequestType /\ r.op \in Op /\ r.op = "UserRegister" /\ r.name = n /\ r.password = p
    BY DEF RequestType, NoReq, OrNull, Op
  <2> HIDE DEF r
  <2>2. CASE nickname_check(n) /\ password_check(p)
    <3>1. Accept(w, r, "select")
      BY <1>2, <2>2 DEF UserRegister, r
    <3>2. Checked(r)
      BY <2>1, <2>2 DEF Checked
    <3> QED
      BY <1>0, <2>1, <3>1, <3>2, AcceptKeeps
  <2>3. CASE ~(nickname_check(n) /\ password_check(p))
    BY <1>1, <1>2, <2>3 DEF UserRegister
  <2> QED
    BY <2>2, <2>3
<1>3. ASSUME NEW n \in Nickname \cup UserId, NEW p \in Password \cup {Empty}, UserLogin(w, n, p)
      PROVE  IInv'
  <2> DEFINE r == [NoReq EXCEPT !.op = "UserLogin", !.name = n, !.password = p]
  <2>1. r \in RequestType /\ r.op \in Op /\ Checked(r)
    BY DEF RequestType, NoReq, OrNull, Op, Checked
  <2>2. Accept(w, r, "select")
    BY <1>3 DEF UserLogin
  <2> HIDE DEF r
  <2> QED
    BY <1>0, <2>1, <2>2, AcceptKeeps
<1>4. ASSUME NEW r \in RequestType, NEW first \in {"select", "send", "code"},
             AcceptPhone(w, r, first), r.op \in Op \ {"UserRegister"}, r.phone \in Phone
      PROVE  IInv'
  <2>1. CASE phone_check(r.phone)
    <3>1. Checked(r) /\ r.op \in Op /\ Accept(w, r, first)
      BY <1>4, <2>1 DEF Checked, AcceptPhone
    <3> QED
      BY <3>1, AcceptKeeps
  <2>2. CASE ~phone_check(r.phone)
    BY <1>1, <1>4, <2>2 DEF AcceptPhone
  <2> QED
    BY <2>1, <2>2
<1>5. ASSUME NEW p \in Phone, GetPhoneVerifyCode(w, p)
      PROVE  IInv'
  <2> DEFINE r == [NoReq EXCEPT !.op = "GetPhoneVerifyCode", !.phone = p]
  <2>1. r \in RequestType /\ r.op \in Op \ {"UserRegister"} /\ r.phone \in Phone
    BY DEF RequestType, NoReq, OrNull, Op
  <2>2. AcceptPhone(w, r, "send")
    BY <1>5 DEF GetPhoneVerifyCode
  <2> HIDE DEF r
  <2> QED
    BY <1>0, <1>4, <2>1, <2>2
<1>6. ASSUME NEW p \in Phone, NEW c \in CodeId, NEW k \in Code,
             PhoneRegister(w, p, c, k) \/ PhoneLogin(w, p, c, k)
      PROVE  IInv'
  <2> DEFINE r(op) == PhoneRequest(op, p, c, k)
  <2>1. ASSUME NEW op \in {"PhoneRegister", "PhoneLogin"}
        PROVE  r(op) \in RequestType /\ r(op).op \in Op \ {"UserRegister"} /\ r(op).phone \in Phone
    BY DEF RequestType, NoReq, OrNull, Op, PhoneRequest
  <2>2. AcceptPhone(w, r("PhoneRegister"), "code") \/ AcceptPhone(w, r("PhoneLogin"), "select")
    BY <1>6 DEF PhoneRegister, PhoneLogin
  <2> HIDE DEF r
  <2> QED
    BY <1>0, <1>4, <2>1, <2>2
<1> QED
  BY <1>2, <1>3, <1>5, <1>6 DEF Request

--------------------------------------------------------------------------------
(* The handlers                                                               *)

\* What a look-up returns is in the table.
LEMMA SelectedIsThere ==
  ASSUME IInv, NEW w \in Worker, NEW u \in Selected(w)
  PROVE  u \in OrNull(UserId) /\ (u # Null => u \in DOMAIN rows)
BY DEF Selected, Asked, IInv, RowsOK, OrNull

\* The look-ups change no store; a login goes on with a user that is there.
LEMMA LookUpKeeps ==
  ASSUME IInv, NEW w \in Worker, selectFree(w) \/ selectLogin(w) \/ selectPhone(w)
  PROVE  IInv'
<1>0. /\ "select" \in Place /\ "insert" \in Place /\ "exists" \in Place /\ "code" \in Place
      /\ "taken" \in Text /\ "wrong" \in Text /\ "unregistered" \in Text
  BY DEF Place, Text
<1>1. StoresGrow /\ RowsOK' /\ SessionsOK' /\ CodesOK' /\ UNCHANGED <<rows, redis, told>>
  BY StoresStay DEF selectFree, selectLogin, selectPhone
<1>2. ASSUME NEW to \in Place, NEW who \in OrNull(UserId),
             Goto(w, "select", to), UNCHANGED <<req, ssid, reply>>,
             user' = [user EXCEPT ![w] = who],
             to \in {"insert", "exists", "code"},
             to = "insert" => req[w].op \in {"UserRegister", "PhoneRegister"},
             to = "exists" => who \in DOMAIN rows
      PROVE  IInv'
  <2>1. AtPlace(w)'
    <3>1. pc[w] = "select" /\ pc'[w] = to /\ req'[w] = req[w] /\ ssid'[w] = ssid[w] /\ user'[w] = who
      BY <1>2 DEF IInv, WorkersOK, Goto
    <3> QED
      BY <1>1, <1>2, <3>1 DEF IInv, Knowledge, AtPlace, Checked
  <2>2. /\ req' \in [Worker -> RequestType] /\ user' \in [Worker -> OrNull(UserId)]
        /\ ssid' \in [Worker -> OrNull(SessionId)]
        /\ \A v \in Worker \ {w} : req'[v] = req[v] /\ user'[v] = user[v] /\ ssid'[v] = ssid[v]
    BY <1>2 DEF IInv, WorkersOK
  <2>3. WorkersOK' /\ Knowledge' /\ ToldOK'
    BY <1>0, <1>1, <1>2, <2>1, <2>2, GoesOn
  <2> QED
    BY <1>1, <2>3 DEF IInv
<1>3. user = [user EXCEPT ![w] = user[w]] /\ user[w] \in OrNull(UserId)
  BY DEF IInv, WorkersOK
<1>4. CASE selectFree(w)
  <2>1. PICK u \in Selected(w) :
          \/ u # Null /\ Reply(w, "select", "taken", u)
          \/ u = Null /\ Goto(w, "select", "insert") /\ UNCHANGED <<req, user, ssid, reply>>
    BY <1>4 DEF selectFree
  <2>2. CASE Reply(w, "select", "taken", u)
    BY <1>0, <1>1, <2>2, SelectedIsThere, PlainAnswer
  <2>3. CASE Goto(w, "select", "insert") /\ UNCHANGED <<req, user, ssid, reply>>
    BY <1>0, <1>2, <1>3, <1>4, <2>3 DEF selectFree
  <2> QED
    BY <2>1, <2>2, <2>3
<1>5. CASE selectLogin(w)
  <2>1. PICK u \in Selected(w) :
          \/ Reply(w, "select", "wrong", u)
          \/ /\ u # Null
             /\ Goto(w, "select", "exists") /\ user' = [user EXCEPT ![w] = u]
             /\ UNCHANGED <<req, ssid, reply>>
    BY <1>5 DEF selectLogin
  <2>2. CASE Reply(w, "select", "wrong", u)
    BY <1>0, <1>1, <2>2, SelectedIsThere, PlainAnswer
  <2>3. CASE /\ u # Null
             /\ Goto(w, "select", "exists") /\ user' = [user EXCEPT ![w] = u]
             /\ UNCHANGED <<req, ssid, reply>>
    BY <1>0, <1>2, <2>3, SelectedIsThere
  <2> QED
    BY <2>1, <2>2, <2>3
<1>6. CASE selectPhone(w)
  <2>1. PICK u \in Selected(w) :
          \/ u # Null /\ Reply(w, "select", "unregistered", u)
          \/ u = Null /\ Goto(w, "select", "code") /\ UNCHANGED <<req, user, ssid, reply>>
    BY <1>6 DEF selectPhone
  <2>2. CASE Reply(w, "select", "unregistered", u)
    BY <1>0, <1>1, <2>2, SelectedIsThere, PlainAnswer
  <2>3. CASE Goto(w, "select", "code") /\ UNCHANGED <<req, user, ssid, reply>>
    BY <1>0, <1>2, <1>3, <2>3
  <2> QED
    BY <2>1, <2>2, <2>3
<1> QED
  BY <1>4, <1>5, <1>6

\* The row a handler inserts is well formed and, as the indexes let it in, the
\* only one with its name and number.
LEMMA InsertKeeps ==
  ASSUME IInv, NEW w \in Worker, insert(w)
  PROVE  IInv'
<1>1. PICK u \in NewId : /\ ~Clash(w, u)
                         /\ rows' = With(rows, u, NewRow(w, u))
                         /\ Reply(w, "insert", "failed", u)
  BY DEF insert
<1> DEFINE new == NewRow(w, u)
<1>2. u \in UserId /\ u \notin DOMAIN rows
  BY DEF NewId
<1>3. /\ DOMAIN rows' = DOMAIN rows \cup {u}
      /\ rows'[u] = new
      /\ \A v \in DOMAIN rows : rows'[v] = rows[v]
  BY <1>1, <1>2 DEF With
<1>4. UNCHANGED <<session, status, codes, told>>
  BY DEF insert, redis
<1>5. StoresGrow
  BY <1>3, <1>4 DEF StoresGrow
<1>6. WorkersOK' /\ Knowledge' /\ ToldOK'
  <2>1. "insert" \in Place /\ "failed" \in Text /\ u \in OrNull(UserId)
    BY <1>2 DEF Place, OrNull, Text
  <2> QED
    BY <1>1, <1>4, <1>5, <2>1, Answers, ToldStays
<1>7. /\ new.nickname \in Nickname \cup {u}
      /\ new.password \in Password \cup {Null}
      /\ new.phone \in Phone \cup {Null}
      /\ new.nickname # u => nickname_check(new.nickname)
      /\ new.password # Null => new.password \in Seq(Char) /\ password_check(new.password)
  <2>1. pc[w] = "insert"
    BY <1>1 DEF Reply, Goto
  <2>2. req[w].op \in {"UserRegister", "PhoneRegister"} /\ Checked(req[w])
    BY <2>1 DEF IInv, Knowledge, AtPlace
  <2> QED
    BY <2>2, StringsAssumption DEF Checked, NewRow
<1>8. /\ new.nickname # u => Len(new.nickname) <= 22
      /\ new.password # Null => IsPassword(new.password)
  <2>1. new.nickname # u => new.nickname \in Seq(Char) /\ Len(new.nickname) < 22
    BY <1>7, StringsAssumption DEF nickname_check
  <2>2. \A s \in Seq(Char) : Len(s) < 22 => Len(s) <= 22
    OBVIOUS
  <2>3. new.nickname # u => Len(new.nickname) <= 22
    BY <2>1, <2>2
  <2> QED
    BY <1>7, <2>3, PasswordSound
<1>9. \A v \in DOMAIN rows :
        /\ rows[v].nickname # new.nickname
        /\ rows[v].phone # Null => rows[v].phone # new.phone
  BY <1>1 DEF Clash
<1> HIDE DEF new
<1>10. RowsOK'
  <2>1. StoredAreWellFormed'
    BY <1>3, <1>8 DEF IInv, RowsOK, StoredAreWellFormed
  <2>2. OneAccount'
    BY <1>3, <1>9 DEF IInv, RowsOK, OneAccount
  <2> QED
    BY <1>2, <1>3, <1>7, <2>1, <2>2 DEF IInv, RowsOK
<1>11. SessionsOK' /\ CodesOK'
  BY <1>3, <1>4 DEF IInv, SessionsOK, CodesOK, MarkHasSession, SessionsOf
<1> QED
  BY <1>6, <1>10, <1>11 DEF IInv

\* The three Redis steps of UserLogin, in their order, and its answer.
LEMMA LoginKeeps ==
  ASSUME IInv, NEW w \in Worker,
         existsStatus(w) \/ appendSession(w) \/ appendStatus(w) \/ answer(w)
  PROVE  IInv'
<1>0. /\ "exists" \in Place /\ "session" \in Place /\ "mark" \in Place /\ "answer" \in Place
      /\ "elsewhere" \in Text /\ "ok" \in Text
  BY DEF Place, Text
<1>1. user[w] \in OrNull(UserId)
  BY DEF IInv, WorkersOK
<1>2. CASE existsStatus(w)
  <2>1. StoresGrow /\ RowsOK' /\ SessionsOK' /\ CodesOK' /\ UNCHANGED <<rows, redis, told>>
    BY <1>2, StoresStay DEF existsStatus
  <2>2. CASE Reply(w, "exists", "elsewhere", user[w])
    BY <1>0, <1>1, <2>1, <2>2, PlainAnswer
  <2>3. CASE Goto(w, "exists", "session") /\ UNCHANGED <<req, user, ssid, reply>>
    <3>1. pc[w] = "exists" /\ pc'[w] = "session"
      BY <2>3 DEF IInv, WorkersOK, Goto
    <3>2. AtPlace(w)'
      BY <2>1, <2>3, <3>1 DEF IInv, Knowledge, AtPlace, Checked
    <3>3. WorkersOK' /\ Knowledge' /\ ToldOK'
      BY <1>0, <2>1, <2>3, <3>2, GoesOn DEF IInv, WorkersOK
    <3> QED
      BY <2>1, <3>3 DEF IInv
  <2> QED
    BY <1>2, <2>2, <2>3 DEF existsStatus
<1>3. CASE appendSession(w)
  <2>1. PICK s \in SessionId \ DOMAIN session :
          /\ session' = With(session, s, user[w])
          /\ ssid' = [ssid EXCEPT ![w] = s]
    BY <1>3 DEF appendSession
  <2>2. /\ DOMAIN session' = DOMAIN session \cup {s}
        /\ session'[s] = user[w]
        /\ \A x \in DOMAIN session : session'[x] = session[x]
    BY <2>1 DEF With
  <2>3. Goto(w, "session", "mark") /\ UNCHANGED <<rows, status, codes, req, user, reply, told>>
    BY <1>3 DEF appendSession
  <2>4. StoresGrow
    BY <2>2, <2>3 DEF StoresGrow
  <2>5. pc[w] = "session" /\ pc'[w] = "mark" /\ ssid'[w] = s
    BY <2>1, <2>3 DEF IInv, WorkersOK, Goto
  <2>6. user[w] \in DOMAIN rows
    BY <2>5 DEF IInv, Knowledge, AtPlace
  <2>7. AtPlace(w)'
    BY <2>2, <2>3, <2>5, <2>6 DEF IInv, Knowledge, AtPlace, Checked
  <2>8. /\ ssid' \in [Worker -> OrNull(SessionId)]
        /\ \A v \in Worker \ {w} : ssid'[v] = ssid[v]
    BY <2>1 DEF IInv, WorkersOK, OrNull
  <2>9. WorkersOK' /\ Knowledge' /\ ToldOK'
    BY <1>0, <2>3, <2>4, <2>7, <2>8, GoesOn DEF IInv, WorkersOK
  <2>10. SessionsOK'
    BY <2>2, <2>3, <2>6 DEF IInv, SessionsOK, MarkHasSession, SessionsOf
  <2>11. RowsOK' /\ CodesOK'
    BY <2>3 DEF IInv, RowsOK, OneAccount, StoredAreWellFormed, CodesOK
  <2> QED
    BY <2>9, <2>10, <2>11 DEF IInv
<1>4. CASE appendStatus(w)
  <2>1. /\ Goto(w, "mark", "answer")
        /\ status' = status \cup {user[w]}
        /\ UNCHANGED <<rows, session, codes, req, user, ssid, reply, told>>
    BY <1>4 DEF appendStatus
  <2>2. StoresGrow
    BY <2>1 DEF StoresGrow
  <2>3. pc[w] = "mark" /\ pc'[w] = "answer"
    BY <2>1 DEF IInv, WorkersOK, Goto
  <2>4. user[w] \in DOMAIN rows /\ ssid[w] \in DOMAIN session /\ session[ssid[w]] = user[w]
    BY <2>3 DEF IInv, Knowledge, AtPlace
  <2>5. AtPlace(w)'
    BY <2>1, <2>3, <2>4 DEF IInv, Knowledge, AtPlace, Checked
  <2>6. WorkersOK' /\ Knowledge' /\ ToldOK'
    BY <1>0, <2>1, <2>2, <2>5, GoesOn DEF IInv, WorkersOK
  <2>7. SessionsOK'
    BY <2>1, <2>4 DEF IInv, RowsOK, SessionsOK, MarkHasSession, SessionsOf
  <2>8. RowsOK' /\ CodesOK'
    BY <2>1 DEF IInv, RowsOK, OneAccount, StoredAreWellFormed, CodesOK
  <2> QED
    BY <2>6, <2>7, <2>8 DEF IInv
<1>5. CASE answer(w)
  <2>1. /\ Reply(w, "answer", "ok", user[w])
        /\ told' = With(told, ssid[w], user[w])
        /\ UNCHANGED <<rows, redis>>
    BY <1>5 DEF answer
  <2>2. StoresGrow /\ RowsOK' /\ SessionsOK' /\ CodesOK'
    BY <2>1, StoresStay
  <2>3. pc[w] = "answer"
    BY <2>1 DEF Reply, Goto
  <2>4. /\ user[w] \in DOMAIN rows /\ user[w] \in status
        /\ ssid[w] \in DOMAIN session /\ session[ssid[w]] = user[w]
        /\ ssid[w] \in SessionId
    BY <2>3 DEF IInv, Knowledge, AtPlace, SessionsOK
  <2>5. PICK k, u, f : k = ssid[w] /\ u = user[w] /\ f = told'
    OBVIOUS
  <2>6. f = [x \in DOMAIN told \cup {k} |-> IF x = k THEN u ELSE told[x]]
    BY <2>1, <2>5 DEF With
  <2>7. /\ DOMAIN f = DOMAIN told \cup {k}
         /\ f[k] = u
         /\ \A s \in DOMAIN told \ {k} : f[s] = told[s]
    BY <2>6
  <2>8. UNCHANGED <<rows, session, status>>
    BY <2>1 DEF redis
  <2>9. ToldOK'
    BY <2>4, <2>5, <2>8, <2>7 DEF IInv, ToldOK, SuccessIsRecorded
  <2>10. WorkersOK' /\ Knowledge'
    BY <1>0, <1>1, <2>1, <2>2, Answers
  <2> QED
    BY <2>2, <2>9, <2>10 DEF IInv
<1> QED
  BY <1>2, <1>3, <1>4, <1>5

\* A change to the codes alone.
LEMMA CodesChange ==
  ASSUME IInv, UNCHANGED <<rows, session, status>>
  PROVE  StoresGrow /\ RowsOK' /\ SessionsOK'
BY DEF IInv, StoresGrow, RowsOK, OneAccount, StoredAreWellFormed, SessionsOK,
       MarkHasSession, SessionsOf

\* The steps of the verification codes.
LEMMA CodeKeeps ==
  ASSUME IInv, NEW w \in Worker,
         send(w) \/ appendCode(w) \/ checkCode(w) \/ removeCode(w)
  PROVE  IInv'
<1>0. /\ "send" \in Place /\ "store" \in Place /\ "code" \in Place /\ "remove" \in Place
      /\ "select" \in Place /\ "deref" \in Place
      /\ "unsent" \in Text /\ "badcode" \in Text /\ "ok" \in Text /\ Null \in OrNull(UserId)
  BY DEF Place, Text, OrNull
<1>1. CASE send(w)
  <2>1. StoresGrow /\ RowsOK' /\ SessionsOK' /\ CodesOK' /\ UNCHANGED <<rows, redis, told>>
    BY <1>1, StoresStay DEF send
  <2>2. CASE Reply(w, "send", "unsent", Null)
    BY <1>0, <2>1, <2>2, PlainAnswer
  <2>3. ASSUME NEW k \in Code, Goto(w, "send", "store"), req' = [req EXCEPT ![w].code = k],
               UNCHANGED <<user, ssid, reply>>
        PROVE  IInv'
    <3>1. pc[w] = "send" /\ pc'[w] = "store"
      BY <2>3 DEF IInv, WorkersOK, Goto
    <3>2. /\ req' \in [Worker -> RequestType]
          /\ \A v \in Worker \ {w} : req'[v] = req[v]
          /\ req'[w] = [req[w] EXCEPT !.code = k]
      BY <2>3 DEF IInv, WorkersOK, RequestType, OrNull
    <3>3. /\ req'[w].code = k /\ req'[w].op = req[w].op /\ req'[w].name = req[w].name
          /\ req'[w].password = req[w].password /\ req'[w].phone = req[w].phone
      BY <3>2 DEF IInv, WorkersOK, RequestType
    <3>4. AtPlace(w)'
      BY <2>1, <2>3, <3>1, <3>3 DEF IInv, Knowledge, AtPlace, Checked
    <3>5. WorkersOK' /\ Knowledge' /\ ToldOK'
      BY <1>0, <2>1, <2>3, <3>2, <3>4, GoesOn DEF IInv, WorkersOK
    <3> QED
      BY <2>1, <3>5 DEF IInv
  <2> QED
    BY <1>1, <2>2, <2>3 DEF send
<1>2. CASE appendCode(w)
  <2>1. PICK c \in CodeId \ DOMAIN codes : codes' = With(codes, c, req[w].code)
    BY <1>2 DEF appendCode
  <2>2. Reply(w, "store", "ok", Null) /\ UNCHANGED <<rows, session, status, told>>
    BY <1>2 DEF appendCode
  <2>3. req[w].code \in Code
    BY <2>2 DEF IInv, Knowledge, AtPlace, Reply, Goto
  <2>4. WorkersOK' /\ Knowledge' /\ ToldOK'
    BY <1>0, <2>2, CodesChange, Answers, ToldStays
  <2>5. CodesOK'
    BY <2>1, <2>3 DEF IInv, CodesOK, With
  <2> QED
    BY <2>2, <2>4, <2>5, CodesChange DEF IInv
<1>3. CASE checkCode(w)
  <2>1. StoresGrow /\ RowsOK' /\ SessionsOK' /\ CodesOK' /\ UNCHANGED <<rows, redis, told>>
    BY <1>3, StoresStay DEF checkCode
  <2>2. CASE Reply(w, "code", "badcode", Null)
    BY <1>0, <2>1, <2>2, PlainAnswer
  <2>3. ASSUME NEW to \in {"remove", "select"}, Goto(w, "code", to),
               UNCHANGED <<req, user, ssid, reply>>
        PROVE  IInv'
    <3>1. pc[w] = "code" /\ pc'[w] = to
      BY <2>3 DEF IInv, WorkersOK, Goto
    <3>2. AtPlace(w)'
      BY <2>1, <2>3, <3>1 DEF IInv, Knowledge, AtPlace, Checked
    <3>3. WorkersOK' /\ Knowledge' /\ ToldOK'
      BY <1>0, <2>1, <2>3, <3>2, GoesOn DEF IInv, WorkersOK
    <3> QED
      BY <2>1, <3>3 DEF IInv
  <2> QED
    BY <1>3, <2>2, <2>3 DEF checkCode
<1>4. CASE removeCode(w)
  <2>1. /\ Goto(w, "remove", "deref") /\ codes' = Without(codes, req[w].codeId)
        /\ UNCHANGED <<rows, session, status, req, user, ssid, reply, told>>
    BY <1>4 DEF removeCode
  <2>2. pc[w] = "remove" /\ pc'[w] = "deref"
    BY <2>1 DEF IInv, WorkersOK, Goto
  <2>3. AtPlace(w)'
    BY <2>1, <2>2 DEF IInv, Knowledge, AtPlace, Checked
  <2>4. WorkersOK' /\ Knowledge' /\ ToldOK'
    BY <1>0, <2>1, <2>3, CodesChange, GoesOn DEF IInv, WorkersOK
  <2>5. CodesOK'
    BY <2>1 DEF IInv, CodesOK, Without
  <2> QED
    BY <2>1, <2>4, <2>5, CodesChange DEF IInv
<1> QED
  BY <1>1, <1>2, <1>3, <1>4

--------------------------------------------------------------------------------
(* Every step                                                                 *)

\* The handlers end; the stores stay.
LEMMA DieKeeps ==
  ASSUME IInv, Die
  PROVE  IInv'
<1>1. StoresGrow /\ RowsOK' /\ SessionsOK' /\ CodesOK'
  BY StoresStay DEF Die
<1>2. WorkersOK'
  BY DEF IInv, WorkersOK, Die, Place, OrNull, RequestType, NoReq
<1>3. Knowledge'
  BY DEF Die, Knowledge, AtPlace
<1>4. ToldOK'
  BY <1>1, ToldStays DEF Die
<1> QED
  BY <1>1, <1>2, <1>3, <1>4 DEF IInv

\* A code that times out takes nothing else with it.
LEMMA ExpireKeeps ==
  ASSUME IInv, expire
  PROVE  IInv'
<1>1. /\ \E c \in DOMAIN codes : codes' = Without(codes, c)
      /\ UNCHANGED <<rows, session, status, pc, req, user, ssid, reply, told>>
  BY DEF expire
<1>2. CodesOK'
  BY <1>1 DEF IInv, CodesOK, Without
<1>3. WorkersOK' /\ Knowledge' /\ ToldOK'
  BY <1>1 DEF IInv, WorkersOK, Knowledge, AtPlace, Checked, ToldOK, SuccessIsRecorded
<1> QED
  BY <1>1, <1>2, <1>3, CodesChange DEF IInv

\* One step of a handler.
LEMMA HandlerKeeps ==
  ASSUME IInv, NEW w \in Worker, Handler(w)
  PROVE  IInv'
<1>1. CASE insertFailed(w)
  <2>1. "insert" \in Place /\ "failed" \in Text /\ Null \in OrNull(UserId)
    BY DEF Place, Text, OrNull
  <2> QED
    BY <1>1, <2>1, PlainAnswer DEF insertFailed
<1>2. CASE nullUser(w)
  BY <1>2, DieKeeps DEF nullUser
<1> QED
  BY <1>1, <1>2, LookUpKeeps, InsertKeeps, LoginKeeps, CodeKeeps DEF Handler

\* The invariant holds in every reachable state.
LEMMA Invariance == Spec => []IInv
<1>1. Init => IInv
  <2> SUFFICES ASSUME Init PROVE IInv
    OBVIOUS
  <2>1. WorkersOK
    BY DEF Init, WorkersOK, Place, OrNull, RequestType, NoReq
  <2>2. Knowledge /\ ToldOK
    BY DEF Init, Knowledge, AtPlace, ToldOK, SuccessIsRecorded
  <2>3. RowsOK /\ SessionsOK /\ CodesOK
    BY DEF Init, RowsOK, OneAccount, StoredAreWellFormed, SessionsOK, MarkHasSession, CodesOK
  <2> QED
    BY <2>1, <2>2, <2>3 DEF IInv
<1>2. IInv /\ [Next]_vars => IInv'
  <2> SUFFICES ASSUME IInv, [Next]_vars PROVE IInv'
    OBVIOUS
  <2>1. ASSUME NEW w \in Worker, Request(w) PROVE IInv'
    BY <2>1, RequestKeeps
  <2>2. ASSUME NEW w \in Worker, Handler(w) PROVE IInv'
    BY <2>2, HandlerKeeps
  <2>3. CASE crash
    BY <2>3, DieKeeps DEF crash
  <2>4. CASE UNCHANGED vars
    <3>1. StoresGrow /\ RowsOK' /\ SessionsOK' /\ CodesOK'
      BY <2>4, StoresStay DEF vars, redis
    <3>2. WorkersOK' /\ Knowledge' /\ ToldOK'
      BY <2>4 DEF vars, redis, IInv, WorkersOK, Knowledge, AtPlace, Checked, ToldOK,
                      SuccessIsRecorded
    <3> QED
      BY <3>1, <3>2 DEF IInv
  <2> QED
    BY <2>1, <2>2, <2>3, <2>4, ExpireKeeps DEF Next
<1> QED
  BY <1>1, <1>2, PTL DEF Spec

--------------------------------------------------------------------------------
(* The theorems                                                               *)

\* The tables and keys, and what the handlers hold, are of their types.
THEOREM TypeCorrect == Spec => []TypeOK
<1>1. IInv => TypeOK
  BY DEF IInv, RowsOK, SessionsOK, CodesOK, ToldOK, Knowledge, AtPlace, TypeOK
<1> QED
  BY <1>1, Invariance, PTL

\* Check-then-insert races never make two accounts of a nickname or a number: the
\* unique indexes decide, whatever the look-up said.
THEOREM AccountsAreUnique == Spec => []OneAccount
<1>1. IInv => OneAccount
  BY DEF IInv, RowsOK
<1> QED
  BY <1>1, Invariance, PTL

\* Names and passwords of rows, whoever inserted them, have passed the handler's
\* checks, and these two checks are no wider than the comments say.
THEOREM RowsAreWellFormed == Spec => []StoredAreWellFormed
<1>1. IInv => StoredAreWellFormed
  BY DEF IInv, RowsOK
<1> QED
  BY <1>1, Invariance, PTL

\* UserLogin stores the session before the mark, so no crash between the two
\* leaves a mark alone.
THEOREM MarksHaveSessions == Spec => []MarkHasSession
<1>1. IInv => MarkHasSession
  BY DEF IInv, SessionsOK
<1> QED
  BY <1>1, Invariance, PTL

\* What a login reported stays so: session and mark are there for good.
THEOREM SuccessStays == Spec => []SuccessIsRecorded
<1>1. IInv => SuccessIsRecorded
  BY DEF IInv, ToldOK
<1> QED
  BY <1>1, Invariance, PTL

================================================================================
