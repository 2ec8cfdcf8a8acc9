------------------------------- MODULE UserProfile -----------------------------
(******************************************************************************)
(* The handlers of the user service that read and change a registered user    *)
(* (user_server.hpp): SetUserAvatar, SetUserNickname, SetUserDescription,     *)
(* SetUserPhoneNumber, GetUserInfo and GetMultiUserInfo.  A setter reads the  *)
(* whole row in one transaction, writes the whole row back in another, then   *)
(* indexes the whole document in Elasticsearch from its copy; SetUserAvatar   *)
(* stores the picture on a file server before.  brpc runs handlers            *)
(* concurrently; any call may fail, and the process may crash between steps.  *)
(*                                                                            *)
(* Requests the format checks or the verification code reject change nothing  *)
(* and are not requests here.  MySQL, Elasticsearch, the file servers' disks: *)
(* an update is a transaction, an index request replaces the document.        *)
(******************************************************************************)
EXTENDS Naturals

CONSTANTS
  User, Worker,
  Node,      \* file servers choose() may return, each with a disk of its own
  Nickname, Phone, Description,
  FileId,    \* ids uuid() may give to stored pictures
  Null,      \* an odb::nullable without a value
  Empty,     \* the string "", what `*' makes of such a nullable
  First,     \* the nickname each user registered with
  Failures,  \* may calls to MySQL, Elasticsearch and file servers fail?
  Beside     \* do the histories keep setters that ran beside one of the same user?

Field == {"nickname", "phone", "description", "avatar"}
Unique == {"nickname", "phone"}

ValueOf == [f \in Field |-> CASE f = "nickname" -> Nickname
                              [] f = "phone" -> Phone
                              [] f = "description" -> Description
                              [] f = "avatar" -> FileId]

\* Registration gave every user a nickname of its own (the unique index).
ASSUME FirstAssumption ==
  /\ First \in [User -> Nickname]
  /\ \A u, v \in User : First[u] = First[v] => u = v
ASSUME NullAssumption == Null \notin User
ASSUME ModeAssumption == Failures \in BOOLEAN /\ Beside \in BOOLEAN

Registered(u) == [f \in Field |-> IF f = "nickname" THEN First[u] ELSE Null]

\* Faulty: avatar_id copied without asking whether it has a value.
DocumentRaw(row) == [f \in Field |-> row[f]]

\* The document appendData sends for a row: (*nickname, *phone, ...).
Document(row) == [f \in Field |-> IF row[f] = Null THEN Empty ELSE row[f]]

VARIABLES
  rows,   \* MySQL: the user table
  docs,   \* Elasticsearch: the index "user"; Null for a user without document
  files,  \* the files on the disk of each file server
  pc,     \* where each worker is
  req,    \* the setter it runs: [user, field, value]
  copy,   \* its User object
  want,   \* the files a reader asks for
  alone,  \* history: has no other setter of its user run beside this one?
  acked,  \* history: of each field, the value last reported stored
  told    \* history: did the last setter of the user report success?

vars == <<rows, docs, files, pc, req, copy, want, alone, acked, told>>

NoReq == [user |-> Null, field |-> Null, value |-> Null]

Init ==
  /\ rows = [u \in User |-> Registered(u)]
  /\ docs = [u \in User |-> Null]
  /\ files = [n \in Node |-> {}]
  /\ pc = [w \in Worker |-> "idle"]
  /\ req = [w \in Worker |-> NoReq]
  /\ copy = [w \in Worker |-> Null]
  /\ want = [w \in Worker |-> {}]
  /\ alone = [w \in Worker |-> TRUE]
  /\ acked = [u \in User |-> [f \in Field |-> Null]]
  /\ told = [u \in User |-> FALSE]

Goto(w, from, to) == pc[w] = from /\ pc' = [pc EXCEPT ![w] = to]

Kept(w) == alone[w] \/ Beside

\* The handler returns; its locals are gone.
Return(w, from, ok) ==
  /\ Goto(w, from, "idle")
  /\ told' = [told EXCEPT ![req[w].user] = ok /\ Kept(w)]
  /\ alone' = [alone EXCEPT ![w] = TRUE]
  /\ req' = [req EXCEPT ![w] = NoReq]
  /\ copy' = [copy EXCEPT ![w] = Null]

--------------------------------------------------------------------------------
(* Setters                                                                    *)

SetUser(w, u, f, v) ==
  LET beside == {x \in Worker : req[x].user = u} IN
  /\ Goto(w, "idle", "select")
  /\ alone' = [x \in Worker |-> IF x = w THEN beside = {} ELSE alone[x] /\ x \notin beside]
  /\ req' = [req EXCEPT ![w] = [user |-> u, field |-> f, value |-> v]]
  /\ told' = [told EXCEPT ![u] = FALSE]
  /\ UNCHANGED <<rows, docs, files, copy, want, acked>>

\* The value of an avatar is known when its file is stored.
Request(w, u) ==
  \/ \E f \in Field \ {"avatar"} : \E v \in ValueOf[f] : SetUser(w, u, f, v)
  \/ SetUser(w, u, "avatar", Null)

\* select_by_id
select(w) ==
  /\ Goto(w, "select", IF req[w].field = "avatar" THEN "upload" ELSE "update")
  /\ copy' = [copy EXCEPT ![w] = rows[req[w].user]]
  /\ UNCHANGED <<rows, docs, files, req, want, alone, acked, told>>

selectFailed(w) ==
  /\ Failures
  /\ Return(w, "select", FALSE)
  /\ UNCHANGED <<rows, docs, files, want, acked>>

\* choose and PutSingleFile: uuid() makes a new id, the file is written.
Stored == UNION {files[n] : n \in Node}

\* Faulty: the id is answered although the file could not be written.
PutSingleFileUnwritten(w) ==
  /\ Goto(w, "upload", "update")
  /\ \E fid \in FileId \ Stored : req' = [req EXCEPT ![w].value = fid]
  /\ UNCHANGED <<rows, docs, files, copy, want, alone, acked, told>>

PutSingleFile(w) ==
  /\ Goto(w, "upload", "update")
  /\ \E n \in Node, fid \in FileId \ Stored :
       /\ files' = [files EXCEPT ![n] = @ \cup {fid}]
       /\ req' = [req EXCEPT ![w].value = fid]
  /\ UNCHANGED <<rows, docs, copy, want, alone, acked, told>>

\* Faulty: the success of the call is not looked at.
putFailedIgnored(w) ==
  /\ Failures
  /\ Goto(w, "upload", "update")
  /\ \E fid \in FileId \ Stored : req' = [req EXCEPT ![w].value = fid]
  /\ UNCHANGED <<rows, docs, files, copy, want, alone, acked, told>>

\* No file server, or the call failed, perhaps after the file was written.
putFailed(w) ==
  /\ Failures
  /\ Return(w, "upload", FALSE)
  /\ \/ UNCHANGED files
     \/ \E n \in Node, fid \in FileId \ Stored : files' = [files EXCEPT ![n] = @ \cup {fid}]
  /\ UNCHANGED <<rows, docs, want, acked>>

\* Faulty: an object made anew, its other fields as registered.
EditedAlone(w) == [Registered(req[w].user) EXCEPT ![req[w].field] = req[w].value]

\* The User object after its setter: every other field as it was read.
Edited(w) == [copy[w] EXCEPT ![req[w].field] = req[w].value]

\* Faulty: no unique index on phone.
ConflictNickname(w) ==
  \E u \in User \ {req[w].user} : rows[u]["nickname"] = Edited(w)["nickname"]

Conflict(w) ==
  \E u \in User \ {req[w].user}, f \in Unique :
    rows[u][f] # Null /\ rows[u][f] = Edited(w)[f]

Write(w) ==
  /\ rows' = [rows EXCEPT ![req[w].user] = Edited(w)]
  /\ acked' = [acked EXCEPT ![req[w].user][req[w].field] = Null]

\* Faulty: the row is updated from another object than the one indexed later.
updateKeepsCopy(w) ==
  /\ Goto(w, "update", "index")
  /\ ~Conflict(w)
  /\ Write(w)
  /\ UNCHANGED <<docs, files, req, copy, want, alone, told>>

update(w) ==
  /\ Goto(w, "update", "index")
  /\ ~Conflict(w)
  /\ Write(w)
  /\ copy' = [copy EXCEPT ![w] = Edited(w)]
  /\ UNCHANGED <<docs, files, req, want, alone, told>>

\* update returned false: a unique index, or an exception before or after the
\* commit took effect.
updateFailed(w) ==
  /\ Return(w, "update", FALSE)
  /\ \/ (Conflict(w) \/ Failures) /\ UNCHANGED <<rows, acked>>
     \/ Failures /\ ~Conflict(w) /\ Write(w)
  /\ UNCHANGED <<docs, files, want>>

\* ESUser::appendData with all fields of the copy
appendData(w) ==
  LET r == req[w] IN
  /\ Return(w, "index", TRUE)
  /\ docs' = [docs EXCEPT ![r.user] = Document(copy[w])]
  /\ acked' = [acked EXCEPT ![r.user][r.field] = IF Kept(w) THEN r.value ELSE Null]
  /\ UNCHANGED <<rows, files, want>>

appendDataFailed(w) ==
  /\ Failures
  /\ Return(w, "index", FALSE)
  /\ docs' \in {docs, [docs EXCEPT ![req[w].user] = Document(copy[w])]}
  /\ UNCHANGED <<rows, files, want, acked>>

--------------------------------------------------------------------------------
(* Readers                                                                    *)

\* A user without avatar is answered from the row; else the file is asked for.
GetUserInfo(w, u) ==
  /\ rows[u]["avatar"] # Null
  /\ Goto(w, "idle", "fetch")
  /\ want' = [want EXCEPT ![w] = {rows[u]["avatar"]}]
  /\ UNCHANGED <<rows, docs, files, req, copy, alone, acked, told>>

\* The request to the file service lists *avatar_id of every user.
GetMultiUserInfo(w, us) ==
  /\ Goto(w, "idle", "fetch")
  /\ want' = [want EXCEPT ![w] = {Document(rows[u])["avatar"] : u \in us}]
  /\ UNCHANGED <<rows, docs, files, req, copy, alone, acked, told>>

\* GetSingleFile or GetMultiFile of the node choose returned, and the reply.
fetched(w) ==
  /\ Goto(w, "fetch", "idle")
  /\ want' = [want EXCEPT ![w] = {}]
  /\ UNCHANGED <<rows, docs, files, req, copy, alone, acked, told>>

\* The process dies; every handler is gone, nobody is told anything.
crash ==
  /\ Failures
  /\ \E w \in Worker : pc[w] # "idle"
  /\ pc' = [w \in Worker |-> "idle"]
  /\ req' = [w \in Worker |-> NoReq]
  /\ copy' = [w \in Worker |-> Null]
  /\ want' = [w \in Worker |-> {}]
  /\ alone' = [w \in Worker |-> TRUE]
  /\ UNCHANGED <<rows, docs, files, acked, told>>

Handler(w) ==
  \/ select(w) \/ selectFailed(w) \/ PutSingleFile(w) \/ putFailed(w)
  \/ update(w) \/ updateFailed(w) \/ appendData(w) \/ appendDataFailed(w)
  \/ fetched(w)

Next ==
  \/ \E w \in Worker, u \in User : Request(w, u) \/ GetUserInfo(w, u)
  \/ \E w \in Worker, us \in SUBSET User \ {{}} : GetMultiUserInfo(w, us)
  \/ \E w \in Worker : Handler(w)
  \/ crash

Spec == Init /\ [][Next]_vars

--------------------------------------------------------------------------------
(* Properties                                                                 *)

TypeOK ==
  /\ rows \in [User -> [Field -> Nickname \cup Phone \cup Description \cup FileId \cup {Null}]]
  /\ \A u \in User, f \in Field : rows[u][f] \in ValueOf[f] \cup {Null}
  /\ \A u \in User : docs[u] = Null \/ DOMAIN docs[u] = Field
  /\ files \in [Node -> SUBSET FileId]
  /\ pc \in [Worker -> {"idle", "select", "upload", "update", "index", "fetch"}]
  /\ \A w \in Worker : want[w] \subseteq FileId \cup {Empty}

\* The picture is stored before the row names it: at no moment, whatever failed
\* or crashed between the steps, does a row or a document name a picture that is
\* on no file server.
NoDanglingAvatar ==
  \A u \in User :
    /\ rows[u]["avatar"] \in Stored \cup {Null}
    /\ docs[u] # Null => docs[u]["avatar"] \in Stored \cup {Empty}

\* A nickname or phone number belongs to one user, whatever order the handlers
\* read and write back their copies in.
OneOwner ==
  \A u, v \in User, f \in Unique :
    u # v /\ rows[u][f] # Null => rows[u][f] # rows[v][f]

\* A setter that reports success ("返回更新成功与否", user_server.hpp:473) has stored
\* its value, and it stays until someone asks to change that very field.  Without
\* Beside this is about setters that no other setter of their user ran beside:
\* setters of other users, failed and crashed setters before them, setters of any
\* field afterwards do not undo them.
AckedSurvives ==
  \A u \in User, f \in Field :
    acked[u][f] # Null => rows[u][f] = acked[u][f]

\* After such a setter the search index shows the row, also what earlier setters
\* wrote to MySQL and failed to index.
\* ("更新 ES 服务器中用户信息", user_server.hpp:467)
SuccessMeansIndexed ==
  \A u \in User : told[u] => docs[u] = Document(rows[u])

\* "更新 ES 服务器中用户信息" (user_server.hpp:467): when nothing fails, and no handler
\* is at work on a user any more, the index shows the row that setters left,
\* whatever ran beside what.
IndexSettles ==
  \A u \in User :
    told[u] /\ (\A w \in Worker : req[w].user # u) => docs[u] = Document(rows[u])

\* The pictures a reader asks for are on the node it asks, whichever that is.
\* ("根据用户信息中的头像 ID, 从文件服务器获取头像文件数据", user_server.hpp:288)
AvatarReadable ==
  \A w \in Worker, n \in Node : want[w] \ {Empty} \subseteq files[n]

\* A reader asks for pictures only: a user need not have one ("用户头像ID --
\* 不一定存在", user.hxx:53), and the file service has no file without a name.
AsksForPictures == \A w \in Worker : Empty \notin want[w]

================================================================================
