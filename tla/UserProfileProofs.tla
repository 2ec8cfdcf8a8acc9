--------------------------- MODULE UserProfileProofs ---------------------------
(******************************************************************************)
(* What the setters of user profiles keep true for every number of users,     *)
(* handlers, file servers and values, whatever calls fail and whenever the    *)
(* process dies.                                                              *)
(******************************************************************************)
EXTENDS UserProfile, TLAPS

--------------------------------------------------------------------------------
(* The data                                                                   *)

Place == {"idle", "select", "upload", "update", "index", "fetch"}

Value == Nickname \cup Phone \cup Description \cup FileId \cup {Null}

Row == {r \in [Field -> Value] : \A f \in Field : r[f] \in ValueOf[f] \cup {Null}}

Doc == [Field -> Value \cup {Empty}]

Req == [user : User \cup {Null}, field : Field \cup {Null}, value : Value]

\* Every field has values of its own type.
LEMMA ValueOfFields ==
  /\ ValueOf["nickname"] = Nickname
  /\ ValueOf["phone"] = Phone
  /\ ValueOf["description"] = Description
  /\ ValueOf["avatar"] = FileId
  /\ \A f \in Field : ValueOf[f] \subseteq Value
<1>1. /\ ValueOf["nickname"] = Nickname
      /\ ValueOf["phone"] = Phone
      /\ ValueOf["description"] = Description
      /\ ValueOf["avatar"] = FileId
  BY DEF ValueOf, Field
<1> QED BY <1>1 DEF Field, Value

\* The row registration leaves.
LEMMA RegisteredRow ==
  ASSUME NEW u \in User
  PROVE  Registered(u) \in Row /\ Registered(u)["nickname"] = First[u]
BY ValueOfFields, FirstAssumption DEF Registered, Row, Value, Field

\* The document of a row.
LEMMA DocumentDoc ==
  ASSUME NEW r \in Row
  PROVE  /\ Document(r) \in Doc
         /\ Document(r)["avatar"] = IF r["avatar"] = Null THEN Empty ELSE r["avatar"]
BY DEF Document, Row, Doc, Field

--------------------------------------------------------------------------------
(* The inductive invariant: types, pictures and unique data                   *)

Busy(w) == pc[w] \in {"select", "upload", "update", "index"}

Types ==
  /\ rows \in [User -> Row]
  /\ docs \in [User -> Doc \cup {Null}]
  /\ files \in [Node -> SUBSET FileId]
  /\ pc \in [Worker -> Place]
  /\ req \in [Worker -> Req]
  /\ copy \in [Worker -> Row \cup {Null}]
  /\ want \in [Worker -> SUBSET (FileId \cup {Empty})]
  /\ alone \in [Worker -> BOOLEAN]
  /\ acked \in [User -> [Field -> Value]]
  /\ told \in [User -> BOOLEAN]

\* What a setter carries from step to step: a value of its field, a row it read,
\* pictures that are stored.
RequestOK(w) ==
  /\ ~Busy(w) => req[w] = NoReq
  /\ Busy(w) => req[w].user \in User /\ req[w].field \in Field
  /\ pc[w] = "upload" => req[w].field = "avatar"
  /\ pc[w] = "select" /\ req[w].field # "avatar" => req[w].value \in ValueOf[req[w].field]
  /\ pc[w] \in {"update", "index"} =>
       /\ req[w].value \in ValueOf[req[w].field]
       /\ req[w].field = "avatar" => req[w].value \in Stored
  /\ pc[w] \in {"upload", "update", "index"} =>
       copy[w] \in Row /\ copy[w]["avatar"] \in Stored \cup {Null}

IInv ==
  /\ Types
  /\ \A w \in Worker : RequestOK(w)
  /\ NoDanglingAvatar
  /\ OneOwner

\* A handler keeps what it carries while others run: files are never deleted.
LEMMA OthersKeep ==
  ASSUME NEW x \in Worker, RequestOK(x), Stored \subseteq Stored',
         pc'[x] = pc[x], req'[x] = req[x], copy'[x] = copy[x]
  PROVE  RequestOK(x)'
BY DEF RequestOK, Busy

\* A handler that answers leaves nothing behind that it carried.
LEMMA ReturnKeeps ==
  ASSUME IInv, NEW w \in Worker, NEW from, NEW ok \in BOOLEAN, Return(w, from, ok),
         Stored \subseteq Stored'
  PROVE  /\ pc' \in [Worker -> Place]
         /\ req' \in [Worker -> Req]
         /\ copy' \in [Worker -> Row \cup {Null}]
         /\ alone' \in [Worker -> BOOLEAN]
         /\ told' \in [User -> BOOLEAN]
         /\ \A x \in Worker : RequestOK(x)'
<1>1. NoReq \in Req
  BY DEF NoReq, Req, Value
<1>2. /\ pc' = [pc EXCEPT ![w] = "idle"]
      /\ alone' = [alone EXCEPT ![w] = TRUE]
      /\ req' = [req EXCEPT ![w] = NoReq]
      /\ copy' = [copy EXCEPT ![w] = Null]
      /\ told' = [told EXCEPT ![req[w].user] = ok /\ Kept(w)]
  BY DEF Return, Goto
<1>3. /\ pc' \in [Worker -> Place]
      /\ req' \in [Worker -> Req]
      /\ copy' \in [Worker -> Row \cup {Null}]
  BY <1>1, <1>2 DEF IInv, Types, Place
<1>4. alone' \in [Worker -> BOOLEAN]
  BY <1>2 DEF IInv, Types
<1>5. told' \in [User -> BOOLEAN]
  <2>1. (ok /\ Kept(w)) \in BOOLEAN
    OBVIOUS
  <2> QED BY <1>2, <2>1 DEF IInv, Types
<1>6. RequestOK(w)'
  BY <1>2 DEF IInv, Types, RequestOK, Busy
<1>7. ASSUME NEW x \in Worker, x # w
      PROVE  RequestOK(x)'
  BY <1>2, <1>7, OthersKeep DEF IInv, Types
<1> QED BY <1>3, <1>4, <1>5, <1>6, <1>7

\* Registered users without pictures.
LEMMA InitIInv == Init => IInv
<1> SUFFICES ASSUME Init
             PROVE  IInv
  OBVIOUS
<1>1. NoReq \in Req
  BY DEF NoReq, Req, Value
<1>2. rows \in [User -> Row] /\ \A u \in User : rows[u] = Registered(u)
  BY RegisteredRow DEF Init
<1>3. acked \in [User -> [Field -> Value]]
  BY DEF Init, Value
<1>4. Types
  BY <1>1, <1>2, <1>3 DEF Init, Types, Place
<1>5. \A w \in Worker : RequestOK(w)
  BY DEF Init, RequestOK, Busy
<1>6. NoDanglingAvatar
  BY <1>2 DEF Init, NoDanglingAvatar, Registered, Field
<1>7. OneOwner
  BY <1>2, FirstAssumption DEF OneOwner, Registered, Field, Unique
<1> QED BY <1>4, <1>5, <1>6, <1>7 DEF IInv

--------------------------------------------------------------------------------
(* Every step keeps it                                                        *)

\* A request arrives at an idle worker.
LEMMA RequestStep ==
  ASSUME IInv, NEW w \in Worker, NEW u \in User, Request(w, u)
  PROVE  IInv'
<1>1. PICK f \in Field, v \in Value :
        /\ SetUser(w, u, f, v)
        /\ f # "avatar" => v \in ValueOf[f]
  BY ValueOfFields DEF Request, Field, Value
<1>2. /\ pc' = [pc EXCEPT ![w] = "select"]
      /\ pc[w] = "idle"
      /\ req' = [req EXCEPT ![w] = [user |-> u, field |-> f, value |-> v]]
      /\ told' = [told EXCEPT ![u] = FALSE]
      /\ UNCHANGED <<rows, docs, files, copy, want, acked>>
  BY <1>1 DEF SetUser, Goto
<1>3. alone' \in [Worker -> BOOLEAN]
  BY <1>1 DEF SetUser
<1>4. [user |-> u, field |-> f, value |-> v] \in Req
  BY DEF Req
<1>5. Stored' = Stored
  BY <1>2 DEF Stored
<1>6. Types'
  BY <1>2, <1>3, <1>4 DEF IInv, Types, Place
<1>7. RequestOK(w)'
  BY <1>1, <1>2 DEF IInv, Types, RequestOK, Busy
<1>8. ASSUME NEW x \in Worker, x # w
      PROVE  RequestOK(x)'
  BY <1>2, <1>5, <1>8, OthersKeep DEF IInv, Types
<1>9. NoDanglingAvatar' /\ OneOwner'
  BY <1>2, <1>5 DEF IInv, NoDanglingAvatar, OneOwner
<1> QED BY <1>6, <1>7, <1>8, <1>9 DEF IInv

\* The copy is a row, and names no picture the row does not.
LEMMA selectStep ==
  ASSUME IInv, NEW w \in Worker, select(w)
  PROVE  IInv'
<1>1. /\ pc[w] = "select"
      /\ req[w].user \in User
      /\ req[w].field \in Field
  BY DEF select, Goto, IInv, RequestOK, Busy
<1>2. /\ pc' = [pc EXCEPT ![w] = IF req[w].field = "avatar" THEN "upload" ELSE "update"]
      /\ copy' = [copy EXCEPT ![w] = rows[req[w].user]]
      /\ UNCHANGED <<rows, docs, files, req, want, alone, acked, told>>
  BY DEF select, Goto
<1>3. /\ rows[req[w].user] \in Row
      /\ rows[req[w].user]["avatar"] \in Stored \cup {Null}
  BY <1>1 DEF IInv, Types, NoDanglingAvatar
<1>4. Stored' = Stored
  BY <1>2 DEF Stored
<1>5. Types'
  BY <1>2, <1>3 DEF IInv, Types, Place
<1>6. RequestOK(w)'
  BY <1>1, <1>2, <1>3, <1>4 DEF IInv, Types, RequestOK, Busy
<1>7. ASSUME NEW x \in Worker, x # w
      PROVE  RequestOK(x)'
  BY <1>2, <1>4, <1>7, OthersKeep DEF IInv, Types
<1>8. NoDanglingAvatar' /\ OneOwner'
  BY <1>2, <1>4 DEF IInv, NoDanglingAvatar, OneOwner
<1> QED BY <1>5, <1>6, <1>7, <1>8 DEF IInv

\* A file more on one server: what is stored stays stored.
LEMMA StoredGrows ==
  ASSUME IInv, NEW n \in Node, NEW fid \in FileId,
         files' = [files EXCEPT ![n] = @ \cup {fid}]
  PROVE  /\ files' \in [Node -> SUBSET FileId]
         /\ Stored \subseteq Stored'
         /\ fid \in Stored'
<1>1. /\ files' \in [Node -> SUBSET FileId]
      /\ \A m \in Node : files[m] \subseteq files'[m]
      /\ fid \in files'[n]
  BY DEF IInv, Types
<1> QED BY <1>1 DEF Stored

\* The id of the picture is one that was stored.
LEMMA PutSingleFileStep ==
  ASSUME IInv, NEW w \in Worker, PutSingleFile(w)
  PROVE  IInv'
<1>1. PICK n \in Node, fid \in FileId :
        /\ files' = [files EXCEPT ![n] = @ \cup {fid}]
        /\ req' = [req EXCEPT ![w].value = fid]
  BY DEF PutSingleFile
<1>2. /\ pc[w] = "upload"
      /\ pc' = [pc EXCEPT ![w] = "update"]
      /\ UNCHANGED <<rows, docs, copy, want, alone, acked, told>>
  BY DEF PutSingleFile, Goto
<1>3. /\ files' \in [Node -> SUBSET FileId]
      /\ Stored \subseteq Stored'
      /\ fid \in Stored'
  BY <1>1, StoredGrows
<1>4. /\ req[w] \in Req
      /\ req'[w] = [req[w] EXCEPT !.value = fid]
      /\ \A x \in Worker : x # w => req'[x] = req[x]
  BY <1>1 DEF IInv, Types
<1>5. /\ req'[w] \in Req
      /\ req'[w].user = req[w].user
      /\ req'[w].field = req[w].field
      /\ req'[w].value = fid
  BY <1>4 DEF Req, Value
<1>6. req' \in [Worker -> Req]
  BY <1>1, <1>4, <1>5 DEF IInv, Types
<1>7. Types'
  BY <1>2, <1>3, <1>6 DEF IInv, Types, Place
<1>8. RequestOK(w)'
  BY <1>2, <1>3, <1>5, ValueOfFields DEF IInv, Types, RequestOK, Busy
<1>9. ASSUME NEW x \in Worker, x # w
      PROVE  RequestOK(x)'
  BY <1>2, <1>3, <1>4, <1>9, OthersKeep DEF IInv, Types
<1>10. NoDanglingAvatar' /\ OneOwner'
  BY <1>2, <1>3 DEF IInv, NoDanglingAvatar, OneOwner
<1> QED BY <1>7, <1>8, <1>9, <1>10 DEF IInv

\* A look-up that fails ends the handler.
LEMMA selectFailedStep ==
  ASSUME IInv, NEW w \in Worker, selectFailed(w)
  PROVE  IInv'
<1>1. /\ Return(w, "select", FALSE)
      /\ UNCHANGED <<rows, docs, files, want, acked>>
  BY DEF selectFailed
<1>2. Stored' = Stored
  BY <1>1 DEF Stored
<1>3. Types' /\ \A x \in Worker : RequestOK(x)'
  BY <1>1, <1>2, ReturnKeeps DEF IInv, Types
<1>4. NoDanglingAvatar' /\ OneOwner'
  BY <1>1, <1>2 DEF IInv, NoDanglingAvatar, OneOwner
<1> QED BY <1>3, <1>4 DEF IInv

\* An upload that fails ends the handler, with or without the picture stored.
LEMMA putFailedStep ==
  ASSUME IInv, NEW w \in Worker, putFailed(w)
  PROVE  IInv'
<1>1. /\ Return(w, "upload", FALSE)
      /\ UNCHANGED <<rows, docs, want, acked>>
  BY DEF putFailed
<1>2. files' \in [Node -> SUBSET FileId] /\ Stored \subseteq Stored'
  <2>1. CASE UNCHANGED files
    BY <2>1 DEF IInv, Types, Stored
  <2>2. ASSUME NEW n \in Node, NEW fid \in FileId \ Stored,
               files' = [files EXCEPT ![n] = @ \cup {fid}]
        PROVE  files' \in [Node -> SUBSET FileId] /\ Stored \subseteq Stored'
    BY <2>2, StoredGrows
  <2> QED BY <2>1, <2>2 DEF putFailed
<1>3. Types' /\ \A x \in Worker : RequestOK(x)'
  BY <1>1, <1>2, ReturnKeeps DEF IInv, Types
<1>4. NoDanglingAvatar' /\ OneOwner'
  BY <1>1, <1>2 DEF IInv, NoDanglingAvatar, OneOwner
<1> QED BY <1>3, <1>4 DEF IInv

\* The object a setter writes back is a row; only its field has changed.
LEMMA EditedRow ==
  ASSUME IInv, NEW w \in Worker, pc[w] = "update"
  PROVE  /\ Edited(w) \in Row
         /\ Edited(w)["avatar"] \in Stored \cup {Null}
         /\ Edited(w)[req[w].field] = req[w].value
         /\ \A f \in Field \ {req[w].field} : Edited(w)[f] = copy[w][f]
         /\ req[w].user \in User
         /\ req[w].field \in Field
<1>1. /\ copy[w] \in Row
      /\ copy[w]["avatar"] \in Stored \cup {Null}
      /\ req[w].user \in User
      /\ req[w].field \in Field
      /\ req[w].value \in ValueOf[req[w].field]
      /\ req[w].field = "avatar" => req[w].value \in Stored
      /\ req[w] \in Req
  BY DEF IInv, Types, RequestOK, Busy
<1>2. DOMAIN copy[w] = Field
  BY <1>1 DEF Row
<1>3. \A f \in Field : Edited(w)[f] = IF f = req[w].field THEN req[w].value ELSE copy[w][f]
  BY <1>2 DEF Edited
<1>4. Edited(w) \in [Field -> Value]
  BY <1>1 DEF Edited, Row, Req
<1>5. Edited(w) \in Row
  BY <1>1, <1>3, <1>4 DEF Row
<1>6. "avatar" \in Field
  BY DEF Field
<1> QED BY <1>1, <1>3, <1>5, <1>6

\* A transaction that no unique index refused leaves the unique data unique.
LEMMA WriteKeeps ==
  ASSUME IInv, NEW w \in Worker, pc[w] = "update", ~Conflict(w), Write(w)
  PROVE  /\ rows' \in [User -> Row]
         /\ acked' \in [User -> [Field -> Value]]
         /\ rows'[req[w].user] = Edited(w)
         /\ \A u \in User : u # req[w].user => rows'[u] = rows[u]
         /\ \A u \in User : rows'[u]["avatar"] \in Stored \cup {Null}
         /\ OneOwner'
<1>1. PICK e \in Row : e = Edited(w)
  BY EditedRow
<1>2. /\ e["avatar"] \in Stored \cup {Null}
      /\ req[w].user \in User
      /\ req[w].field \in Field
  BY <1>1, EditedRow
<1>3. /\ rows' = [rows EXCEPT ![req[w].user] = e]
      /\ acked' = [acked EXCEPT ![req[w].user][req[w].field] = Null]
  BY <1>1 DEF Write
<1>4. /\ rows' \in [User -> Row]
      /\ rows'[req[w].user] = e
      /\ \A u \in User : u # req[w].user => rows'[u] = rows[u]
  BY <1>2, <1>3 DEF IInv, Types
<1>5. acked' \in [User -> [Field -> Value]]
  BY <1>2, <1>3 DEF IInv, Types, Value
<1>6. \A u \in User : rows'[u]["avatar"] \in Stored \cup {Null}
  BY <1>2, <1>4 DEF IInv, NoDanglingAvatar
<1>7. \A u \in User \ {req[w].user}, f \in Unique : rows[u][f] = Null \/ rows[u][f] # e[f]
  BY <1>1 DEF Conflict
<1>8. ASSUME NEW u \in User, NEW v \in User, NEW f \in Unique,
             u # v, rows'[u][f] # Null
      PROVE  rows'[u][f] # rows'[v][f]
  <2>1. CASE u = req[w].user
    BY <2>1, <1>4, <1>7, <1>8
  <2>2. CASE v = req[w].user
    BY <2>2, <1>4, <1>7, <1>8
  <2>3. CASE u # req[w].user /\ v # req[w].user
    BY <2>3, <1>4, <1>8 DEF IInv, OneOwner
  <2> QED BY <2>1, <2>2, <2>3
<1>9. OneOwner'
  BY <1>8 DEF OneOwner
<1> QED BY <1>1, <1>4, <1>5, <1>6, <1>9

\* The whole copy is written, unless another row has its nickname or number.
LEMMA updateStep ==
  ASSUME IInv, NEW w \in Worker, update(w)
  PROVE  IInv'
<1>1. /\ pc[w] = "update"
      /\ pc' = [pc EXCEPT ![w] = "index"]
      /\ ~Conflict(w)
      /\ Write(w)
      /\ copy' = [copy EXCEPT ![w] = Edited(w)]
      /\ UNCHANGED <<docs, files, req, want, alone, told>>
  BY DEF update, Goto
<1>2. /\ Edited(w) \in Row
      /\ Edited(w)["avatar"] \in Stored \cup {Null}
  BY <1>1, EditedRow
<1>3. /\ rows' \in [User -> Row]
      /\ acked' \in [User -> [Field -> Value]]
      /\ \A u \in User : rows'[u]["avatar"] \in Stored \cup {Null}
      /\ OneOwner'
  BY <1>1, WriteKeeps
<1>4. Stored' = Stored
  BY <1>1 DEF Stored
<1>5. Types'
  BY <1>1, <1>2, <1>3 DEF IInv, Types, Place
<1>6. RequestOK(w)'
  BY <1>1, <1>2, <1>4 DEF IInv, Types, RequestOK, Busy
<1>7. ASSUME NEW x \in Worker, x # w
      PROVE  RequestOK(x)'
  BY <1>1, <1>4, <1>7, OthersKeep DEF IInv, Types
<1>8. NoDanglingAvatar'
  BY <1>1, <1>3, <1>4 DEF IInv, NoDanglingAvatar
<1> QED BY <1>3, <1>5, <1>6, <1>7, <1>8 DEF IInv

\* A write that fails or is refused ends the handler, written or not.
LEMMA updateFailedStep ==
  ASSUME IInv, NEW w \in Worker, updateFailed(w)
  PROVE  IInv'
<1>1. /\ Return(w, "update", FALSE)
      /\ UNCHANGED <<docs, files, want>>
      /\ pc[w] = "update"
  BY DEF updateFailed, Return, Goto
<1>2. Stored' = Stored
  BY <1>1 DEF Stored
<1>3. /\ rows' \in [User -> Row]
      /\ acked' \in [User -> [Field -> Value]]
      /\ \A u \in User : rows'[u]["avatar"] \in Stored \cup {Null}
      /\ OneOwner'
  <2>1. CASE UNCHANGED <<rows, acked>>
    BY <2>1 DEF IInv, Types, NoDanglingAvatar, OneOwner
  <2>2. CASE ~Conflict(w) /\ Write(w)
    BY <1>1, <2>2, WriteKeeps
  <2> QED BY <2>1, <2>2 DEF updateFailed
<1>4. Types' /\ \A x \in Worker : RequestOK(x)'
  BY <1>1, <1>2, <1>3, ReturnKeeps DEF IInv, Types
<1>5. NoDanglingAvatar'
  BY <1>1, <1>2, <1>3 DEF IInv, NoDanglingAvatar
<1> QED BY <1>3, <1>4, <1>5 DEF IInv

\* The document of a setter's copy.
LEMMA CopyDocument ==
  ASSUME IInv, NEW w \in Worker, pc[w] = "index",
         docs' \in {docs, [docs EXCEPT ![req[w].user] = Document(copy[w])]}
  PROVE  /\ docs' \in [User -> Doc \cup {Null}]
         /\ \A u \in User : docs'[u] # Null => docs'[u]["avatar"] \in Stored \cup {Empty}
<1>1. /\ copy[w] \in Row
      /\ copy[w]["avatar"] \in Stored \cup {Null}
      /\ req[w].user \in User
  BY DEF IInv, RequestOK, Busy
<1>2. /\ Document(copy[w]) \in Doc
      /\ Document(copy[w])["avatar"] \in Stored \cup {Empty}
  BY <1>1, DocumentDoc
<1> QED BY <1>1, <1>2 DEF IInv, Types, NoDanglingAvatar

\* The document of the copy names no picture the copy does not.
LEMMA appendDataStep ==
  ASSUME IInv, NEW w \in Worker, appendData(w)
  PROVE  IInv'
<1>1. /\ Return(w, "index", TRUE)
      /\ pc[w] = "index"
      /\ docs' = [docs EXCEPT ![req[w].user] = Document(copy[w])]
      /\ acked' = [acked EXCEPT ![req[w].user][req[w].field] =
                     IF Kept(w) THEN req[w].value ELSE Null]
      /\ UNCHANGED <<rows, files, want>>
  BY DEF appendData, Return, Goto
<1>2. Stored' = Stored
  BY <1>1 DEF Stored
<1>3. /\ docs' \in [User -> Doc \cup {Null}]
      /\ \A u \in User : docs'[u] # Null => docs'[u]["avatar"] \in Stored \cup {Empty}
  BY <1>1, CopyDocument
<1>4. acked' \in [User -> [Field -> Value]]
  <2>1. (IF Kept(w) THEN req[w].value ELSE Null) \in Value
    BY DEF IInv, Types, Req, Value
  <2> HIDE DEF Kept
  <2> QED BY <1>1, <2>1 DEF IInv, Types
<1>5. Types' /\ \A x \in Worker : RequestOK(x)'
  BY <1>1, <1>2, <1>3, <1>4, ReturnKeeps DEF IInv, Types
<1>6. NoDanglingAvatar' /\ OneOwner'
  BY <1>1, <1>2, <1>3 DEF IInv, NoDanglingAvatar, OneOwner
<1> QED BY <1>5, <1>6 DEF IInv

\* A document that is not sent, or sent without an answer, ends the handler.
LEMMA appendDataFailedStep ==
  ASSUME IInv, NEW w \in Worker, appendDataFailed(w)
  PROVE  IInv'
<1>1. /\ Return(w, "index", FALSE)
      /\ pc[w] = "index"
      /\ docs' \in {docs, [docs EXCEPT ![req[w].user] = Document(copy[w])]}
      /\ UNCHANGED <<rows, files, want, acked>>
  BY DEF appendDataFailed, Return, Goto
<1>2. Stored' = Stored
  BY <1>1 DEF Stored
<1>3. /\ docs' \in [User -> Doc \cup {Null}]
      /\ \A u \in User : docs'[u] # Null => docs'[u]["avatar"] \in Stored \cup {Empty}
  BY <1>1, CopyDocument
<1>4. Types' /\ \A x \in Worker : RequestOK(x)'
  BY <1>1, <1>2, <1>3, ReturnKeeps DEF IInv, Types
<1>5. NoDanglingAvatar' /\ OneOwner'
  BY <1>1, <1>2, <1>3 DEF IInv, NoDanglingAvatar, OneOwner
<1> QED BY <1>4, <1>5 DEF IInv

\* A reader changes only its own place and the pictures it asks for.
LEMMA ReaderKeeps ==
  ASSUME IInv, NEW w \in Worker, NEW from, NEW to, NEW pictures \in SUBSET (FileId \cup {Empty}),
         from \in {"idle", "fetch"}, to \in {"idle", "fetch"},
         Goto(w, from, to),
         want' = [want EXCEPT ![w] = pictures],
         UNCHANGED <<rows, docs, files, req, copy, alone, acked, told>>
  PROVE  IInv'
<1>1. Stored' = Stored
  BY DEF Stored
<1>2. Types'
  BY DEF IInv, Types, Goto, Place
<1>3. RequestOK(w)'
  BY <1>1 DEF IInv, Types, RequestOK, Busy, Goto
<1>4. ASSUME NEW x \in Worker, x # w
      PROVE  RequestOK(x)'
  BY <1>1, <1>4, OthersKeep DEF IInv, Types, Goto
<1>5. NoDanglingAvatar' /\ OneOwner'
  BY <1>1 DEF IInv, NoDanglingAvatar, OneOwner
<1> QED BY <1>2, <1>3, <1>4, <1>5 DEF IInv

\* A reader asks for the picture of its row.
LEMMA GetUserInfoStep ==
  ASSUME IInv, NEW w \in Worker, NEW u \in User, GetUserInfo(w, u)
  PROVE  IInv'
<1>1. {rows[u]["avatar"]} \in SUBSET (FileId \cup {Empty})
  BY ValueOfFields DEF GetUserInfo, IInv, Types, Row, Field
<1> QED BY <1>1, ReaderKeeps DEF GetUserInfo

\* A reader of several asks for the pictures of their rows.
LEMMA GetMultiUserInfoStep ==
  ASSUME IInv, NEW w \in Worker, NEW us \in SUBSET User, GetMultiUserInfo(w, us)
  PROVE  IInv'
<1>1. ASSUME NEW u \in us
      PROVE  Document(rows[u])["avatar"] \in FileId \cup {Empty}
  BY DocumentDoc, ValueOfFields DEF IInv, Types, Row, Field
<1>2. {Document(rows[u])["avatar"] : u \in us} \in SUBSET (FileId \cup {Empty})
  BY <1>1
<1> QED BY <1>2, ReaderKeeps DEF GetMultiUserInfo

\* A reader that answers.
LEMMA fetchedStep ==
  ASSUME IInv, NEW w \in Worker, fetched(w)
  PROVE  IInv'
<1>1. {} \in SUBSET (FileId \cup {Empty})
  OBVIOUS
<1> QED BY <1>1, ReaderKeeps DEF fetched

\* A crash ends all handlers and leaves the stores alone.
LEMMA crashStep ==
  ASSUME IInv, crash
  PROVE  IInv'
<1>1. /\ NoReq \in Req
      /\ Stored' = Stored
  BY DEF NoReq, Req, Value, crash, Stored
<1>2. Types'
  BY <1>1 DEF IInv, Types, crash, Place
<1>3. \A w \in Worker : RequestOK(w)'
  BY DEF crash, RequestOK, Busy
<1>4. NoDanglingAvatar' /\ OneOwner'
  BY <1>1 DEF IInv, NoDanglingAvatar, OneOwner, crash
<1> QED BY <1>2, <1>3, <1>4 DEF IInv

\* The invariant is inductive.
LEMMA NextKeeps == IInv /\ [Next]_vars => IInv'
<1> SUFFICES ASSUME IInv, [Next]_vars
             PROVE  IInv'
  OBVIOUS
<1>1. ASSUME NEW w \in Worker, NEW u \in User, Request(w, u) \/ GetUserInfo(w, u)
      PROVE  IInv'
  BY <1>1, RequestStep, GetUserInfoStep
<1>2. ASSUME NEW w \in Worker, NEW us \in SUBSET User \ {{}}, GetMultiUserInfo(w, us)
      PROVE  IInv'
  BY <1>2, GetMultiUserInfoStep
<1>3. ASSUME NEW w \in Worker, Handler(w)
      PROVE  IInv'
  BY <1>3, selectStep, selectFailedStep, PutSingleFileStep, putFailedStep, updateStep,
     updateFailedStep, appendDataStep, appendDataFailedStep, fetchedStep
  DEF Handler
<1>4. CASE crash
  BY <1>4, crashStep
<1>5. CASE UNCHANGED vars
  <2>1. Stored' = Stored
    BY <1>5 DEF vars, Stored
  <2> QED BY <1>5, <2>1 DEF vars, IInv, Types, RequestOK, Busy, NoDanglingAvatar, OneOwner
<1> QED BY <1>1, <1>2, <1>3, <1>4, <1>5 DEF Next

\* user_server.hpp:277-470: over any overlap of setters and readers, failing calls and
\* crashes, each handler carries what its place says, every picture a row, a
\* document or a copy names is stored, and names and numbers stay unique.
THEOREM ProfilesKept == Spec => []IInv
BY InitIInv, NextKeeps, PTL DEF Spec

\* Rows, documents, files and what readers ask for are of their types.
THEOREM TypeCorrect == Spec => []TypeOK
<1>1. IInv => TypeOK
  BY DEF IInv, Types, Row, Value, Doc, Place, TypeOK
<1> QED BY <1>1, ProfilesKept, PTL

\* No row and no document names a picture that is on no file server.
THEOREM PicturesAreStored == Spec => []NoDanglingAvatar
<1>1. IInv => NoDanglingAvatar
  BY DEF IInv
<1> QED BY <1>1, ProfilesKept, PTL

\* A nickname or phone number belongs to one user.
THEOREM OwnersAreUnique == Spec => []OneOwner
<1>1. IInv => OneOwner
  BY DEF IInv
<1> QED BY <1>1, ProfilesKept, PTL

--------------------------------------------------------------------------------
(* What a client was told: setters that ran alone, and those only (~Beside)   *)

\* No other setter of its user runs beside a setter that ran alone so far.
AloneOK ==
  \A w, x \in Worker : w # x /\ Busy(w) /\ alone[w] => req[x].user # req[w].user

\* So what it wrote to MySQL is there when it comes to index it.
IndexOK ==
  \A w \in Worker : pc[w] = "index" /\ alone[w] =>
    /\ rows[req[w].user] = copy[w]
    /\ copy[w][req[w].field] = req[w].value

\* The copy of every setter has what other setters were told is stored.
CopyOK ==
  \A w \in Worker : pc[w] \in {"upload", "update"} =>
    \A f \in Field \ {req[w].field} :
      acked[req[w].user][f] # Null => copy[w][f] = acked[req[w].user][f]

\* Between a success and the next request the index shows the row.
ToldOK ==
  \A u \in User : told[u] =>
    /\ docs[u] = Document(rows[u])
    /\ \A w \in Worker : req[w].user # u

History == AloneOK /\ IndexOK /\ AckedSurvives /\ CopyOK /\ ToldOK

\* Nobody was told anything yet.
LEMMA InitHistory == Init => History
BY DEF Init, History, AloneOK, IndexOK, AckedSurvives, CopyOK, ToldOK, Busy

\* What the return of a handler leaves to show.
LEMMA ReturnHistory ==
  ASSUME IInv, History, NEW w \in Worker, Busy(w), NEW from, NEW ok \in BOOLEAN,
         Return(w, from, ok), ~Beside, ok => alone[w]
  PROVE  /\ AloneOK'
         /\ pc'[w] = "idle" /\ req'[w].user = Null
         /\ \A x \in Worker : x # w =>
              /\ pc'[x] = pc[x] /\ req'[x] = req[x] /\ copy'[x] = copy[x]
              /\ alone'[x] <=> alone[x]
         /\ \A u \in User : told'[u] <=> IF u = req[w].user THEN ok ELSE told[u]
         /\ ok => \A x \in Worker : req'[x].user # req[w].user
         /\ \A u \in User : u # req[w].user => \A x \in Worker : req[x].user # u => req'[x].user # u
<1>1. /\ pc' = [pc EXCEPT ![w] = "idle"]
      /\ alone' = [alone EXCEPT ![w] = TRUE]
      /\ req' = [req EXCEPT ![w] = NoReq]
      /\ copy' = [copy EXCEPT ![w] = Null]
      /\ told' = [told EXCEPT ![req[w].user] = ok /\ Kept(w)]
  BY DEF Return, Goto
<1>2. /\ pc'[w] = "idle"
      /\ req'[w].user = Null
      /\ req[w].user \in User
      /\ req[w].user # Null
      /\ \A x \in Worker : x # w =>
           /\ pc'[x] = pc[x] /\ req'[x] = req[x] /\ copy'[x] = copy[x]
           /\ alone'[x] = alone[x]
  BY <1>1, NullAssumption DEF IInv, Types, RequestOK, NoReq
<1>3. \A u \in User : told'[u] <=> IF u = req[w].user THEN ok ELSE told[u]
  <2>1. (ok /\ Kept(w)) <=> ok
    BY DEF Kept
  <2>2. told \in [User -> BOOLEAN]
    BY DEF IInv, Types
  <2> QED BY <1>1, <1>2, <2>1, <2>2
<1>4. AloneOK'
  BY <1>2, NullAssumption DEF History, AloneOK, Busy, IInv, RequestOK
<1>5. ok => \A x \in Worker : req'[x].user # req[w].user
  BY <1>2 DEF History, AloneOK
<1>6. \A u \in User : u # req[w].user => \A x \in Worker : req[x].user # u => req'[x].user # u
  BY <1>2, NullAssumption
<1> QED BY <1>2, <1>3, <1>4, <1>5, <1>6

\* A return without success, after which the row is what it was.
LEMMA FailureHistory ==
  ASSUME IInv, History, NEW w \in Worker, Busy(w), NEW from,
         Return(w, from, FALSE), ~Beside,
         UNCHANGED <<rows, acked>>,
         \A u \in User : u # req[w].user => docs'[u] = docs[u]
  PROVE  History'
<1>1. /\ AloneOK'
      /\ pc'[w] = "idle" /\ req'[w].user = Null
      /\ \A x \in Worker : x # w =>
           /\ pc'[x] = pc[x] /\ req'[x] = req[x] /\ copy'[x] = copy[x]
           /\ alone'[x] <=> alone[x]
      /\ \A u \in User : told'[u] <=> IF u = req[w].user THEN FALSE ELSE told[u]
      /\ \A u \in User : u # req[w].user => \A x \in Worker : req[x].user # u => req'[x].user # u
  BY ReturnHistory
<1>2. IndexOK' /\ CopyOK'
  BY <1>1 DEF History, IndexOK, CopyOK
<1>3. AckedSurvives'
  BY DEF History, AckedSurvives
<1>4. ToldOK'
  BY <1>1 DEF History, ToldOK
<1> QED BY <1>1, <1>2, <1>3, <1>4 DEF History

\* A request ends what was said of the handlers it runs beside.
LEMMA RequestHistory ==
  ASSUME IInv, History, ~Beside, NEW w \in Worker, NEW u \in User, Request(w, u)
  PROVE  History'
<1>1. PICK f \in Field, v \in Value : SetUser(w, u, f, v)
  BY ValueOfFields DEF Request, Field, Value
<1>2. /\ pc[w] = "idle"
      /\ pc'[w] = "select"
      /\ req'[w].user = u
      /\ \A x \in Worker : x # w => pc'[x] = pc[x] /\ req'[x] = req[x]
      /\ UNCHANGED <<rows, docs, files, copy, want, acked>>
  BY <1>1 DEF SetUser, Goto, IInv, Types
<1>3. /\ alone'[w] => \A x \in Worker : req[x].user # u
      /\ \A x \in Worker : x # w /\ alone'[x] => alone[x] /\ req[x].user # u
  BY <1>1 DEF SetUser
<1>4. ~told'[u] /\ \A t \in User : t # u => (told'[t] <=> told[t])
  BY <1>1 DEF SetUser, IInv, Types
<1>5. AloneOK'
  BY <1>2, <1>3 DEF History, AloneOK, Busy
<1>6. IndexOK' /\ CopyOK'
  BY <1>2, <1>3 DEF History, IndexOK, CopyOK
<1>7. AckedSurvives'
  BY <1>2 DEF History, AckedSurvives
<1>8. ToldOK'
  BY <1>2, <1>4 DEF History, ToldOK
<1> QED BY <1>5, <1>6, <1>7, <1>8 DEF History

\* The copy is the row, so it has everything clients were told is stored.
LEMMA selectHistory ==
  ASSUME IInv, History, NEW w \in Worker, select(w)
  PROVE  History'
<1>1. /\ Busy(w)
      /\ pc'[w] \in {"upload", "update"}
      /\ copy'[w] = rows[req[w].user]
      /\ \A x \in Worker : x # w => pc'[x] = pc[x] /\ copy'[x] = copy[x]
      /\ UNCHANGED <<rows, docs, files, req, want, alone, acked, told>>
  BY DEF select, Goto, Busy, IInv, Types
<1>2. AloneOK'
  BY <1>1 DEF History, AloneOK, Busy
<1>3. IndexOK'
  BY <1>1 DEF History, IndexOK
<1>4. CopyOK'
  BY <1>1 DEF History, CopyOK, AckedSurvives, IInv, RequestOK
<1>5. AckedSurvives' /\ ToldOK'
  BY <1>1 DEF History, AckedSurvives, ToldOK
<1> QED BY <1>2, <1>3, <1>4, <1>5 DEF History

\* An upload changes no row.
LEMMA PutSingleFileHistory ==
  ASSUME IInv, History, NEW w \in Worker, PutSingleFile(w)
  PROVE  History'
<1>1. PICK fid \in FileId : req' = [req EXCEPT ![w].value = fid]
  BY DEF PutSingleFile
<1>2. /\ Busy(w)
      /\ pc[w] = "upload"
      /\ pc'[w] = "update"
      /\ req'[w].user = req[w].user
      /\ req'[w].field = req[w].field
      /\ \A x \in Worker : x # w => pc'[x] = pc[x] /\ req'[x] = req[x]
      /\ UNCHANGED <<rows, docs, copy, want, alone, acked, told>>
  BY <1>1 DEF PutSingleFile, Goto, Busy, IInv, Types, Req
<1>3. AloneOK'
  BY <1>2 DEF History, AloneOK, Busy
<1>4. IndexOK' /\ CopyOK'
  BY <1>2 DEF History, IndexOK, CopyOK
<1>5. AckedSurvives' /\ ToldOK'
  BY <1>2 DEF History, AckedSurvives, ToldOK
<1> QED BY <1>3, <1>4, <1>5 DEF History

\* A write of one setter changes no value another was told is stored: its copy
\* was read before or after, but never in between.
LEMMA WriteHistory ==
  ASSUME IInv, History, NEW w \in Worker, pc[w] = "update", ~Conflict(w), Write(w)
  PROVE  /\ AckedSurvives'
         /\ acked'[req[w].user][req[w].field] = Null
         /\ \A u \in User, f \in Field : acked'[u][f] = acked[u][f] \/ acked'[u][f] = Null
         /\ rows'[req[w].user] = Edited(w)
         /\ \A u \in User : u # req[w].user => rows'[u] = rows[u]
         /\ Edited(w)[req[w].field] = req[w].value
         /\ req[w].user \in User
<1>1. /\ rows'[req[w].user] = Edited(w)
      /\ \A u \in User : u # req[w].user => rows'[u] = rows[u]
  BY WriteKeeps
<1>2. /\ Edited(w)[req[w].field] = req[w].value
      /\ \A f \in Field \ {req[w].field} : Edited(w)[f] = copy[w][f]
      /\ req[w].user \in User
      /\ req[w].field \in Field
  BY EditedRow
<1>3. /\ acked'[req[w].user][req[w].field] = Null
      /\ \A u \in User, f \in Field :
           u # req[w].user \/ f # req[w].field => acked'[u][f] = acked[u][f]
  BY <1>2 DEF Write, IInv, Types
<1>4. AckedSurvives'
  <2> SUFFICES ASSUME NEW u \in User, NEW f \in Field, acked'[u][f] # Null
               PROVE  rows'[u][f] = acked'[u][f]
    BY DEF AckedSurvives
  <2>1. CASE u # req[w].user
    BY <2>1, <1>1, <1>3 DEF History, AckedSurvives
  <2>2. CASE u = req[w].user
    <3>1. f # req[w].field /\ acked'[u][f] = acked[u][f]
      BY <2>2, <1>3
    <3>2. copy[w][f] = acked[u][f]
      BY <2>2, <3>1 DEF History, CopyOK
    <3> QED BY <2>2, <1>1, <1>2, <3>1, <3>2
  <2> QED BY <2>1, <2>2
<1> QED BY <1>1, <1>2, <1>3, <1>4

\* A setter that is alone changes its own field of the row and no other.
LEMMA updateHistory ==
  ASSUME IInv, History, NEW w \in Worker, update(w)
  PROVE  History'
<1>1. /\ pc[w] = "update"
      /\ Busy(w)
      /\ ~Conflict(w)
      /\ Write(w)
      /\ pc'[w] = "index"
      /\ copy'[w] = Edited(w)
      /\ \A x \in Worker : x # w => pc'[x] = pc[x] /\ copy'[x] = copy[x]
      /\ UNCHANGED <<docs, files, req, want, alone, told>>
  BY DEF update, Goto, Busy, IInv, Types
<1>2. /\ AckedSurvives'
      /\ acked'[req[w].user][req[w].field] = Null
      /\ \A u \in User, f \in Field : acked'[u][f] = acked[u][f] \/ acked'[u][f] = Null
      /\ rows'[req[w].user] = Edited(w)
      /\ \A u \in User : u # req[w].user => rows'[u] = rows[u]
      /\ Edited(w)[req[w].field] = req[w].value
      /\ req[w].user \in User
  BY <1>1, WriteHistory
<1>3. AloneOK'
  BY <1>1 DEF History, AloneOK, Busy
<1>4. ASSUME NEW x \in Worker, pc'[x] = "index", alone[x]
      PROVE  /\ rows'[req[x].user] = copy'[x]
             /\ copy'[x][req[x].field] = req[x].value
  <2>1. CASE x = w
    BY <2>1, <1>1, <1>2
  <2>2. CASE x # w
    <3>1. pc[x] = "index" /\ Busy(x) /\ req[x].user \in User
      BY <2>2, <1>1, <1>4 DEF Busy, IInv, RequestOK
    <3>2. req[w].user # req[x].user
      BY <2>2, <3>1, <1>4 DEF History, AloneOK
    <3> QED BY <2>2, <3>1, <3>2, <1>1, <1>2, <1>4 DEF History, IndexOK
  <2> QED BY <2>1, <2>2
<1>5. CopyOK'
  BY <1>1, <1>2 DEF History, CopyOK, IInv, RequestOK, Busy
<1>6. ToldOK'
  BY <1>1, <1>2 DEF History, ToldOK
<1> QED BY <1>1, <1>2, <1>3, <1>4, <1>5, <1>6 DEF History, IndexOK

\* A failed write changes the field of the request or nothing.
LEMMA updateFailedHistory ==
  ASSUME IInv, History, ~Beside, NEW w \in Worker, updateFailed(w)
  PROVE  History'
<1>1. /\ Return(w, "update", FALSE)
      /\ UNCHANGED <<docs, files, want>>
      /\ pc[w] = "update"
      /\ Busy(w)
  BY DEF updateFailed, Return, Goto, Busy
<1>2. CASE UNCHANGED <<rows, acked>>
  BY <1>1, <1>2, FailureHistory
<1>3. CASE ~Conflict(w) /\ Write(w)
  <2>1. /\ AckedSurvives'
        /\ acked'[req[w].user][req[w].field] = Null
        /\ \A u \in User, f \in Field : acked'[u][f] = acked[u][f] \/ acked'[u][f] = Null
        /\ \A u \in User : u # req[w].user => rows'[u] = rows[u]
        /\ req[w].user \in User
    BY <1>1, <1>3, WriteHistory
  <2>2. /\ AloneOK'
        /\ pc'[w] = "idle" /\ req'[w].user = Null
        /\ \A x \in Worker : x # w =>
             /\ pc'[x] = pc[x] /\ req'[x] = req[x] /\ copy'[x] = copy[x]
             /\ alone'[x] <=> alone[x]
        /\ \A u \in User : told'[u] <=> IF u = req[w].user THEN FALSE ELSE told[u]
        /\ \A u \in User : u # req[w].user => \A x \in Worker : req[x].user # u => req'[x].user # u
    BY <1>1, ReturnHistory
  <2>3. ASSUME NEW x \in Worker, pc'[x] = "index", alone'[x]
        PROVE  /\ rows'[req'[x].user] = copy'[x]
               /\ copy'[x][req'[x].field] = req'[x].value
    <3>1. x # w /\ pc[x] = "index" /\ Busy(x) /\ alone[x] /\ req[x].user \in User
      BY <2>2, <2>3 DEF Busy, IInv, RequestOK
    <3>2. req[w].user # req[x].user
      BY <3>1 DEF History, AloneOK
    <3> QED BY <3>1, <3>2, <2>1, <2>2 DEF History, IndexOK
  <2>4. CopyOK'
    BY <2>1, <2>2 DEF History, CopyOK, IInv, RequestOK, Busy
  <2>5. ToldOK'
    BY <1>1, <2>1, <2>2 DEF History, ToldOK
  <2> QED BY <2>1, <2>2, <2>3, <2>4, <2>5 DEF History, IndexOK
<1> QED BY <1>2, <1>3 DEF updateFailed

\* The document of a setter that is alone is the row.
LEMMA appendDataHistory ==
  ASSUME IInv, History, ~Beside, NEW w \in Worker, appendData(w)
  PROVE  History'
<1>1. PICK r, d : r = req[w] /\ d = Document(copy[w])
  OBVIOUS
<1>2. /\ Return(w, "index", TRUE)
      /\ pc[w] = "index"
      /\ Busy(w)
      /\ docs' = [docs EXCEPT ![r.user] = d]
      /\ acked' = [acked EXCEPT ![r.user][r.field] = IF alone[w] THEN r.value ELSE Null]
      /\ UNCHANGED <<rows, files, want>>
      /\ r.user \in User
      /\ r.field \in Field
  BY <1>1 DEF appendData, Return, Goto, Busy, Kept, IInv, RequestOK
<1>3. /\ docs'[r.user] = d
      /\ \A u \in User : u # r.user => docs'[u] = docs[u]
      /\ acked'[r.user][r.field] = IF alone[w] THEN r.value ELSE Null
      /\ \A u \in User, f \in Field :
           u # r.user \/ f # r.field => acked'[u][f] = acked[u][f]
  BY <1>2 DEF IInv, Types
<1>4. alone[w] => rows[r.user] = copy[w] /\ copy[w][r.field] = r.value
  BY <1>1, <1>2 DEF History, IndexOK
<1>5. AckedSurvives'
  BY <1>2, <1>3, <1>4 DEF History, AckedSurvives
\* Handlers of the same user run beside it only when nothing is promised.
<1>6. CASE alone[w]
  <2>1. /\ AloneOK'
        /\ pc'[w] = "idle" /\ req'[w].user = Null
        /\ \A x \in Worker : x # w =>
             /\ pc'[x] = pc[x] /\ req'[x] = req[x] /\ copy'[x] = copy[x]
             /\ alone'[x] <=> alone[x]
        /\ \A u \in User : told'[u] <=> IF u = req[w].user THEN TRUE ELSE told[u]
        /\ \A x \in Worker : req'[x].user # req[w].user
        /\ \A u \in User : u # req[w].user => \A x \in Worker : req[x].user # u => req'[x].user # u
    BY <1>2, <1>6, ReturnHistory
  <2>2. IndexOK'
    BY <1>2, <2>1 DEF History, IndexOK
  <2>3. CopyOK'
    BY <1>1, <1>3, <2>1 DEF History, CopyOK, IInv, RequestOK, Busy
  <2>4. ToldOK'
    BY <1>1, <1>2, <1>3, <1>4, <1>6, <2>1 DEF History, ToldOK
  <2> QED BY <1>5, <2>1, <2>2, <2>3, <2>4 DEF History
<1>7. CASE ~alone[w]
  <2>1. Return(w, "index", FALSE)
    BY <1>2, <1>7 DEF Return, Kept
  <2>2. /\ AloneOK'
        /\ pc'[w] = "idle" /\ req'[w].user = Null
        /\ \A x \in Worker : x # w =>
             /\ pc'[x] = pc[x] /\ req'[x] = req[x] /\ copy'[x] = copy[x]
             /\ alone'[x] <=> alone[x]
        /\ \A u \in User : told'[u] <=> IF u = req[w].user THEN FALSE ELSE told[u]
        /\ \A u \in User : u # req[w].user => \A x \in Worker : req[x].user # u => req'[x].user # u
    BY <1>2, <2>1, ReturnHistory
  <2>3. IndexOK'
    BY <1>2, <2>2 DEF History, IndexOK
  <2>4. \A u \in User, f \in Field : acked'[u][f] = acked[u][f] \/ acked'[u][f] = Null
    BY <1>3, <1>7
  <2>5. CopyOK'
    BY <2>2, <2>4 DEF History, CopyOK, IInv, RequestOK, Busy
  <2>6. ToldOK'
    BY <1>1, <1>2, <1>3, <2>2 DEF History, ToldOK
  <2> QED BY <1>5, <2>2, <2>3, <2>5, <2>6 DEF History
<1> QED BY <1>6, <1>7

\* The failures after which the row is what it was.
LEMMA failedHistory ==
  ASSUME IInv, History, ~Beside, NEW w \in Worker,
         selectFailed(w) \/ putFailed(w) \/ appendDataFailed(w)
  PROVE  History'
<1>1. PICK from \in {"select", "upload", "index"} : Return(w, from, FALSE)
  BY DEF selectFailed, putFailed, appendDataFailed
<1>2. Busy(w)
  BY <1>1 DEF Return, Goto, Busy
<1>3. UNCHANGED <<rows, acked>>
  BY DEF selectFailed, putFailed, appendDataFailed
<1>4. \A u \in User : u # req[w].user => docs'[u] = docs[u]
  BY DEF selectFailed, putFailed, appendDataFailed, IInv, Types
<1> QED BY <1>1, <1>2, <1>3, <1>4, FailureHistory

\* Readers are no setters.
LEMMA readerHistory ==
  ASSUME IInv, History, NEW w \in Worker,
         \/ fetched(w)
         \/ \E u \in User : GetUserInfo(w, u)
         \/ \E us \in SUBSET User : GetMultiUserInfo(w, us)
  PROVE  History'
<1>1. /\ pc[w] \in {"idle", "fetch"} /\ pc'[w] \in {"idle", "fetch"}
      /\ \A x \in Worker : x # w => pc'[x] = pc[x]
      /\ UNCHANGED <<rows, docs, files, req, copy, alone, acked, told>>
  BY DEF fetched, GetUserInfo, GetMultiUserInfo, Goto, IInv, Types
<1>2. \A x \in Worker : (Busy(x)' <=> Busy(x)) /\ (Busy(x) => pc'[x] = pc[x])
  BY <1>1 DEF Busy
<1>3. AloneOK' /\ AckedSurvives' /\ ToldOK'
  BY <1>1, <1>2 DEF History, AloneOK, AckedSurvives, ToldOK
<1>4. IndexOK' /\ CopyOK'
  BY <1>1, <1>2 DEF History, IndexOK, CopyOK, Busy
<1> QED BY <1>3, <1>4 DEF History

\* A crash takes back nothing a client was told.
LEMMA crashHistory ==
  ASSUME History, crash
  PROVE  History'
<1>1. /\ \A w \in Worker : pc'[w] = "idle" /\ req'[w].user = Null
      /\ UNCHANGED <<rows, docs, acked, told>>
  BY DEF crash, NoReq
<1>2. AloneOK' /\ IndexOK' /\ CopyOK' /\ AckedSurvives'
  BY <1>1 DEF History, AloneOK, IndexOK, CopyOK, AckedSurvives, Busy
<1>3. ToldOK'
  BY <1>1, NullAssumption DEF History, ToldOK
<1> QED BY <1>2, <1>3 DEF History

\* Every step keeps what clients were told true.
LEMMA NextHistory ==
  ASSUME ~Beside
  PROVE  IInv /\ History /\ [Next]_vars => History'
<1> SUFFICES ASSUME IInv, History, [Next]_vars
             PROVE  History'
  OBVIOUS
<1>1. ASSUME NEW w \in Worker, NEW u \in User, Request(w, u) \/ GetUserInfo(w, u)
      PROVE  History'
  BY <1>1, RequestHistory, readerHistory
<1>2. ASSUME NEW w \in Worker, NEW us \in SUBSET User \ {{}}, GetMultiUserInfo(w, us)
      PROVE  History'
  BY <1>2, readerHistory
<1>3. ASSUME NEW w \in Worker, Handler(w)
      PROVE  History'
  BY <1>3, selectHistory, PutSingleFileHistory, updateHistory, updateFailedHistory,
     appendDataHistory, failedHistory, readerHistory
  DEF Handler
<1>4. CASE crash
  BY <1>4, crashHistory
<1>5. CASE UNCHANGED vars
  BY <1>5 DEF vars, History, AloneOK, IndexOK, AckedSurvives, CopyOK, ToldOK, Busy
<1> QED BY <1>1, <1>2, <1>3, <1>4, <1>5 DEF Next

\* The value a setter that ran alone was told is stored stays until a setter of
\* the same field runs, whatever failed, crashed or ran after it.
THEOREM AckedStays ==
  ASSUME ~Beside
  PROVE  Spec => []AckedSurvives
<1>1. History => AckedSurvives
  BY DEF History
<1>2. IInv /\ History /\ [Next]_vars => History'
  BY NextHistory
<1> QED BY <1>1, <1>2, InitHistory, ProfilesKept, PTL DEF Spec

\* After a setter that ran alone reported success the search index shows the row.
THEOREM IndexShowsRow ==
  ASSUME ~Beside
  PROVE  Spec => []SuccessMeansIndexed
<1>1. History => SuccessMeansIndexed
  BY DEF History, ToldOK, SuccessMeansIndexed
<1>2. IInv /\ History /\ [Next]_vars => History'
  BY NextHistory
<1> QED BY <1>1, <1>2, InitHistory, ProfilesKept, PTL DEF Spec

================================================================================
