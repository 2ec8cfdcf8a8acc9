------------------------------- MODULE FileStore -------------------------------
(******************************************************************************)
(* What a file server promises its clients: an id it names in a reply is the  *)
(* name of one content, the content it was given for it, for good; and a get  *)
(* answers with it.  FileService.tla implements this over a disk that fails.  *)
(******************************************************************************)
EXTENDS Naturals, Sequences, Functions

CONSTANTS
  Body,      \* contents clients put
  Size,      \* their lengths
  Buffer,    \* bodies up to this length may be cut off without notice
  NoReply

\* A content is a beginning of a body: [body, len].  A put reports it if it is the
\* whole body, or if the body is a small one.
Reported(c) == c.len = Size[c.body] \/ Size[c.body] <= Buffer

VARIABLES
  store,   \* the content of every id that was told to a client
  reply    \* the last reply

sVars == <<store, reply>>

SInit == store = [f \in {} |-> NoReply] /\ reply = NoReply

\* PutSingleFile, PutMultiFile: the ids the reply lists, next to an error or not,
\* are new, and each names the content stored for it.
Put(r) ==
  /\ r.op = "put"
  /\ IsInjective(r.ids)
  /\ DOMAIN store' = DOMAIN store \cup Range(r.ids)
  /\ DOMAIN store \cap Range(r.ids) = {}
  /\ \A f \in DOMAIN store : store'[f] = store[f]
  /\ \A i \in DOMAIN r.ids : Reported(store'[r.ids[i]]) /\ store'[r.ids[i]].body = r.bodies[i]

\* GetSingleFile, GetMultiFile: the ids the reply lists were told before, and the
\* contents it lists are theirs.
Get(r) ==
  /\ r.op = "get"
  /\ UNCHANGED store
  /\ \A i \in DOMAIN r.ids : r.ids[i] \in DOMAIN store /\ r.bodies[i] = store[r.ids[i]]

\* A reply is looked at once; what a crash cuts off is nobody's.
Forget == reply' = NoReply /\ UNCHANGED store

SNext == Forget \/ (reply' # NoReply /\ (Put(reply') \/ Get(reply')))

SSpec == SInit /\ [][SNext]_sVars

================================================================================
