------------------------------ MODULE FileService ------------------------------
(******************************************************************************)
(* One file server (file_server.hpp): PutSingleFile, PutMultiFile,            *)
(* GetSingleFile and GetMultiFile over uuid, writeFile and readFile           *)
(* (utils.hpp).  A single request is a list of one.  brpc's workers run       *)
(* handlers concurrently; open, write, close and read are steps of their own, *)
(* the disk may refuse any of them and the process may die between any two.   *)
(*                                                                            *)
(* An std::ofstream keeps up to Buffer units until it is closed and passes    *)
(* more to the disk in write: only then does good() know what became of it.   *)
(******************************************************************************)
EXTENDS Naturals, Sequences, Functions, FiniteSets

CONSTANTS
  Body, Size, Buffer, Worker, NoReply,
  Directory,   \* the empty id: filename is the storage directory itself
  Unknown,     \* an id no file has
  IndexRange,  \* 2^16 in the code: uuid's counter is an std::atomic<short>
  MaxRound,    \* bound: how often the counter starts at 0
  MaxItems,    \* bound: files per request
  MaxFiles,    \* bound: files on the disk
  Faults       \* may the disk refuse and the process die?

ASSUME SizeAssumption == Size \in [Body -> Nat] /\ Buffer \in Nat
ASSUME IndexAssumption == IndexRange \in Nat \ {0} /\ MaxRound \in Nat /\ MaxItems \in Nat \ {0} /\ MaxFiles \in Nat
ASSUME FaultsAssumption == Faults \in BOOLEAN

\* An id is 48 random bits and the counter.  The worst case is modelled: all ids
\* of one round of the counter share the random bits.  That ids of two rounds
\* (after a restart or a wrap) have different ones is assumed.
FileId == [round : 0 .. MaxRound, idx : 0 .. IndexRange - 1]

ASSUME NamesAssumption == Directory \notin FileId /\ Unknown \notin FileId
ASSUME ReplyAssumption ==
  NoReply \notin [op : {"put", "get"}, ok : BOOLEAN, ids : Seq(FileId),
                  bodies : Seq(Body \cup [body : Body, len : Nat])]

VARIABLES
  round,    \* which random bits uuid() draws
  idx,      \* the static counter of uuid()
  disk,     \* the files of the storage directory: [body, len], len units written
  handler,  \* of each worker: its place, its request, the file it is at, the
            \* file's size as readFile saw it, and the response so far
  reply,    \* history: the last reply sent, until the next request
  told,     \* history: ids some reply of a put listed
  lost      \* history: ids of handlers that died with the process

vars == <<round, idx, disk, handler, reply, told, lost>>
counters == <<round, idx>>
histories == <<reply, told, lost>>

Idle == [pc |-> "idle", op |-> "none", items |-> <<>>,
         fid |-> Unknown, flen |-> 0, ids |-> <<>>, bodies |-> <<>>]

Init ==
  /\ round = 0 /\ idx = 0
  /\ disk = [f \in {} |-> NoReply]
  /\ handler = [w \in Worker |-> Idle]
  /\ reply = NoReply /\ told = {} /\ lost = {}

With(f, k, v) == [x \in DOMAIN f \cup {k} |-> IF x = k THEN v ELSE f[x]]

At(w, pc) == handler[w].pc = pc
Goto(w, pc) == handler' = [handler EXCEPT ![w].pc = pc]

\* The item the loop is at: one more than the response lists.
Item(w) == handler[w].items[Len(handler[w].ids) + 1]

Listed(w, f, b) == [handler[w] EXCEPT !.ids = Append(@, f), !.bodies = Append(@, b)]

\* The handler returns, the closure sends the response as it is.
Reply(w, ok, h) ==
  /\ reply' = [op |-> h.op, ok |-> ok, ids |-> h.ids, bodies |-> h.bodies]
  /\ told' = IF h.op = "put" THEN told \cup Range(h.ids) ELSE told
  /\ handler' = [handler EXCEPT ![w] = Idle]
  /\ UNCHANGED <<counters, lost>>

\* Faulty: the error is set on a cleared response.
failedCleared(w) == Reply(w, FALSE, [handler[w] EXCEPT !.ids = <<>>, !.bodies = <<>>])

\* writeFile or readFile returned false: what is listed stays listed.
failed(w) == Reply(w, FALSE, handler[w])

\* The loop's next item, or the end of it.
Continue(w, next, h) ==
  IF Len(h.ids) = Len(h.items)
  THEN Reply(w, TRUE, h)
  ELSE handler' = [handler EXCEPT ![w] = [h EXCEPT !.pc = next]] /\ UNCHANGED <<counters, histories>>

--------------------------------------------------------------------------------
(* Requests                                                                   *)

Accept(w, op, items, first) ==
  /\ At(w, "idle")
  /\ handler' = [handler EXCEPT ![w] = [Idle EXCEPT !.pc = first, !.op = op, !.items = items]]
  /\ reply' = NoReply
  /\ UNCHANGED <<counters, disk, told, lost>>

PutSingleFile(w, b) == Accept(w, "put", <<b>>, "id")
PutMultiFile(w, bs) == Accept(w, "put", bs, "id")
GetSingleFile(w, f) == Accept(w, "get", <<f>>, "open_read")
GetMultiFile(w, fs) == Accept(w, "get", fs, "open_read")   \* an id listed twice is read twice

Several(S) == UNION {[1 .. n -> S] : n \in 2 .. MaxItems}

\* Clients ask for ids they were told; the user service also for the id of a user
\* without a picture, "" (user_server.hpp:353); and for ids of other file servers.
Request(w) ==
  \/ \E b \in Body : PutSingleFile(w, b)
  \/ \E bs \in Several(Body) : PutMultiFile(w, bs)
  \/ \E f \in told \cup {Directory, Unknown} : GetSingleFile(w, f)
  \/ \E fs \in Several(told \cup {Directory}) : GetMultiFile(w, fs)

--------------------------------------------------------------------------------
(* uuid and writeFile                                                         *)

TakeId(w) ==
  /\ round <= MaxRound /\ Cardinality(DOMAIN disk) < MaxFiles
  /\ At(w, "id")
  /\ handler' = [handler EXCEPT ![w].pc = "open_write", ![w].fid = [round |-> round, idx |-> idx]]
  /\ UNCHANGED <<disk, histories>>

\* Faulty: a counter that is read and never counted up.
uuidStuck(w) == TakeId(w) /\ UNCHANGED counters

\* Faulty: the counter leaves the range of its type.
uuidUnbounded(w) == TakeId(w) /\ idx' = idx + 1 /\ UNCHANGED round

\* fetch_add wraps without a word; round names the random bits from then on.
uuid(w) ==
  /\ TakeId(w)
  /\ idx' = (idx + 1) % IndexRange
  /\ round' = IF idx' = 0 THEN round + 1 ELSE round

\* std::ios::trunc
openWrite(w) ==
  /\ At(w, "open_write")
  /\ Goto(w, "write")
  /\ disk' = With(disk, handler[w].fid, [body |-> Item(w), len |-> 0])
  /\ UNCHANGED <<counters, histories>>

openWriteFailed(w) == Faults /\ At(w, "open_write") /\ failed(w) /\ UNCHANGED disk

Through(w) == Size[Item(w)] > Buffer
Cut(w, lens) == \E n \in lens : disk' = [disk EXCEPT ![handler[w].fid].len = n]

write(w) ==
  /\ At(w, "write")
  /\ Goto(w, "close")
  /\ IF Through(w) THEN Cut(w, {Size[Item(w)]}) ELSE UNCHANGED disk
  /\ UNCHANGED <<counters, histories>>

\* Faulty: good() is not asked.
writeFailedIgnored(w) ==
  /\ Faults /\ At(w, "write") /\ Through(w)
  /\ Goto(w, "close")
  /\ Cut(w, 0 .. Size[Item(w)] - 1)
  /\ UNCHANGED <<counters, histories>>

\* good() is false: the file stays as far as it was written.
writeFailed(w) ==
  /\ Faults /\ At(w, "write") /\ Through(w)
  /\ failed(w)
  /\ Cut(w, 0 .. Size[Item(w)] - 1)

\* close flushes what the stream kept and is not asked whether it could; the
\* reply lists the file.
close(w) ==
  /\ At(w, "close")
  /\ IF Through(w) THEN UNCHANGED disk
     ELSE Cut(w, IF Faults THEN 0 .. Size[Item(w)] ELSE {Size[Item(w)]})
  /\ Continue(w, "id", Listed(w, handler[w].fid, Item(w)))

--------------------------------------------------------------------------------
(* readFile                                                                   *)

Opens(w) == Item(w) \in DOMAIN disk \cup {Directory}

\* A directory can be opened for reading.
openRead(w) ==
  /\ At(w, "open_read") /\ Opens(w)
  /\ Goto(w, IF Item(w) = Directory THEN "directory" ELSE "size")
  /\ UNCHANGED <<counters, disk, histories>>

openReadFailed(w) ==
  /\ At(w, "open_read") /\ (Faults \/ ~Opens(w))
  /\ failed(w)
  /\ UNCHANGED disk

\* seekg and tellg: the size now
size(w) ==
  /\ At(w, "size")
  /\ handler' = [handler EXCEPT ![w].pc = "read", ![w].flen = disk[Item(w)].len]
  /\ UNCHANGED <<counters, disk, histories>>

Read(w, n) == Continue(w, "open_read", Listed(w, Item(w), [disk[Item(w)] EXCEPT !.len = n]))

\* Faulty: the body is read before it is resized.
readEmpty(w) == At(w, "read") /\ Read(w, 0) /\ UNCHANGED disk

\* read: flen bytes, or the end of a file that became shorter.
read(w) ==
  /\ At(w, "read") /\ disk[Item(w)].len >= handler[w].flen
  /\ Read(w, handler[w].flen)
  /\ UNCHANGED disk

readFailed(w) ==
  /\ At(w, "read") /\ (Faults \/ disk[Item(w)].len < handler[w].flen)
  /\ failed(w)
  /\ UNCHANGED disk

\* Reading a directory fails; where its end is the largest offset there is, resize
\* throws before, and nobody catches.
readDirectory(w) == At(w, "directory") /\ failed(w) /\ UNCHANGED disk

\* Every handler is gone, the counter starts again.
Die ==
  /\ round < MaxRound
  /\ round' = round + 1 /\ idx' = 0
  /\ lost' = lost \cup UNION {Range(handler[w].ids) \cup {handler[w].fid} :
                                w \in {v \in Worker : handler[v].op = "put"}}
  /\ handler' = [w \in Worker |-> Idle]
  /\ reply' = NoReply
  /\ UNCHANGED <<disk, told>>

resizeThrows(w) == At(w, "directory") /\ Die

crash == Faults /\ Die

Handler(w) ==
  \/ uuid(w) \/ openWrite(w) \/ openWriteFailed(w) \/ write(w) \/ writeFailed(w) \/ close(w)
  \/ openRead(w) \/ openReadFailed(w) \/ size(w) \/ read(w) \/ readFailed(w)
  \/ readDirectory(w) \/ resizeThrows(w)

Next ==
  \/ \E w \in Worker : Request(w) \/ Handler(w)
  \/ crash

Spec == Init /\ [][Next]_vars

--------------------------------------------------------------------------------
(* Properties                                                                 *)

TypeOK ==
  /\ round \in 0 .. MaxRound + 1
  /\ idx \in 0 .. IndexRange - 1
  /\ DOMAIN disk \subseteq FileId
  /\ \A f \in DOMAIN disk : disk[f].body \in Body /\ disk[f].len \in 0 .. Size[disk[f].body]
  /\ \A w \in Worker : /\ handler[w].fid \in FileId \cup {Unknown}
                       /\ Len(handler[w].ids) = Len(handler[w].bodies)
  /\ told \subseteq FileId

\* "将 body 中的数据, 写入 filename 对应的文件中" (utils.hpp:65): what a reply lists,
\* with success or next to an error, is stored in full and stays so, whatever
\* other puts, failures and crashes follow; only a body small enough to wait in
\* the stream's buffer may have been cut off.
ToldIsWhole ==
  \A f \in told :
    /\ f \in DOMAIN disk
    /\ disk[f].len = Size[disk[f].body] \/ Size[disk[f].body] <= Buffer

\* Two handlers never write one file, and none writes a file a client was told
\* of: one counter keeps the ids of all threads apart even if their random parts
\* are the same.
OneWriterPerFile ==
  \A v, w \in Worker : handler[v].fid # Unknown =>
    /\ handler[v].fid \notin told
    /\ v # w => handler[v].fid # handler[w].fid

\* A put of several files that fails half way lists the files before the failure:
\* of those it leaves behind, nobody is told of the unfinished one only (the
\* files of a crashed process aside).
OnlyBrokenAreForgotten ==
  LET mine(w) == Range(handler[w].ids) \cup {handler[w].fid} IN
  \A f \in DOMAIN disk \ (told \cup lost) :
    (\A w \in Worker : f \notin mine(w)) => disk[f].len < Size[disk[f].body]

\* To its clients the server is a store of contents under ids that never change.
Store == INSTANCE FileStore WITH store <- [f \in told |-> disk[f]]

ImplementsFileStore == Store!SSpec

================================================================================
