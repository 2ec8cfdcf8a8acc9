--------------------------- MODULE FileServiceProofs ---------------------------
(******************************************************************************)
(* What a file server keeps true for any number of workers, any bodies and    *)
(* any width of the id counter, over failing disk calls and crashes, and that *)
(* every step of it is a step of the store its clients see.                   *)
(******************************************************************************)
EXTENDS FileService, SequenceTheorems, TLAPS

--------------------------------------------------------------------------------
(* The inductive invariant                                                    *)

WritePlace == {"id", "open_write", "write", "close"}
ReadPlace == {"open_read", "size", "read", "directory"}

Name == FileId \cup {Directory, Unknown}
Content == [body : Body, len : Nat]

HandlerType ==
  [pc : {"idle"} \cup WritePlace \cup ReadPlace, op : {"none", "put", "get"},
   items : Seq(Body \cup Name), fid : FileId \cup {Unknown}, flen : Nat,
   ids : Seq(Name), bodies : Seq(Body \cup Content)]

\* An id the counter has left behind.
Used(f) == f.round < round \/ (f.round = round /\ f.idx < idx)

CountersOK == round \in 0 .. MaxRound + 1 /\ idx \in 0 .. IndexRange - 1

DiskOK ==
  /\ DOMAIN disk \subseteq FileId
  /\ \A f \in DOMAIN disk : /\ disk[f] \in Content
                            /\ disk[f].len <= Size[disk[f].body]
                            /\ Used(f)

Whole(c) == c.len = Size[c.body] \/ Size[c.body] <= Buffer

\* The ids a put was given and nobody was told of yet.
Mine(w) == Range(handler[w].ids) \cup ({handler[w].fid} \ {Unknown})

Putting(w) == handler[w].pc \in WritePlace

\* A put: what it lists is stored, the file it is at is its own.
PutListed(w) ==
  LET h == handler[w] IN
  /\ h.op = "put"
  /\ h.items \in Seq(Body) /\ h.ids \in Seq(FileId) /\ h.bodies \in Seq(Body)
  /\ Len(h.ids) = Len(h.bodies) /\ Len(h.ids) < Len(h.items)
  /\ IsInjective(h.ids)
  /\ \A i \in 1 .. Len(h.ids) : /\ h.ids[i] \in DOMAIN disk
                                /\ disk[h.ids[i]].body = h.bodies[i]
                                /\ Whole(disk[h.ids[i]])

PutOwns(w) ==
  LET h == handler[w] IN
  /\ \A f \in Mine(w) : f \in FileId /\ Used(f) /\ f \notin told
  /\ h.pc = "id" => h.fid \in {Unknown} \cup Range(h.ids)
  /\ h.pc # "id" => h.fid \in FileId \ Range(h.ids)
  /\ h.pc = "open_write" => h.fid \notin DOMAIN disk
  /\ h.pc \in {"write", "close"} => h.fid \in DOMAIN disk /\ disk[h.fid].body = Item(w)
  /\ h.pc = "close" /\ Through(w) => disk[h.fid].len = Size[Item(w)]

\* A get: it lists the files it was asked for as they are.
GetOK(w) ==
  LET h == handler[w] IN
  /\ h.op = "get" /\ h.fid = Unknown
  /\ h.items \in Seq(told \cup {Directory, Unknown}) /\ h.ids \in Seq(told)
  /\ Len(h.ids) = Len(h.bodies) /\ Len(h.ids) < Len(h.items)
  /\ \A i \in 1 .. Len(h.ids) : h.bodies[i] = disk[h.ids[i]]
  /\ h.pc \in {"size", "read"} => Item(w) \in told
  /\ h.pc = "read" => h.flen = disk[Item(w)].len

WorkerOK(w) ==
  /\ handler[w].pc = "idle" => handler[w] = Idle
  /\ handler[w].pc \in WritePlace => PutListed(w) /\ PutOwns(w)
  /\ handler[w].pc \in ReadPlace => GetOK(w)

Separate ==
  \A v, w \in Worker : v # w /\ Putting(v) /\ Putting(w) => Mine(v) \cap Mine(w) = {}

IInv ==
  /\ CountersOK
  /\ DiskOK
  /\ handler \in [Worker -> HandlerType]
  /\ \A w \in Worker : WorkerOK(w)
  /\ Separate
  /\ told \subseteq DOMAIN disk /\ \A f \in told : Whole(disk[f])
  /\ OnlyBrokenAreForgotten

--------------------------------------------------------------------------------
(* What a step of one worker leaves to the others                             *)

\* The worker is at a file it opened or is about to open.
Writing(w) == handler[w].pc \in WritePlace \ {"id"}

Grows(w) ==
  /\ handler' \in [Worker -> HandlerType]
  /\ \A v \in Worker \ {w} : handler'[v] = handler[v]
  /\ told \subseteq told' /\ \A f \in told' \ told : Putting(w) /\ f \in Mine(w)
  /\ DOMAIN disk \subseteq DOMAIN disk'
  /\ \A f \in DOMAIN disk' \ DOMAIN disk : Writing(w) /\ f = handler[w].fid
  /\ \A f \in DOMAIN disk : disk'[f] = disk[f] \/ (Writing(w) /\ f = handler[w].fid)
  /\ \A f \in FileId : Used(f) => Used(f)'

\* The elements of a list with one more.
LEMMA RangeAppend ==
  ASSUME NEW S, NEW s \in Seq(S), NEW e \in S
  PROVE  /\ Append(s, e) \in Seq(S)
         /\ Len(Append(s, e)) = Len(s) + 1
         /\ \A i \in 1 .. Len(s) : Append(s, e)[i] = s[i]
         /\ Append(s, e)[Len(s) + 1] = e
         /\ Range(Append(s, e)) = Range(s) \cup {e}
<1>1. /\ Append(s, e) \in Seq(S)
      /\ Len(Append(s, e)) = Len(s) + 1
      /\ \A i \in 1 .. Len(s) : Append(s, e)[i] = s[i]
      /\ Append(s, e)[Len(s) + 1] = e
      /\ DOMAIN s = 1 .. Len(s) /\ Len(s) \in Nat
      /\ DOMAIN Append(s, e) = 1 .. Len(s) + 1
  OBVIOUS
<1> DEFINE a == Append(s, e)
<1> HIDE DEF a
<1>2. Range(a) = Range(s) \cup {e}
  <2>1. \A i \in 1 .. Len(s) + 1 : i \in 1 .. Len(s) \/ i = Len(s) + 1
    BY <1>1
  <2>2. Len(s) + 1 \in 1 .. Len(s) + 1 /\ 1 .. Len(s) \subseteq 1 .. Len(s) + 1
    BY <1>1
  <2> QED
    BY <1>1, <2>1, <2>2 DEF Range, a
<1> QED
  BY <1>1, <1>2 DEF a

\* The files of a put are its own: no get and no other put is at them.
LEMMA OthersFiles ==
  ASSUME IInv, NEW w \in Worker, NEW v \in Worker, v # w, Writing(w)
  PROVE  /\ handler[w].fid \in FileId /\ handler[w].fid \in Mine(w) /\ Putting(w)
         /\ handler[w].fid \notin told
         /\ handler[v].pc \in WritePlace => handler[w].fid \notin Mine(v)
<1>1. handler[w].fid \in FileId /\ handler[w].fid \in Mine(w) /\ handler[w].fid \notin told
  BY NamesAssumption DEF IInv, WorkerOK, PutOwns, Writing, WritePlace, Mine
<1> QED
  BY <1>1 DEF IInv, Separate, Putting, Writing

\* A worker at another file keeps its part of the invariant while this one steps.
LEMMA OthersKeep ==
  ASSUME IInv, NEW w \in Worker, Grows(w), NEW v \in Worker, v # w
  PROVE  WorkerOK(v)'
<1>1. handler'[v] = handler[v] /\ handler[v] \in HandlerType /\ WorkerOK(v)
  BY DEF Grows, IInv
<1>2. CASE handler[v].pc = "idle"
  BY <1>1, <1>2 DEF WorkerOK, Idle, WritePlace, ReadPlace
<1>3. CASE handler[v].pc \in ReadPlace
  <2>1. GetOK(v)
    BY <1>1, <1>3 DEF WorkerOK
  <2>2. \A f \in told : disk'[f] = disk[f]
    BY OthersFiles DEF Grows, IInv
  <2>3. told \subseteq told' /\ Seq(told) \subseteq Seq(told')
        /\ Seq(told \cup {Directory, Unknown}) \subseteq Seq(told' \cup {Directory, Unknown})
    BY DEF Grows
  <2>4. \A i \in 1 .. Len(handler[v].ids) : handler[v].ids[i] \in told
    BY <2>1 DEF GetOK
  <2>5. Item(v)' = Item(v)
    BY <1>1 DEF Item
  <2>6. GetOK(v)'
    BY <1>1, <2>1, <2>2, <2>3, <2>4, <2>5 DEF GetOK
  <2> QED
    BY <1>1, <1>3, <2>6 DEF WorkerOK, WritePlace, ReadPlace
<1>4. CASE handler[v].pc \in WritePlace
  <2>1. PutListed(v) /\ PutOwns(v) /\ Putting(v)
    BY <1>1, <1>4 DEF WorkerOK, Putting
  <2>2. \A f \in Mine(v) : f \in FileId /\ ~(Writing(w) /\ f = handler[w].fid)
    BY <1>4, <2>1, OthersFiles DEF PutOwns
  <2>3. \A f \in Mine(v) : (f \in DOMAIN disk' <=> f \in DOMAIN disk) /\ (f \in DOMAIN disk => disk'[f] = disk[f])
    BY <2>2 DEF Grows
  <2>4. \A f \in Mine(v) : f \notin told'
    BY <2>1 DEF Grows, IInv, Separate, PutOwns
  <2>5. Item(v)' = Item(v) /\ Mine(v)' = Mine(v) /\ Through(v)' = Through(v)
    BY <1>1 DEF Item, Mine, Through
  <2>6. \A i \in 1 .. Len(handler[v].ids) : handler[v].ids[i] \in Mine(v)
    BY <2>1 DEF PutListed, Mine, Range
  <2>7. PutListed(v)'
    BY <1>1, <2>1, <2>3, <2>6 DEF PutListed
  <2>8. handler[v].pc # "id" => handler[v].fid \in Mine(v)
    BY <2>1, NamesAssumption DEF PutOwns, Mine
  <2>9. handler[v].pc \in {"open_write", "write", "close"} => handler[v].fid \in Mine(v)
    BY <2>8
  <2>10. \A f \in Mine(v) : Used(f)'
    BY <2>1 DEF PutOwns, Grows
  <2>11. PutOwns(v)'
    BY <1>1, <2>1, <2>3, <2>4, <2>5, <2>9, <2>10 DEF PutOwns
  <2> QED
    BY <1>1, <1>4, <2>7, <2>11 DEF WorkerOK, WritePlace, ReadPlace
<1> QED
  BY <1>1, <1>2, <1>3, <1>4 DEF HandlerType

\* Ids stay apart as long as a worker takes only ids nobody has.
LEMMA StaySeparate ==
  ASSUME IInv, NEW w \in Worker, Grows(w),
         Putting(w)' => \A f \in Mine(w)' : (Putting(w) /\ f \in Mine(w)) \/ ~Used(f)
  PROVE  Separate'
<1>1. \A v \in Worker \ {w} : Mine(v)' = Mine(v) /\ Putting(v)' = Putting(v)
  BY DEF Grows, Mine, Putting
<1>2. \A v \in Worker \ {w} : Putting(v) => \A f \in Mine(v) : Used(f)
  BY DEF IInv, WorkerOK, PutOwns, Putting
<1> QED
  BY <1>1, <1>2 DEF IInv, Separate

\* Files that were told stay as they are, whoever writes.
LEMMA ToldStay ==
  ASSUME IInv, NEW w \in Worker, Grows(w)
  PROVE  \A f \in told : f \in DOMAIN disk' /\ disk'[f] = disk[f]
<1>1. Writing(w) => handler[w].fid \notin told
  BY NamesAssumption DEF IInv, WorkerOK, PutOwns, Writing, WritePlace, Mine
<1> QED
  BY <1>1 DEF Grows, IInv

--------------------------------------------------------------------------------
(* Answers                                                                    *)

\* A handler that answers: its ids are told, and the files it leaves behind
\* untold are cut off.
LEMMA Answered ==
  ASSUME IInv, NEW w \in Worker, NEW ok, NEW h,
         Reply(w, ok, h), Grows(w), DiskOK',
         h.op = handler[w].op \/ (h.op = "put" /\ Putting(w)),
         h.op = "put" => Range(handler[w].ids) \subseteq Range(h.ids),
         h.op = "put" => \A f \in Range(h.ids) : f \in DOMAIN disk' /\ Whole(disk'[f]),
         Writing(w) /\ handler[w].fid \in DOMAIN disk' \ told' =>
           disk'[handler[w].fid].len < Size[disk'[handler[w].fid].body]
  PROVE  IInv'
<1>1. CountersOK' /\ handler' \in [Worker -> HandlerType]
  BY DEF IInv, Reply, counters, Grows, CountersOK
<1>2. handler'[w] = Idle
  BY DEF Reply, IInv
<1>3. \A v \in Worker : WorkerOK(v)'
  <2>1. WorkerOK(w)'
    BY <1>2 DEF WorkerOK, Idle, WritePlace, ReadPlace
  <2> QED
    BY <2>1, OthersKeep
<1>4. Separate'
  <2>1. ~Putting(w)'
    BY <1>2 DEF Putting, Idle, WritePlace
  <2> QED
    BY <2>1, StaySeparate
<1>5. told' \subseteq DOMAIN disk' /\ \A f \in told' : Whole(disk'[f])
  <2>1. \A f \in told' : f \in told \/ (h.op = "put" /\ f \in Range(h.ids))
    BY DEF Reply
  <2> QED
    BY <2>1, ToldStay DEF IInv
<1>6. OnlyBrokenAreForgotten'
  <2> DEFINE mine(v) == Range(handler[v].ids) \cup {handler[v].fid}
  <2> SUFFICES ASSUME NEW f \in DOMAIN disk' \ (told' \cup lost'),
                      \A v \in Worker : f \notin mine(v)'
               PROVE  disk'[f].len < Size[disk'[f].body]
    BY DEF OnlyBrokenAreForgotten
  <2>1. \A v \in Worker \ {w} : f \notin mine(v)
    BY DEF Grows
  <2>2. lost' = lost /\ told' = (IF h.op = "put" THEN told \cup Range(h.ids) ELSE told)
    BY DEF Reply
  <2>3. CASE Writing(w) /\ f = handler[w].fid
    BY <2>3
  <2>4. CASE ~(Writing(w) /\ f = handler[w].fid)
    <3>1. f \in DOMAIN disk /\ disk'[f] = disk[f] /\ f \notin told \cup lost
      BY <2>2, <2>4 DEF Grows
    <3>2. f \notin Range(handler[w].ids)
      <4>1. CASE handler[w].pc \in WritePlace
        <5>1. handler[w].op = "put"
          BY <4>1 DEF IInv, WorkerOK, PutListed
        <5> QED
          BY <2>2, <5>1
      <4>2. CASE handler[w].pc \in ReadPlace
        BY <3>1, <4>2 DEF IInv, WorkerOK, GetOK, Range
      <4>3. CASE handler[w].pc = "idle"
        BY <4>3 DEF IInv, WorkerOK, Idle, Range
      <4> QED
        BY <4>1, <4>2, <4>3 DEF IInv, HandlerType
    <3>3. f # handler[w].fid
      <4>1. f \in FileId
        BY <3>1 DEF IInv, DiskOK
      <4>2. CASE handler[w].pc \in WritePlace
        BY <2>4, <3>2, <4>1, <4>2, NamesAssumption DEF IInv, WorkerOK, PutOwns, Writing
      <4>3. CASE handler[w].pc \in ReadPlace
        BY <4>1, <4>3, NamesAssumption DEF IInv, WorkerOK, GetOK
      <4>4. CASE handler[w].pc = "idle"
        BY <4>1, <4>4, NamesAssumption DEF IInv, WorkerOK, Idle
      <4> QED
        BY <4>2, <4>3, <4>4 DEF IInv, HandlerType
    <3> QED
      BY <2>1, <3>1, <3>2, <3>3 DEF IInv, OnlyBrokenAreForgotten
  <2> QED
    BY <2>3, <2>4
<1> QED
  BY <1>1, <1>3, <1>4, <1>5, <1>6 DEF IInv

\* An answer that lists what was listed before, with the disk as it is.
LEMMA AnsweredAsIs ==
  ASSUME IInv, NEW w \in Worker, NEW ok, Reply(w, ok, handler[w]), UNCHANGED disk,
         ~Writing(w) \/ handler[w].pc = "open_write"
  PROVE  IInv'
<1>1. CASE handler[w].pc \in WritePlace
  <2>1. PutListed(w) /\ PutOwns(w) /\ handler[w].op = "put" /\ Putting(w)
    BY <1>1 DEF IInv, WorkerOK, PutListed, Putting
  <2>2. /\ handler' = [handler EXCEPT ![w] = Idle]
        /\ told' = told \cup Range(handler[w].ids) /\ UNCHANGED counters
    BY <2>1 DEF Reply
  <2>3. Idle \in HandlerType
    BY DEF Idle, HandlerType, WritePlace
  <2>4. Grows(w)
    BY <2>1, <2>2, <2>3 DEF Grows, IInv, Mine, Used, counters
  <2>5. DiskOK'
    BY <2>2 DEF IInv, DiskOK, Used, counters
  <2>6. \A f \in Range(handler[w].ids) : f \in DOMAIN disk' /\ Whole(disk'[f])
    BY <2>1 DEF PutListed, Range
  <2>7. Writing(w) => handler[w].fid \notin DOMAIN disk'
    BY <2>1 DEF PutOwns
  <2> QED
    BY <2>1, <2>4, <2>5, <2>6, <2>7, Answered
<1>2. CASE handler[w].pc \notin WritePlace
  <2>1. handler[w].op # "put"
    BY <1>2 DEF IInv, HandlerType, WorkerOK, Idle, GetOK
  <2>2. /\ handler' = [handler EXCEPT ![w] = Idle]
        /\ told' = told /\ UNCHANGED counters
    BY <2>1 DEF Reply
  <2>3. Idle \in HandlerType
    BY DEF Idle, HandlerType, WritePlace
  <2>4. Grows(w)
    BY <2>2, <2>3 DEF Grows, IInv, Used, counters
  <2>5. DiskOK'
    BY <2>2 DEF IInv, DiskOK, Used, counters
  <2>6. ~Writing(w)
    BY <1>2 DEF Writing
  <2> QED
    BY <2>1, <2>4, <2>5, <2>6, Answered
<1> QED
  BY <1>1, <1>2

--------------------------------------------------------------------------------
(* Steps of a handler that goes on                                            *)

\* A worker that goes on, at its own file if at any.
LEMMA GoesOn ==
  ASSUME IInv, NEW w \in Worker, Grows(w), CountersOK', DiskOK', WorkerOK(w)',
         UNCHANGED <<told, lost>>,
         Putting(w)' => \A f \in Mine(w)' : (Putting(w) /\ f \in Mine(w)) \/ ~Used(f),
         \A f \in Range(handler[w].ids) \cup {handler[w].fid} :
           f \in told' \cup Range(handler'[w].ids) \cup {handler'[w].fid, Unknown},
         Writing(w) => handler'[w].fid = handler[w].fid
  PROVE  IInv'
<1>1. \A v \in Worker : WorkerOK(v)'
  BY OthersKeep
<1>2. Separate'
  BY StaySeparate
<1>3. told' \subseteq DOMAIN disk' /\ \A f \in told' : Whole(disk'[f])
  BY ToldStay DEF IInv
<1>4. OnlyBrokenAreForgotten'
  <2> DEFINE mine(v) == Range(handler[v].ids) \cup {handler[v].fid}
  <2> SUFFICES ASSUME NEW f \in DOMAIN disk' \ (told' \cup lost'),
                      \A v \in Worker : f \notin mine(v)'
               PROVE  disk'[f].len < Size[disk'[f].body]
    BY DEF OnlyBrokenAreForgotten
  <2>1. f # Unknown
    BY NamesAssumption DEF DiskOK
  <2>2. \A v \in Worker : f \notin mine(v)
    BY <2>1 DEF Grows
  <2>3. f \in DOMAIN disk /\ disk'[f] = disk[f]
    BY <2>2 DEF Grows
  <2> QED
    BY <2>2, <2>3 DEF IInv, OnlyBrokenAreForgotten
<1> QED
  BY <1>1, <1>2, <1>3, <1>4 DEF IInv, Grows

\* A new request starts with empty lists.
LEMMA AcceptKeeps ==
  ASSUME IInv, NEW w \in Worker, NEW op \in {"put", "get"}, NEW items, NEW first,
         Accept(w, op, items, first), items \in Seq(Body \cup Name), Len(items) > 0,
         op = "put" => first = "id" /\ items \in Seq(Body),
         op = "get" => first = "open_read" /\ items \in Seq(told \cup {Directory, Unknown})
  PROVE  IInv'
<1> DEFINE h == [Idle EXCEPT !.pc = first, !.op = op, !.items = items]
<1>0. \A S : <<>> \in Seq(S) /\ Len(<<>>) = 0 /\ DOMAIN <<>> = {} /\ 1 .. 0 = {}
  OBVIOUS
<1>1. /\ h.pc = first /\ h.op = op /\ h.items = items /\ h.fid = Unknown
      /\ h.ids = <<>> /\ h.bodies = <<>> /\ h.flen = 0
      /\ h \in HandlerType
  <2>1. /\ Idle \in HandlerType
        /\ Idle.fid = Unknown /\ Idle.ids = <<>> /\ Idle.bodies = <<>> /\ Idle.flen = 0
    BY <1>0 DEF Idle, HandlerType
  <2>2. first \in {"idle"} \cup WritePlace \cup ReadPlace
    BY DEF WritePlace, ReadPlace
  <2> QED
    BY <2>1, <2>2 DEF HandlerType
<1>2. handler[w] = Idle /\ handler' = [handler EXCEPT ![w] = h]
  BY DEF IInv, WorkerOK, At, Accept
<1> HIDE DEF h
<1>3. handler'[w] = h /\ UNCHANGED <<counters, disk, told, lost>>
  BY <1>2 DEF IInv, Accept
<1>4. Grows(w)
  BY <1>1, <1>2, <1>3 DEF IInv, Grows, Used, counters
<1>5. CountersOK' /\ DiskOK'
  BY <1>3 DEF IInv, CountersOK, DiskOK, Used, counters
<1>6. Mine(w)' = {}
  BY <1>1, <1>3 DEF Mine, Range
<1>7. WorkerOK(w)'
  <2>1. CASE op = "put"
    <3>1. PutListed(w)'
      BY <1>0, <1>1, <1>3, <2>1 DEF PutListed, IsInjective
    <3>2. PutOwns(w)'
      BY <1>1, <1>3, <1>6, <2>1 DEF PutOwns
    <3> QED
      BY <1>1, <1>3, <2>1, <3>1, <3>2 DEF WorkerOK, ReadPlace
  <2>2. CASE op = "get"
    <3>1. GetOK(w)'
      <4>1. \A i \in 1 .. Len(h.ids) : FALSE
        BY <1>0, <1>1
      <4>2. Len(h.ids) < Len(h.items) /\ Len(h.ids) = Len(h.bodies)
        BY <1>0, <1>1
      <4> QED
        BY <1>0, <1>1, <1>3, <2>2, <4>1, <4>2 DEF GetOK
    <3> QED
      BY <1>1, <1>3, <2>2, <3>1 DEF WorkerOK, WritePlace
  <2> QED
    BY <2>1, <2>2
<1>8. \A f \in Range(handler[w].ids) \cup {handler[w].fid} : f = Unknown
  BY <1>2 DEF Idle, Range
<1>9. ~Writing(w)
  BY <1>2 DEF Writing, Idle, WritePlace
<1> QED
  BY <1>3, <1>4, <1>5, <1>6, <1>7, <1>8, <1>9, GoesOn

\* Each of the four RPCs starts a handler that holds nothing yet.
LEMMA RequestKeeps ==
  ASSUME IInv, NEW w \in Worker, Request(w)
  PROVE  IInv'
<1>1. \A S, items : items \in Several(S) => items \in Seq(S) /\ Len(items) > 0
  <2>1. ASSUME NEW S, NEW n \in 2 .. MaxItems, NEW items \in [1 .. n -> S]
        PROVE  items \in Seq(S) /\ Len(items) > 0
    <3>1. n \in Nat /\ n > 0
      BY <2>1, IndexAssumption
    <3>2. items \in Seq(S) /\ Len(items) = n
      BY <2>1, <3>1, SeqDef, LenProperties
    <3> QED
      BY <3>1, <3>2
  <2> QED
    BY <2>1 DEF Several
<1>2. told \subseteq FileId
  BY DEF IInv, DiskOK
<1>3. Body \subseteq Body \cup Name /\ told \cup {Directory, Unknown} \subseteq Body \cup Name
  BY <1>2 DEF Name
<1>4. /\ \A items : items \in Seq(Body) => items \in Seq(Body \cup Name)
      /\ \A items : items \in Seq(told \cup {Directory, Unknown}) => items \in Seq(Body \cup Name)
  BY <1>3
<1>5. ASSUME NEW b \in Body, PutSingleFile(w, b) PROVE IInv'
  <2>1. <<b>> \in Seq(Body) /\ Len(<<b>>) > 0
    OBVIOUS
  <2> QED
    BY <1>4, <1>5, <2>1, AcceptKeeps DEF PutSingleFile
<1>6. ASSUME NEW bs \in Several(Body), PutMultiFile(w, bs) PROVE IInv'
  BY <1>1, <1>4, <1>6, AcceptKeeps DEF PutMultiFile
<1>7. ASSUME NEW f \in told \cup {Directory, Unknown}, GetSingleFile(w, f) PROVE IInv'
  <2>1. <<f>> \in Seq(told \cup {Directory, Unknown}) /\ Len(<<f>>) > 0
    OBVIOUS
  <2> QED
    BY <1>4, <1>7, <2>1, AcceptKeeps DEF GetSingleFile
<1>8. ASSUME NEW fs \in Several(told \cup {Directory}), GetMultiFile(w, fs) PROVE IInv'
  <2>1. fs \in Seq(told \cup {Directory, Unknown}) /\ Len(fs) > 0
    BY <1>1
  <2> QED
    BY <1>4, <1>8, <2>1, AcceptKeeps DEF GetMultiFile
<1> QED
  BY <1>5, <1>6, <1>7, <1>8 DEF Request

--------------------------------------------------------------------------------
(* Puts                                                                       *)

\* What a put is at is a body.
LEMMA PutItem ==
  ASSUME IInv, NEW w \in Worker, handler[w].pc \in WritePlace
  PROVE  /\ PutListed(w) /\ PutOwns(w) /\ handler[w] \in HandlerType
         /\ Putting(w)
         /\ Item(w) \in Body /\ Size[Item(w)] \in Nat
<1>1. PutListed(w) /\ PutOwns(w) /\ handler[w] \in HandlerType
  BY DEF IInv, WorkerOK
<1>2. Len(handler[w].ids) + 1 \in 1 .. Len(handler[w].items)
  BY <1>1 DEF PutListed
<1>3. Item(w) \in Body
  BY <1>1, <1>2 DEF PutListed, Item
<1> QED
  BY <1>1, <1>3, SizeAssumption DEF Putting

\* The id uuid returns is none of those before.
LEMMA uuidKeeps ==
  ASSUME IInv, NEW w \in Worker, uuid(w)
  PROVE  IInv'
<1>0. [round |-> round, idx |-> idx] \in FileId
  BY DEF FileId, IInv, CountersOK, uuid, TakeId
<1> PICK f \in FileId : f = [round |-> round, idx |-> idx]
  BY <1>0
<1>1. /\ handler[w].pc = "id" /\ round <= MaxRound
      /\ handler' = [handler EXCEPT ![w].pc = "open_write", ![w].fid = f]
      /\ idx' = (idx + 1) % IndexRange
      /\ round' = IF idx' = 0 THEN round + 1 ELSE round
      /\ UNCHANGED <<disk, reply, told, lost>>
  BY DEF uuid, TakeId, At, histories
<1>2. PutListed(w) /\ PutOwns(w) /\ Putting(w) /\ handler[w] \in HandlerType
  BY <1>1, PutItem DEF WritePlace
<1>3. /\ round \in Nat /\ idx \in Nat /\ idx < IndexRange /\ IndexRange \in Nat /\ IndexRange > 0
      /\ MaxRound \in Nat
  BY IndexAssumption DEF IInv, CountersOK
<1>4. /\ f \in FileId /\ f.round = round /\ f.idx = idx /\ ~Used(f) /\ f # Unknown
  BY <1>1, <1>3, NamesAssumption DEF FileId, Used, IInv, CountersOK
<1>5. idx' = IF idx + 1 = IndexRange THEN 0 ELSE idx + 1
  BY <1>1, <1>3
<1>6. CountersOK'
  BY <1>1, <1>3, <1>5 DEF CountersOK
<1>7. Used(f)' /\ \A g \in FileId : Used(g) => Used(g)'
  <2>1. \A g \in FileId : g.round \in Nat /\ g.idx \in Nat /\ g.idx < IndexRange
    BY <1>3 DEF FileId
  <2>2. CASE idx + 1 = IndexRange
    <3>1. round' = round + 1 /\ idx' = 0
      BY <1>1, <1>5, <2>2
    <3> QED
      BY <1>3, <1>4, <2>1, <3>1 DEF Used
  <2>3. CASE idx + 1 # IndexRange
    <3>1. round' = round /\ idx' = idx + 1
      BY <1>1, <1>3, <1>5, <2>3
    <3> QED
      BY <1>3, <1>4, <2>1, <3>1 DEF Used
  <2> QED
    BY <2>2, <2>3
<1>8. /\ handler'[w].pc = "open_write" /\ handler'[w].fid = f /\ handler'[w].op = handler[w].op
      /\ handler'[w].items = handler[w].items /\ handler'[w].ids = handler[w].ids
      /\ handler'[w].bodies = handler[w].bodies
      /\ handler'[w] \in HandlerType
  BY <1>1, <1>2, <1>4 DEF IInv, HandlerType, WritePlace
<1>9. Grows(w)
  BY <1>1, <1>7, <1>8 DEF IInv, Grows
<1>10. DiskOK'
  BY <1>1, <1>7 DEF IInv, DiskOK
<1>11. f \notin DOMAIN disk /\ f \notin told /\ f \notin Mine(w)
  BY <1>2, <1>4 DEF IInv, DiskOK, PutOwns
<1>12. Mine(w)' = Range(handler[w].ids) \cup {f} /\ Mine(w)' \subseteq Mine(w) \cup {f}
  BY <1>4, <1>8 DEF Mine
<1>13. WorkerOK(w)'
  <2>1. PutListed(w)'
    BY <1>1, <1>2, <1>8 DEF PutListed
  <2>2. PutOwns(w)'
    <3>1. \A g \in Mine(w)' : g \in FileId /\ Used(g)' /\ g \notin told'
      <4>1. \A g \in Mine(w) : g \in FileId /\ Used(g) /\ g \notin told
        BY <1>2 DEF PutOwns
      <4> QED
        BY <1>1, <1>4, <1>7, <1>11, <1>12, <4>1
    <3>2. f \notin Range(handler[w].ids)
      BY <1>11 DEF Mine
    <3> QED
      BY <1>1, <1>4, <1>8, <1>11, <3>1, <3>2 DEF PutOwns
  <2> QED
    BY <1>8, <2>1, <2>2 DEF WorkerOK, WritePlace, ReadPlace
<1>14. \A g \in Range(handler[w].ids) \cup {handler[w].fid} :
         g \in Range(handler'[w].ids) \cup {Unknown}
  BY <1>1, <1>2, <1>8 DEF PutOwns
<1>15. \A g \in Mine(w)' : (Putting(w) /\ g \in Mine(w)) \/ ~Used(g)
  BY <1>2, <1>4, <1>12
<1>16. ~Writing(w) /\ UNCHANGED <<told, lost>>
  BY <1>1 DEF Writing
<1> QED
  BY <1>6, <1>9, <1>10, <1>13, <1>14, <1>15, <1>16, GoesOn

\* open truncates a file nobody was told of.
LEMMA openWriteKeeps ==
  ASSUME IInv, NEW w \in Worker, openWrite(w)
  PROVE  IInv'
<1> DEFINE f == handler[w].fid
           new == [body |-> Item(w), len |-> 0]
<1>1. /\ handler[w].pc = "open_write" /\ handler' = [handler EXCEPT ![w].pc = "write"]
      /\ disk' = With(disk, f, new)
      /\ UNCHANGED <<round, idx, reply, told, lost>>
  BY DEF openWrite, At, Goto, counters, histories
<1>2. /\ PutListed(w) /\ PutOwns(w) /\ Putting(w) /\ handler[w] \in HandlerType
      /\ Item(w) \in Body /\ Size[Item(w)] \in Nat
  BY <1>1, PutItem DEF WritePlace
<1>3. /\ f \in FileId \ Range(handler[w].ids) /\ f \notin DOMAIN disk /\ f \in Mine(w) /\ Used(f)
      /\ Writing(w)
  BY <1>1, <1>2, NamesAssumption DEF PutOwns, Mine, Writing, WritePlace
<1>4. /\ DOMAIN disk' = DOMAIN disk \cup {f} /\ disk'[f] = new
      /\ \A g \in DOMAIN disk : disk'[g] = disk[g]
  BY <1>1, <1>3 DEF With
<1>5. new \in Content /\ new.body = Item(w) /\ new.len = 0
  BY <1>2 DEF Content
<1>6. /\ handler'[w].pc = "write" /\ handler'[w].fid = f /\ handler'[w].op = handler[w].op
      /\ handler'[w].items = handler[w].items /\ handler'[w].ids = handler[w].ids
      /\ handler'[w].bodies = handler[w].bodies
      /\ handler'[w] \in HandlerType
  BY <1>1, <1>2 DEF IInv, HandlerType, WritePlace
<1> HIDE DEF f, new
<1>7. Grows(w)
  BY <1>1, <1>3, <1>4, <1>6 DEF IInv, Grows, Used, f
<1>8. CountersOK' /\ DiskOK'
  BY <1>1, <1>2, <1>3, <1>4, <1>5 DEF IInv, CountersOK, DiskOK, Used
<1>9. Mine(w)' = Mine(w) /\ Item(w)' = Item(w)
  BY <1>6 DEF Mine, Item, f
<1>10. WorkerOK(w)'
  <2>1. PutListed(w)'
    BY <1>1, <1>2, <1>4, <1>6 DEF PutListed
  <2>2. \A g \in Mine(w)' : g \in FileId /\ Used(g)' /\ g \notin told'
    BY <1>1, <1>2, <1>9 DEF PutOwns, Used
  <2>3. PutOwns(w)'
    BY <1>3, <1>4, <1>5, <1>6, <1>9, <2>2 DEF PutOwns
  <2> QED
    BY <1>6, <2>1, <2>3 DEF WorkerOK, ReadPlace
<1> QED
  BY <1>1, <1>2, <1>6, <1>7, <1>8, <1>9, <1>10, GoesOn DEF f

\* What the disk gets of the body at hand: the put's own file, no longer.
LEMMA CutKeeps ==
  ASSUME IInv, NEW w \in Worker, Writing(w), handler[w].fid \in DOMAIN disk,
         NEW n \in Nat, n <= Size[disk[handler[w].fid].body],
         disk' = [disk EXCEPT ![handler[w].fid].len = n],
         UNCHANGED counters
  PROVE  /\ DOMAIN disk' = DOMAIN disk
         /\ disk'[handler[w].fid].len = n
         /\ disk'[handler[w].fid].body = disk[handler[w].fid].body
         /\ \A g \in DOMAIN disk \ {handler[w].fid} : disk'[g] = disk[g]
         /\ DiskOK'
         /\ \A g : Used(g)' = Used(g)
<1> DEFINE f == handler[w].fid
<1>1. disk[f] \in Content
  BY DEF IInv, DiskOK
<1>2. DOMAIN disk' = DOMAIN disk /\ disk'[f] = [disk[f] EXCEPT !.len = n]
      /\ \A g \in DOMAIN disk \ {f} : disk'[g] = disk[g]
  OBVIOUS
<1>3. disk'[f].len = n /\ disk'[f].body = disk[f].body /\ disk'[f] \in Content
  BY <1>1, <1>2 DEF Content
<1>4. \A g : Used(g)' = Used(g)
  BY DEF Used, counters
<1> HIDE DEF f
<1>5. DiskOK'
  BY <1>1, <1>2, <1>3, <1>4 DEF IInv, DiskOK, f
<1> QED
  BY <1>2, <1>3, <1>4, <1>5 DEF f

\* What an open put is at.
LEMMA AtFile ==
  ASSUME IInv, NEW w \in Worker, handler[w].pc \in {"write", "close"}
  PROVE  /\ handler[w].fid \in FileId \ Range(handler[w].ids)
         /\ handler[w].fid \in DOMAIN disk /\ disk[handler[w].fid].body = Item(w)
         /\ handler[w].fid \in Mine(w) /\ Used(handler[w].fid) /\ handler[w].fid \notin told
         /\ Writing(w)
         /\ PutListed(w) /\ PutOwns(w) /\ Putting(w) /\ handler[w] \in HandlerType
         /\ Item(w) \in Body /\ Size[Item(w)] \in Nat
<1>1. /\ PutListed(w) /\ PutOwns(w) /\ Putting(w) /\ handler[w] \in HandlerType
      /\ Item(w) \in Body /\ Size[Item(w)] \in Nat
  BY PutItem DEF WritePlace
<1>2. handler[w].fid \in FileId /\ handler[w].fid \in Mine(w) /\ Writing(w)
  BY <1>1, NamesAssumption DEF PutOwns, Mine, Writing, WritePlace
<1> QED
  BY <1>1, <1>2 DEF PutOwns

\* What write and close do to the disk: nothing, or a length of the own file.
LEMMA CutOrNot ==
  ASSUME IInv, NEW w \in Worker, handler[w].pc \in {"write", "close"}, UNCHANGED counters,
         NEW lens \in SUBSET (0 .. Size[Item(w)]), UNCHANGED disk \/ Cut(w, lens)
  PROVE  /\ DOMAIN disk' = DOMAIN disk
         /\ disk'[handler[w].fid].body = Item(w)
         /\ Cut(w, lens) => disk'[handler[w].fid].len \in lens
         /\ \A g \in DOMAIN disk \ {handler[w].fid} : disk'[g] = disk[g]
         /\ DiskOK' /\ CountersOK'
         /\ \A g : Used(g)' = Used(g)
<1>1. CountersOK'
  BY DEF IInv, CountersOK, counters
<1>2. CASE UNCHANGED disk /\ ~Cut(w, lens)
  <2>1. \A g : Used(g)' = Used(g)
    BY DEF Used, counters
  <2>2. DiskOK'
    BY <1>2, <2>1 DEF IInv, DiskOK
  <2> QED
    BY <1>1, <1>2, <2>1, <2>2, AtFile
<1>3. CASE Cut(w, lens)
  <2>1. PICK n \in lens : disk' = [disk EXCEPT ![handler[w].fid].len = n]
    BY <1>3 DEF Cut
  <2>2. n \in Nat /\ n <= Size[disk[handler[w].fid].body] /\ Writing(w) /\ handler[w].fid \in DOMAIN disk
    BY <2>1, AtFile
  <2>3. disk[handler[w].fid].body = Item(w)
    BY AtFile
  <2>4. /\ DOMAIN disk' = DOMAIN disk
        /\ disk'[handler[w].fid].len = n
        /\ disk'[handler[w].fid].body = disk[handler[w].fid].body
        /\ \A g \in DOMAIN disk \ {handler[w].fid} : disk'[g] = disk[g]
        /\ DiskOK' /\ \A g : Used(g)' = Used(g)
    BY <2>1, <2>2, CutKeeps
  <2> QED
    BY <1>1, <2>1, <2>3, <2>4
<1> QED
  BY <1>2, <1>3

\* What a put that writes keeps of its list.
LEMMA writeKeeps ==
  ASSUME IInv, NEW w \in Worker, write(w)
  PROVE  IInv'
<1>1. /\ handler[w].pc = "write" /\ handler' = [handler EXCEPT ![w].pc = "close"]
      /\ UNCHANGED <<counters, reply, told, lost>>
      /\ IF Through(w) THEN Cut(w, {Size[Item(w)]}) ELSE UNCHANGED disk
  BY DEF write, At, Goto, histories
<1> DEFINE f == handler[w].fid
<1>2. /\ f \in FileId \ Range(handler[w].ids) /\ f \in DOMAIN disk /\ disk[f].body = Item(w)
      /\ Writing(w) /\ PutListed(w) /\ PutOwns(w) /\ Putting(w) /\ handler[w] \in HandlerType
      /\ Item(w) \in Body /\ Size[Item(w)] \in Nat
  BY <1>1, AtFile
<1>3. /\ DOMAIN disk' = DOMAIN disk /\ disk'[f].body = Item(w)
      /\ Through(w) => disk'[f].len = Size[Item(w)]
      /\ \A g \in DOMAIN disk \ {f} : disk'[g] = disk[g]
      /\ DiskOK' /\ CountersOK' /\ \A g : Used(g)' = Used(g)
  <2>1. {Size[Item(w)]} \in SUBSET (0 .. Size[Item(w)])
    BY <1>2
  <2>2. UNCHANGED disk \/ Cut(w, {Size[Item(w)]})
    BY <1>1
  <2>3. UNCHANGED counters
    BY <1>1
  <2>4. Cut(w, {Size[Item(w)]}) => disk'[f].len = Size[Item(w)]
    BY <1>1, <2>1, <2>3, CutOrNot
  <2> QED
    BY <1>1, <2>1, <2>2, <2>3, <2>4, CutOrNot
<1>4. /\ handler'[w].pc = "close" /\ handler'[w].fid = f /\ handler'[w].op = handler[w].op
      /\ handler'[w].items = handler[w].items /\ handler'[w].ids = handler[w].ids
      /\ handler'[w].bodies = handler[w].bodies
      /\ handler'[w] \in HandlerType
  BY <1>1, <1>2 DEF IInv, HandlerType, WritePlace
<1>5. Grows(w)
  BY <1>1, <1>2, <1>3, <1>4 DEF IInv, Grows
<1>6. Mine(w)' = Mine(w) /\ Item(w)' = Item(w) /\ Through(w)' = Through(w)
  BY <1>4 DEF Mine, Item, Through
<1>7. WorkerOK(w)'
  <2>1. \A i \in 1 .. Len(handler[w].ids) : handler[w].ids[i] \in DOMAIN disk \ {f}
    BY <1>2 DEF PutListed, Range
  <2>2. PutListed(w)'
    BY <1>2, <1>3, <1>4, <2>1 DEF PutListed
  <2>3. \A g \in Mine(w)' : g \in FileId /\ Used(g)' /\ g \notin told'
    BY <1>1, <1>2, <1>3, <1>6 DEF PutOwns
  <2>4. PutOwns(w)'
    BY <1>2, <1>3, <1>4, <1>6, <2>3 DEF PutOwns
  <2> QED
    BY <1>4, <2>2, <2>4 DEF WorkerOK, ReadPlace
<1> QED
  BY <1>1, <1>2, <1>3, <1>4, <1>5, <1>6, <1>7, GoesOn

\* A write that fails leaves a file that is too short and in no list.
LEMMA writeFailedKeeps ==
  ASSUME IInv, NEW w \in Worker, writeFailed(w)
  PROVE  IInv'
<1> DEFINE f == handler[w].fid
           lens == 0 .. Size[Item(w)] - 1
<1>1. handler[w].pc = "write" /\ Reply(w, FALSE, handler[w]) /\ Cut(w, lens) /\ UNCHANGED counters
  BY DEF writeFailed, At, failed, Reply
<1>2. /\ f \in FileId \ Range(handler[w].ids) /\ f \in DOMAIN disk /\ disk[f].body = Item(w)
      /\ Writing(w) /\ PutListed(w) /\ PutOwns(w) /\ Putting(w) /\ handler[w] \in HandlerType
      /\ Item(w) \in Body /\ Size[Item(w)] \in Nat
  BY <1>1, AtFile
<1>3. /\ DOMAIN disk' = DOMAIN disk /\ disk'[f].body = Item(w) /\ disk'[f].len < Size[Item(w)]
      /\ \A g \in DOMAIN disk \ {f} : disk'[g] = disk[g]
      /\ DiskOK' /\ \A g : Used(g)' = Used(g)
  <2>1. lens \in SUBSET (0 .. Size[Item(w)]) /\ \A n \in lens : n < Size[Item(w)]
    BY <1>2
  <2> HIDE DEF lens
  <2> QED
    BY <1>1, <2>1, CutOrNot
<1> HIDE DEF lens
<1>4. /\ handler' = [handler EXCEPT ![w] = Idle] /\ lost' = lost
      /\ told' = told \cup Range(handler[w].ids) /\ handler[w].op = "put"
  BY <1>1, <1>2 DEF Reply, PutListed
<1>5. Idle \in HandlerType
  BY DEF Idle, HandlerType, WritePlace
<1>6. Grows(w)
  BY <1>1, <1>2, <1>3, <1>4, <1>5 DEF Grows, IInv, Mine
<1>7. \A g \in Range(handler[w].ids) : g \in DOMAIN disk' /\ Whole(disk'[g])
  <2>1. \A i \in 1 .. Len(handler[w].ids) : handler[w].ids[i] \in DOMAIN disk \ {f}
    BY <1>2 DEF PutListed, Range
  <2> QED
    BY <1>2, <1>3, <2>1 DEF PutListed, Range
<1>8. disk'[f].len < Size[disk'[f].body]
  BY <1>3
<1> QED
  BY <1>1, <1>2, <1>3, <1>6, <1>7, <1>8, Answered

\* close: the file is in the list now and whole as far as anyone asked.
LEMMA closeLists ==
  ASSUME IInv, NEW w \in Worker, close(w)
  PROVE  LET f == handler[w].fid
             h == Listed(w, f, Item(w))
             g == [h EXCEPT !.pc = "id"] IN
         /\ DOMAIN disk' = DOMAIN disk
         /\ \A x \in DOMAIN disk \ {f} : disk'[x] = disk[x]
         /\ DiskOK' /\ CountersOK' /\ \A x : Used(x)' = Used(x)
         /\ h.op = "put" /\ h.items = handler[w].items
         /\ h.ids \in Seq(FileId) /\ h.bodies \in Seq(Body) /\ Len(h.ids) = Len(h.bodies)
         /\ Len(h.ids) = Len(handler[w].ids) + 1
         /\ IsInjective(h.ids) /\ Range(h.ids) = Range(handler[w].ids) \cup {f}
         /\ \A i \in 1 .. Len(h.ids) : /\ h.ids[i] \in DOMAIN disk'
                                        /\ disk'[h.ids[i]].body = h.bodies[i]
                                        /\ Whole(disk'[h.ids[i]])
         /\ g \in HandlerType /\ g.pc = "id" /\ g.op = h.op /\ g.items = h.items
         /\ g.fid = f /\ g.ids = h.ids /\ g.bodies = h.bodies
<1> DEFINE f == handler[w].fid
           lens == IF Faults THEN 0 .. Size[Item(w)] ELSE {Size[Item(w)]}
           h == Listed(w, f, Item(w))
<1>1. /\ handler[w].pc = "close" /\ Continue(w, "id", h)
      /\ IF Through(w) THEN UNCHANGED disk ELSE Cut(w, lens)
      /\ UNCHANGED <<counters, lost>>
  BY DEF close, At, Continue, Reply, histories
<1>2. /\ f \in FileId \ Range(handler[w].ids) /\ f \in DOMAIN disk /\ disk[f].body = Item(w)
      /\ f \in Mine(w) /\ f \notin told
      /\ Writing(w) /\ PutListed(w) /\ PutOwns(w) /\ Putting(w) /\ handler[w] \in HandlerType
      /\ Item(w) \in Body /\ Size[Item(w)] \in Nat /\ Buffer \in Nat
  BY <1>1, AtFile, SizeAssumption
<1>3. /\ DOMAIN disk' = DOMAIN disk /\ disk'[f].body = Item(w)
      /\ \A g \in DOMAIN disk \ {f} : disk'[g] = disk[g]
      /\ DiskOK' /\ CountersOK' /\ \A g : Used(g)' = Used(g)
  <2>1. lens \in SUBSET (0 .. Size[Item(w)])
    BY <1>2
  <2>2. UNCHANGED disk \/ Cut(w, lens)
    BY <1>1
  <2> HIDE DEF lens
  <2>3. UNCHANGED counters
    BY <1>1
  <2> QED
    BY <1>1, <2>1, <2>2, <2>3, CutOrNot
<1> HIDE DEF lens
<1>4. Whole(disk'[f])
  BY <1>1, <1>2, <1>3 DEF PutOwns, Through, Whole
<1>5. \A i \in 1 .. Len(handler[w].ids) : /\ handler[w].ids[i] \in DOMAIN disk'
                                          /\ disk'[handler[w].ids[i]].body = handler[w].bodies[i]
                                          /\ Whole(disk'[handler[w].ids[i]])
  <2>1. \A i \in 1 .. Len(handler[w].ids) : handler[w].ids[i] \in DOMAIN disk \ {f}
    BY <1>2 DEF PutListed, Range
  <2> QED
    BY <1>2, <1>3, <2>1 DEF PutListed
<1>6. /\ h.ids = Append(handler[w].ids, f) /\ h.bodies = Append(handler[w].bodies, Item(w))
      /\ h.op = "put" /\ h.items = handler[w].items /\ h.fid = f /\ h.flen = handler[w].flen
      /\ [h EXCEPT !.pc = "id"].ids = h.ids /\ [h EXCEPT !.pc = "id"].bodies = h.bodies
      /\ [h EXCEPT !.pc = "id"].op = h.op /\ [h EXCEPT !.pc = "id"].items = h.items
      /\ [h EXCEPT !.pc = "id"].fid = h.fid /\ [h EXCEPT !.pc = "id"].pc = "id"
      /\ [h EXCEPT !.pc = "id"].flen = h.flen
  BY <1>2 DEF Listed, HandlerType, PutListed
<1>7. /\ h.ids \in Seq(FileId) /\ h.bodies \in Seq(Body)
      /\ Len(h.ids) = Len(h.bodies) /\ Len(h.ids) = Len(handler[w].ids) + 1
      /\ Len(handler[w].ids) = Len(handler[w].bodies)
      /\ Len(handler[w].ids) \in Nat
      /\ Range(h.ids) = Range(handler[w].ids) \cup {f}
      /\ \A i \in 1 .. Len(handler[w].ids) : /\ h.ids[i] = handler[w].ids[i]
                                             /\ h.bodies[i] = handler[w].bodies[i]
      /\ h.ids[Len(handler[w].ids) + 1] = f /\ h.bodies[Len(handler[w].ids) + 1] = Item(w)
  <2>1. handler[w].ids \in Seq(FileId) /\ handler[w].bodies \in Seq(Body) /\ Len(handler[w].ids) = Len(handler[w].bodies)
    BY <1>2 DEF PutListed
  <2>2. Len(handler[w].ids) \in Nat
    BY <2>1
  <2> HIDE DEF h, f
  <2>3. /\ h.ids \in Seq(FileId) /\ Len(h.ids) = Len(handler[w].ids) + 1
        /\ Range(h.ids) = Range(handler[w].ids) \cup {f}
        /\ \A i \in 1 .. Len(handler[w].ids) : h.ids[i] = handler[w].ids[i]
        /\ h.ids[Len(handler[w].ids) + 1] = f
    BY <1>2, <1>6, <2>1, RangeAppend
  <2>4. /\ h.bodies \in Seq(Body) /\ Len(h.bodies) = Len(handler[w].bodies) + 1
        /\ \A i \in 1 .. Len(handler[w].bodies) : h.bodies[i] = handler[w].bodies[i]
        /\ h.bodies[Len(handler[w].bodies) + 1] = Item(w)
    BY <1>2, <1>6, <2>1, RangeAppend
  <2> QED
    BY <2>1, <2>2, <2>3, <2>4
<1>8. [h EXCEPT !.pc = "id"] \in HandlerType
  <2>1. h.ids \in Seq(Name) /\ h.bodies \in Seq(Body \cup Content)
    BY <1>7 DEF Name
  <2>2. h \in HandlerType
    BY <1>2, <1>6, <2>1 DEF Listed, HandlerType
  <2> HIDE DEF h
  <2> QED
    BY <2>2 DEF HandlerType, WritePlace
<1> DEFINE g == [h EXCEPT !.pc = "id"]
<1> HIDE DEF f, h, g
<1>9. \A i \in 1 .. Len(h.ids) : h.ids[i] \in DOMAIN disk' /\ disk'[h.ids[i]].body = h.bodies[i] /\ Whole(disk'[h.ids[i]])
  <2>1. \A i \in 1 .. Len(h.ids) : i \in 1 .. Len(handler[w].ids) \/ i = Len(handler[w].ids) + 1
    BY <1>7
  <2>2. \A i \in 1 .. Len(handler[w].ids) : h.ids[i] \in DOMAIN disk' /\ disk'[h.ids[i]].body = h.bodies[i] /\ Whole(disk'[h.ids[i]])
    BY <1>5, <1>7
  <2>3. LET i == Len(handler[w].ids) + 1
        IN  h.ids[i] \in DOMAIN disk' /\ disk'[h.ids[i]].body = h.bodies[i] /\ Whole(disk'[h.ids[i]])
    BY <1>2, <1>3, <1>4, <1>7
  <2> QED
    BY <2>1, <2>2, <2>3
<1>10. IsInjective(h.ids)
  <2>1. IsInjective(handler[w].ids) /\ DOMAIN handler[w].ids = 1 .. Len(handler[w].ids)
    BY <1>2 DEF PutListed
  <2>2. DOMAIN h.ids = 1 .. Len(handler[w].ids) + 1
    BY <1>7
  <2>3. \A i \in 1 .. Len(handler[w].ids) : h.ids[i] # f
    BY <1>2, <1>7, <2>1 DEF Range
  <2>4. \A i \in 1 .. Len(handler[w].ids) + 1 : i \in 1 .. Len(handler[w].ids) \/ i = Len(handler[w].ids) + 1
    BY <1>7
  <2> QED
    BY <1>7, <2>1, <2>2, <2>3, <2>4 DEF IsInjective
<1> QED
  BY <1>3, <1>6, <1>7, <1>8, <1>9, <1>10 DEF f, h, g

\* The handler goes on with the next file or answers.
LEMMA closeKeeps ==
  ASSUME IInv, NEW w \in Worker, close(w)
  PROVE  IInv'
<1> DEFINE f == handler[w].fid
           h == Listed(w, f, Item(w))
           g == [h EXCEPT !.pc = "id"]
<1>1. handler[w].pc = "close" /\ Continue(w, "id", h)
  BY DEF close, At
<1>2. /\ f \in FileId \ Range(handler[w].ids) /\ f \in Mine(w) /\ f \notin told
      /\ Writing(w) /\ PutListed(w) /\ PutOwns(w) /\ Putting(w) /\ handler[w] \in HandlerType
  BY <1>1, AtFile
<1>3. /\ DOMAIN disk' = DOMAIN disk
      /\ \A x \in DOMAIN disk \ {f} : disk'[x] = disk[x]
      /\ DiskOK' /\ CountersOK' /\ \A x : Used(x)' = Used(x)
      /\ h.op = "put" /\ h.items = handler[w].items
      /\ h.ids \in Seq(FileId) /\ h.bodies \in Seq(Body) /\ Len(h.ids) = Len(h.bodies)
      /\ Len(h.ids) = Len(handler[w].ids) + 1
      /\ IsInjective(h.ids) /\ Range(h.ids) = Range(handler[w].ids) \cup {f}
      /\ \A i \in 1 .. Len(h.ids) : /\ h.ids[i] \in DOMAIN disk'
                                     /\ disk'[h.ids[i]].body = h.bodies[i]
                                     /\ Whole(disk'[h.ids[i]])
      /\ g \in HandlerType /\ g.pc = "id" /\ g.op = h.op /\ g.items = h.items
      /\ g.fid = f /\ g.ids = h.ids /\ g.bodies = h.bodies
  BY closeLists
<1> HIDE DEF h, g
<1>4. \A x \in Range(h.ids) : x \in DOMAIN disk' /\ Whole(disk'[x])
  BY <1>3 DEF Range
<1>5. CASE Reply(w, TRUE, h)
  <2>1. /\ handler' = [handler EXCEPT ![w] = Idle] /\ told' = told \cup Range(h.ids)
    BY <1>3, <1>5 DEF Reply
  <2>2. Idle \in HandlerType
    BY DEF Idle, HandlerType, WritePlace
  <2>3. Grows(w)
    BY <1>2, <1>3, <2>1, <2>2 DEF Grows, IInv, Mine
  <2>4. f \in told'
    BY <1>3, <2>1
  <2>5. h.op = "put" /\ Range(handler[w].ids) \subseteq Range(h.ids)
    BY <1>3
  <2> HIDE DEF f
  <2>6. Writing(w) /\ f \in DOMAIN disk' \ told' => disk'[f].len < Size[disk'[f].body]
    BY <2>4
  <2> QED
    BY <1>2, <1>3, <1>4, <1>5, <2>3, <2>5, <2>6, Answered DEF f
<1>6. CASE Len(h.ids) # Len(h.items) /\ handler' = [handler EXCEPT ![w] = g] /\ UNCHANGED histories
  <2>1. /\ handler'[w] = g /\ g.ids = h.ids /\ g.bodies = h.bodies /\ g.op = "put"
        /\ g.items = handler[w].items /\ g.fid = f /\ g.pc = "id" /\ g \in HandlerType
    BY <1>3, <1>6 DEF g, IInv
  <2>2. Grows(w)
    BY <1>2, <1>3, <1>6, <2>1 DEF IInv, Grows, histories
  <2>3. Mine(w)' = Range(h.ids) /\ Mine(w)' = Mine(w)
    BY <1>2, <1>3, <2>1, NamesAssumption DEF Mine
  <2>4. WorkerOK(w)'
    <3>1. Len(h.ids) < Len(h.items)
      <4>1. Len(handler[w].ids) < Len(handler[w].items) /\ Len(handler[w].items) \in Nat
        BY <1>2 DEF PutListed
      <4> QED
        BY <1>3, <1>6, <4>1
    <3>2. PutListed(w)'
      BY <1>2, <1>3, <2>1, <3>1 DEF PutListed
    <3>3. \A x \in Mine(w)' : x \in FileId /\ Used(x)' /\ x \notin told'
      BY <1>2, <1>3, <1>6, <2>3 DEF PutOwns, histories
    <3>4. PutOwns(w)'
      BY <1>3, <2>1, <3>3 DEF PutOwns
    <3> QED
      BY <2>1, <3>2, <3>4 DEF WorkerOK, WritePlace, ReadPlace
  <2>5. UNCHANGED <<told, lost>>
    BY <1>6 DEF histories
  <2>6. \A x \in Range(handler[w].ids) \cup {handler[w].fid} :
           x \in told' \cup Range(handler'[w].ids) \cup {handler'[w].fid, Unknown}
    BY <1>3, <2>1
  <2>7. Writing(w) => handler'[w].fid = handler[w].fid
    BY <2>1
  <2>8. \A x \in Mine(w)' : (Putting(w) /\ x \in Mine(w)) \/ ~Used(x)
    BY <1>2, <2>3
  <2> QED
    BY <1>3, <2>2, <2>4, <2>5, <2>6, <2>7, <2>8, GoesOn
<1> QED
  BY <1>1, <1>5, <1>6 DEF Continue, g

--------------------------------------------------------------------------------
(* Gets                                                                       *)

\* What a get is at is a told file, the directory or nothing.
LEMMA GetItem ==
  ASSUME IInv, NEW w \in Worker, handler[w].pc \in ReadPlace
  PROVE  /\ GetOK(w) /\ handler[w] \in HandlerType /\ ~Putting(w) /\ ~Writing(w)
         /\ Item(w) \in told \cup {Directory, Unknown}
<1>1. GetOK(w) /\ handler[w] \in HandlerType /\ ~Putting(w) /\ ~Writing(w)
  BY DEF IInv, WorkerOK, Putting, Writing, ReadPlace, WritePlace
<1>2. Len(handler[w].ids) + 1 \in 1 .. Len(handler[w].items)
  BY <1>1 DEF GetOK
<1> QED
  BY <1>1, <1>2 DEF GetOK, Item

\* A get that goes on changes nothing but its own state.
LEMMA GetGoesOn ==
  ASSUME IInv, NEW w \in Worker, NEW h \in HandlerType, handler[w].pc \in ReadPlace,
         h.pc \in ReadPlace, handler' = [handler EXCEPT ![w] = h], GetOK(w)',
         UNCHANGED <<counters, disk, told, lost>>
  PROVE  IInv'
<1>1. handler'[w] = h
  BY DEF IInv
<1>2. Grows(w)
  BY DEF IInv, Grows, Used, counters
<1>3. CountersOK' /\ DiskOK'
  BY DEF IInv, CountersOK, DiskOK, Used, counters
<1>4. GetOK(w) /\ ~Putting(w)' /\ ~Writing(w)
  BY <1>1, GetItem DEF Putting, WritePlace, ReadPlace
<1>5. WorkerOK(w)'
  BY <1>1 DEF WorkerOK, WritePlace, ReadPlace
<1>6. \A f \in Range(handler[w].ids) \cup {handler[w].fid} : f \in told' \cup {Unknown}
  BY <1>4 DEF GetOK, Range
<1> QED
  BY <1>2, <1>3, <1>4, <1>5, <1>6, GoesOn

\* A get that opened its file is at a told file.
LEMMA openReadKeeps ==
  ASSUME IInv, NEW w \in Worker, openRead(w)
  PROVE  IInv'
<1> DEFINE place == IF Item(w) = Directory THEN "directory" ELSE "size"
           h == [handler[w] EXCEPT !.pc = place]
<1>1. /\ handler[w].pc = "open_read" /\ Opens(w)
      /\ handler' = [handler EXCEPT ![w].pc = place]
      /\ UNCHANGED <<counters, disk, reply, told, lost>>
  BY DEF openRead, At, Goto, histories
<1>2. /\ GetOK(w) /\ handler[w] \in HandlerType /\ Item(w) \in told \cup {Directory, Unknown}
      /\ handler[w].pc \in ReadPlace
  BY <1>1, GetItem DEF ReadPlace
<1>3. place = "size" => Item(w) \in told
  BY <1>1, <1>2, NamesAssumption DEF Opens, IInv, DiskOK
<1>4. /\ h \in HandlerType /\ h.pc = place /\ h.pc \in ReadPlace /\ h.op = handler[w].op
      /\ h.items = handler[w].items /\ h.ids = handler[w].ids /\ h.bodies = handler[w].bodies
      /\ h.fid = handler[w].fid
  BY <1>2 DEF HandlerType, ReadPlace
<1>5. handler' = [handler EXCEPT ![w] = h] /\ place \in {"directory", "size"}
  BY <1>1
<1> HIDE DEF h, place
<1>6. handler'[w] = h /\ Item(w)' = Item(w)
  BY <1>4, <1>5 DEF IInv, Item
<1>7. GetOK(w)'
  BY <1>1, <1>2, <1>3, <1>4, <1>5, <1>6 DEF GetOK
<1> QED
  BY <1>1, <1>2, <1>4, <1>5, <1>7, GetGoesOn

\* The size readFile saw is the size of the file for good: it was told.
LEMMA sizeKeeps ==
  ASSUME IInv, NEW w \in Worker, size(w)
  PROVE  IInv'
<1> DEFINE h == [handler[w] EXCEPT !.pc = "read", !.flen = disk[Item(w)].len]
<1>1. /\ handler[w].pc = "size" /\ handler' = [handler EXCEPT ![w] = h]
      /\ UNCHANGED <<counters, disk, reply, told, lost>>
  BY DEF size, At, histories
<1>2. /\ GetOK(w) /\ handler[w] \in HandlerType /\ handler[w].pc \in ReadPlace
  BY <1>1, GetItem DEF ReadPlace
<1>3. Item(w) \in told /\ disk[Item(w)].len \in Nat
  BY <1>1, <1>2 DEF GetOK, IInv, DiskOK, Content
<1>4. /\ h \in HandlerType /\ h.pc = "read" /\ h.pc \in ReadPlace /\ h.op = handler[w].op
      /\ h.items = handler[w].items /\ h.ids = handler[w].ids /\ h.bodies = handler[w].bodies
      /\ h.fid = handler[w].fid /\ h.flen = disk[Item(w)].len
  BY <1>2, <1>3 DEF HandlerType, ReadPlace
<1> HIDE DEF h
<1>5. handler'[w] = h /\ Item(w)' = Item(w)
  BY <1>1, <1>4 DEF IInv, Item
<1>6. GetOK(w)'
  BY <1>1, <1>2, <1>3, <1>4, <1>5 DEF GetOK
<1> QED
  BY <1>1, <1>2, <1>4, <1>6, GetGoesOn

\* What a get lists is the file as it is.
LEMMA readLists ==
  ASSUME IInv, NEW w \in Worker, read(w)
  PROVE  LET h == Listed(w, Item(w), [disk[Item(w)] EXCEPT !.len = handler[w].flen])
             g == [h EXCEPT !.pc = "open_read"] IN
         /\ h.op = "get" /\ h.items = handler[w].items /\ h.fid = Unknown
         /\ h.ids \in Seq(told) /\ h.bodies \in Seq(Body \cup Content)
         /\ Len(h.ids) = Len(h.bodies) /\ Len(h.ids) = Len(handler[w].ids) + 1
         /\ \A i \in 1 .. Len(h.ids) : h.bodies[i] = disk[h.ids[i]]
         /\ g \in HandlerType /\ g.pc = "open_read" /\ g.op = h.op /\ g.items = h.items
         /\ g.fid = h.fid /\ g.ids = h.ids /\ g.bodies = h.bodies
<1> DEFINE f == Item(w)
           c == [disk[f] EXCEPT !.len = handler[w].flen]
           h == Listed(w, f, c)
           g == [h EXCEPT !.pc = "open_read"]
<1>1. /\ handler[w].pc = "read" /\ Continue(w, "open_read", h) /\ UNCHANGED <<disk, lost, counters>>
  BY DEF read, Read, At, Continue, Reply, histories
<1>2. /\ GetOK(w) /\ handler[w] \in HandlerType /\ handler[w].pc \in ReadPlace
      /\ ~Putting(w) /\ ~Writing(w)
  BY <1>1, GetItem DEF ReadPlace
<1>3. f \in told /\ f \in FileId /\ disk[f] \in Content /\ handler[w].flen = disk[f].len
  BY <1>1, <1>2 DEF GetOK, IInv, DiskOK
<1>4. c = disk[f]
  BY <1>3 DEF Content
<1>5. /\ h.ids = Append(handler[w].ids, f) /\ h.bodies = Append(handler[w].bodies, c)
      /\ h.op = "get" /\ h.items = handler[w].items /\ h.fid = Unknown
  BY <1>2 DEF Listed, HandlerType, GetOK
<1>6. /\ h.ids \in Seq(told) /\ h.bodies \in Seq(Body \cup Content)
      /\ Len(h.ids) = Len(h.bodies) /\ Len(h.ids) = Len(handler[w].ids) + 1
      /\ Len(handler[w].ids) \in Nat
      /\ \A i \in 1 .. Len(handler[w].ids) : /\ h.ids[i] = handler[w].ids[i]
                                             /\ h.bodies[i] = handler[w].bodies[i]
      /\ h.ids[Len(handler[w].ids) + 1] = f /\ h.bodies[Len(handler[w].ids) + 1] = c
  <2>1. /\ handler[w].ids \in Seq(told) /\ handler[w].bodies \in Seq(Body \cup Content)
        /\ Len(handler[w].ids) = Len(handler[w].bodies) /\ c \in Body \cup Content
    BY <1>2, <1>3, <1>4 DEF GetOK, HandlerType
  <2>2. Len(handler[w].ids) \in Nat
    BY <2>1
  <2> HIDE DEF h, f, c
  <2>3. /\ h.ids \in Seq(told) /\ Len(h.ids) = Len(handler[w].ids) + 1
        /\ \A i \in 1 .. Len(handler[w].ids) : h.ids[i] = handler[w].ids[i]
        /\ h.ids[Len(handler[w].ids) + 1] = f
    BY <1>3, <1>5, <2>1, RangeAppend
  <2>4. /\ h.bodies \in Seq(Body \cup Content) /\ Len(h.bodies) = Len(handler[w].bodies) + 1
        /\ \A i \in 1 .. Len(handler[w].bodies) : h.bodies[i] = handler[w].bodies[i]
        /\ h.bodies[Len(handler[w].bodies) + 1] = c
    BY <1>5, <2>1, RangeAppend
  <2> QED
    BY <2>1, <2>2, <2>3, <2>4
<1>7. g \in HandlerType /\ g.pc = "open_read" /\ g.op = h.op /\ g.items = h.items /\ g.fid = h.fid
      /\ g.ids = h.ids /\ g.bodies = h.bodies
  <2>1. told \subseteq Name
    BY DEF IInv, DiskOK, Name
  <2>2. h.ids \in Seq(Name)
    BY <1>6, <2>1
  <2>3. h \in HandlerType
    BY <1>2, <1>5, <1>6, <2>2 DEF Listed, HandlerType
  <2> HIDE DEF h
  <2> QED
    BY <2>3 DEF HandlerType, ReadPlace
<1> HIDE DEF f, c, h, g
<1>8. \A i \in 1 .. Len(h.ids) : h.bodies[i] = disk[h.ids[i]]
  <2>1. \A i \in 1 .. Len(h.ids) : i \in 1 .. Len(handler[w].ids) \/ i = Len(handler[w].ids) + 1
    BY <1>6
  <2>2. \A i \in 1 .. Len(handler[w].ids) : h.bodies[i] = disk[h.ids[i]]
    BY <1>2, <1>6 DEF GetOK
  <2> QED
    BY <1>4, <1>6, <2>1, <2>2
<1> QED
  BY <1>5, <1>6, <1>7, <1>8 DEF f, c, h, g

\* The handler goes on with the next file or answers.
LEMMA readKeeps ==
  ASSUME IInv, NEW w \in Worker, read(w)
  PROVE  IInv'
<1> DEFINE h == Listed(w, Item(w), [disk[Item(w)] EXCEPT !.len = handler[w].flen])
           g == [h EXCEPT !.pc = "open_read"]
<1>1. /\ handler[w].pc = "read" /\ Continue(w, "open_read", h) /\ UNCHANGED <<disk, lost, counters>>
  BY DEF read, Read, At, Continue, Reply, histories
<1>2. /\ GetOK(w) /\ handler[w] \in HandlerType /\ handler[w].pc \in ReadPlace
      /\ ~Putting(w) /\ ~Writing(w)
  BY <1>1, GetItem DEF ReadPlace
<1>3. /\ h.op = "get" /\ h.items = handler[w].items /\ h.fid = Unknown
      /\ h.ids \in Seq(told) /\ h.bodies \in Seq(Body \cup Content)
      /\ Len(h.ids) = Len(h.bodies) /\ Len(h.ids) = Len(handler[w].ids) + 1
      /\ \A i \in 1 .. Len(h.ids) : h.bodies[i] = disk[h.ids[i]]
      /\ g \in HandlerType /\ g.pc = "open_read" /\ g.op = h.op /\ g.items = h.items
      /\ g.fid = h.fid /\ g.ids = h.ids /\ g.bodies = h.bodies
  BY readLists
<1> HIDE DEF h, g
<1>4. CASE Reply(w, TRUE, h)
  <2>1. /\ handler' = [handler EXCEPT ![w] = Idle] /\ told' = told
    BY <1>3, <1>4 DEF Reply
  <2>2. Idle \in HandlerType
    BY DEF Idle, HandlerType, WritePlace
  <2>3. Grows(w)
    BY <1>1, <1>2, <2>1, <2>2 DEF Grows, IInv, Used, counters
  <2>4. DiskOK'
    BY <1>1 DEF IInv, DiskOK, Used, counters
  <2>5. h.op = handler[w].op /\ h.op # "put"
    BY <1>2, <1>3 DEF GetOK
  <2> QED
    BY <1>2, <1>4, <2>3, <2>4, <2>5, Answered
<1>5. CASE Len(h.ids) # Len(h.items) /\ handler' = [handler EXCEPT ![w] = g] /\ UNCHANGED histories
  <2>1. handler'[w] = g
    BY <1>5 DEF IInv
  <2>2. Len(g.ids) < Len(g.items) /\ g.items \in Seq(told \cup {Directory, Unknown})
    BY <1>2, <1>3, <1>5 DEF GetOK
  <2>3. GetOK(w)'
    <3>1. told' = told /\ disk' = disk
      BY <1>1, <1>5 DEF histories
    <3> QED
      BY <1>3, <2>1, <2>2, <3>1 DEF GetOK
  <2> QED
    BY <1>1, <1>2, <1>3, <1>5, <2>3, GetGoesOn DEF histories, ReadPlace
<1> QED
  BY <1>1, <1>4, <1>5 DEF Continue, g

--------------------------------------------------------------------------------
(* Crashes                                                                    *)

\* Whatever handlers held when the process dies is lost, the disk stays.
LEMMA DieKeeps ==
  ASSUME IInv, Die
  PROVE  IInv'
<1>1. /\ round < MaxRound /\ round' = round + 1 /\ idx' = 0
      /\ handler' = [w \in Worker |-> Idle] /\ UNCHANGED <<disk, told>>
      /\ lost' = lost \cup UNION {Range(handler[w].ids) \cup {handler[w].fid} :
                                    w \in {v \in Worker : handler[v].op = "put"}}
  BY DEF Die
<1>2. CountersOK'
  BY <1>1, IndexAssumption DEF IInv, CountersOK
<1>3. \A f \in FileId : Used(f) => Used(f)'
  BY <1>1, IndexAssumption DEF IInv, CountersOK, Used, FileId
<1>4. DiskOK'
  <2>1. \A f \in DOMAIN disk : Used(f) => Used(f)'
    BY <1>3 DEF IInv, DiskOK
  <2> QED
    BY <1>1, <2>1 DEF IInv, DiskOK
<1>5. Idle \in HandlerType
  BY DEF Idle, HandlerType, WritePlace
<1>6. handler' \in [Worker -> HandlerType] /\ \A w \in Worker : handler'[w] = Idle
  BY <1>1, <1>5
<1>7. \A w \in Worker : WorkerOK(w)' /\ ~Putting(w)'
  BY <1>6 DEF WorkerOK, Putting, Idle, WritePlace, ReadPlace
<1>8. Separate'
  BY <1>7 DEF Separate
<1>9. told' \subseteq DOMAIN disk' /\ \A f \in told' : Whole(disk'[f])
  BY <1>1 DEF IInv
<1>10. OnlyBrokenAreForgotten'
  <2> SUFFICES ASSUME NEW f \in DOMAIN disk' \ (told' \cup lost')
               PROVE  disk'[f].len < Size[disk'[f].body]
    BY DEF OnlyBrokenAreForgotten
  <2>1. f \in DOMAIN disk \ (told \cup lost) /\ f \in FileId /\ disk'[f] = disk[f]
    BY <1>1 DEF IInv, DiskOK
  <2>2. ASSUME NEW w \in Worker PROVE f \notin Range(handler[w].ids) \cup {handler[w].fid}
    <3>1. CASE handler[w].pc \in WritePlace
      <4>1. handler[w].op = "put"
        BY <3>1 DEF IInv, WorkerOK, PutListed
      <4> QED
        BY <1>1, <4>1
    <3>2. CASE handler[w].pc \in ReadPlace
      BY <2>1, <3>2, NamesAssumption DEF IInv, WorkerOK, GetOK, Range
    <3>3. CASE handler[w].pc = "idle"
      BY <2>1, <3>3, NamesAssumption DEF IInv, WorkerOK, Idle, Range
    <3> QED
      BY <3>1, <3>2, <3>3 DEF IInv, HandlerType
  <2> QED
    BY <2>1, <2>2 DEF IInv, OnlyBrokenAreForgotten
<1> QED
  BY <1>2, <1>4, <1>6, <1>7, <1>8, <1>9, <1>10 DEF IInv

--------------------------------------------------------------------------------
(* The invariant is inductive                                                 *)

\* Every step of a handler keeps the invariant.
LEMMA HandlerKeeps ==
  ASSUME IInv, NEW w \in Worker, Handler(w)
  PROVE  IInv'
<1>1. CASE openWriteFailed(w)
  BY <1>1, AnsweredAsIs DEF openWriteFailed, At, failed
<1>2. CASE openReadFailed(w)
  BY <1>2, AnsweredAsIs DEF openReadFailed, At, failed, Writing, WritePlace
<1>3. CASE readFailed(w)
  BY <1>3, AnsweredAsIs DEF readFailed, At, failed, Writing, WritePlace
<1>4. CASE readDirectory(w)
  BY <1>4, AnsweredAsIs DEF readDirectory, At, failed, Writing, WritePlace
<1>5. CASE resizeThrows(w)
  BY <1>5, DieKeeps DEF resizeThrows
<1> QED
  BY <1>1, <1>2, <1>3, <1>4, <1>5, uuidKeeps, openWriteKeeps, writeKeeps, writeFailedKeeps,
     closeKeeps, openReadKeeps, sizeKeeps, readKeeps DEF Handler

\* An empty disk and idle workers.
LEMMA InitIInv == Init => IInv
<1> SUFFICES ASSUME Init PROVE IInv
  OBVIOUS
<1>1. DOMAIN disk = {} /\ told = {} /\ \A w \in Worker : handler[w] = Idle
  BY DEF Init
<1>2. CountersOK /\ DiskOK
  BY <1>1, IndexAssumption DEF Init, CountersOK, DiskOK
<1>3. handler \in [Worker -> HandlerType]
  BY DEF Init, Idle, HandlerType, WritePlace
<1>4. \A w \in Worker : WorkerOK(w) /\ ~Putting(w)
  BY <1>1 DEF WorkerOK, Putting, Idle, WritePlace, ReadPlace
<1> QED
  BY <1>1, <1>2, <1>3, <1>4 DEF IInv, Separate, OnlyBrokenAreForgotten

\* The invariant is inductive.
LEMMA NextIInv == IInv /\ [Next]_vars => IInv'
<1> SUFFICES ASSUME IInv, [Next]_vars PROVE IInv'
  OBVIOUS
<1>1. CASE UNCHANGED vars
  <2>1. UNCHANGED <<round, idx, disk, handler, told, lost>>
    BY <1>1 DEF vars
  <2>2. CountersOK' /\ DiskOK' /\ OnlyBrokenAreForgotten' /\ handler' \in [Worker -> HandlerType]
    BY <2>1 DEF IInv, CountersOK, DiskOK, Used, OnlyBrokenAreForgotten
  <2>3. ASSUME NEW w \in Worker
        PROVE  WorkerOK(w)' /\ Mine(w)' = Mine(w) /\ Putting(w)' = Putting(w)
    <3>1. WorkerOK(w)
      BY DEF IInv
    <3>2. PutListed(w)' = PutListed(w) /\ GetOK(w)' = GetOK(w)
      BY <2>1 DEF PutListed, GetOK, Item
    <3>3. PutOwns(w)' = PutOwns(w)
      BY <2>1 DEF PutOwns, Item, Through, Mine, Used
    <3> QED
      BY <2>1, <3>1, <3>2, <3>3 DEF WorkerOK, Mine, Putting
  <2> QED
    BY <2>1, <2>2, <2>3 DEF IInv, Separate
<1>2. CASE crash
  BY <1>2, DieKeeps DEF crash
<1> QED
  BY <1>1, <1>2, RequestKeeps, HandlerKeeps DEF Next

\* It holds in every state of the server.
LEMMA Invariance == Spec => []IInv
  BY InitIInv, NextIInv, PTL DEF Spec

--------------------------------------------------------------------------------
(* Theorems                                                                   *)

\* Types: ids come from the counter, no file is longer than its body and every
\* response pairs ids with contents.
THEOREM TypeCorrect == Spec => []TypeOK
<1>1. IInv => TypeOK
  <2> SUFFICES ASSUME IInv PROVE TypeOK
    OBVIOUS
  <2>1. \A f \in DOMAIN disk : disk[f].body \in Body /\ disk[f].len \in 0 .. Size[disk[f].body]
    BY SizeAssumption DEF IInv, DiskOK, Content
  <2>2. ASSUME NEW w \in Worker
        PROVE  handler[w].fid \in FileId \cup {Unknown} /\ Len(handler[w].ids) = Len(handler[w].bodies)
    <3>1. handler[w] \in HandlerType /\ WorkerOK(w)
      BY DEF IInv
    <3>2. handler[w].pc = "idle" => handler[w].ids = handler[w].bodies
      BY <3>1 DEF WorkerOK, Idle
    <3> QED
      BY <3>1, <3>2 DEF HandlerType, WorkerOK, PutListed, GetOK
  <2> QED
    BY <2>1, <2>2 DEF IInv, CountersOK, DiskOK, TypeOK
<1> QED
  BY <1>1, Invariance, PTL

\* utils.hpp:65: what a reply listed is stored in full and stays so, through other
\* puts, failed disk calls and crashes, but for what the buffer may keep.
THEOREM ToldFilesAreWhole == Spec => []ToldIsWhole
<1>1. IInv => ToldIsWhole
  BY DEF IInv, ToldIsWhole, Whole
<1> QED
  BY <1>1, Invariance, PTL

\* The counter of uuid keeps the files of concurrent puts apart, through its wraps
\* and restarts, as long as random bits of two rounds differ.
THEOREM OneWriter == Spec => []OneWriterPerFile
<1>1. IInv => OneWriterPerFile
  <2> SUFFICES ASSUME IInv, NEW v \in Worker, NEW w \in Worker, handler[v].fid # Unknown
               PROVE  /\ handler[v].fid \notin told
                      /\ v # w => handler[v].fid # handler[w].fid
    BY DEF OneWriterPerFile
  <2>1. \A x \in Worker : handler[x].fid # Unknown => Putting(x) /\ handler[x].fid \in Mine(x)
    BY DEF IInv, HandlerType, WorkerOK, GetOK, Idle, Putting, Mine
  <2>2. PutOwns(v)
    BY <2>1 DEF IInv, WorkerOK, Putting
  <2> QED
    BY <2>1, <2>2 DEF PutOwns, IInv, Separate
<1> QED
  BY <1>1, Invariance, PTL

\* A failed put of several files leaves no whole file behind that nobody was told
\* of, short of a crash.
THEOREM ForgottenAreBroken == Spec => []OnlyBrokenAreForgotten
<1>1. IInv => OnlyBrokenAreForgotten
  BY DEF IInv
<1> QED
  BY <1>1, Invariance, PTL

--------------------------------------------------------------------------------
(* The server implements the store                                            *)

\* A put's answer adds what it lists to the store.
LEMMA PutStep ==
  ASSUME IInv, NEW w \in Worker, NEW ok \in BOOLEAN, NEW h, Reply(w, ok, h), h.op = "put",
         h.ids \in Seq(FileId), h.bodies \in Seq(Body),
         IsInjective(h.ids), told \cap Range(h.ids) = {},
         \A f \in told : disk'[f] = disk[f],
         \A i \in 1 .. Len(h.ids) : /\ disk'[h.ids[i]].body = h.bodies[i]
                                    /\ Whole(disk'[h.ids[i]])
  PROVE  Store!SNext
<1> DEFINE r == [op |-> h.op, ok |-> ok, ids |-> h.ids, bodies |-> h.bodies]
<1>1. reply' = r /\ told' = told \cup Range(h.ids)
  BY DEF Reply
<1>2. r # NoReply
  <2>1. r \in [op : {"put", "get"}, ok : BOOLEAN, ids : Seq(FileId),
               bodies : Seq(Body \cup [body : Body, len : Nat])]
    OBVIOUS
  <2> QED
    BY <2>1, ReplyAssumption
<1>3. r.op = "put" /\ r.ids = h.ids /\ r.bodies = h.bodies
  OBVIOUS
<1> HIDE DEF r
<1>4. \A i \in 1 .. Len(h.ids) : h.ids[i] \in told'
  BY <1>1 DEF Range
<1>5. Store!Put(reply')
  <2>1. DOMAIN h.ids = 1 .. Len(h.ids)
    OBVIOUS
  <2>2. Store!IsInjective(r.ids)
    BY <1>3 DEF Store!IsInjective, IsInjective
  <2>3. /\ told' = told \cup Store!Range(r.ids)
        /\ told \cap Store!Range(r.ids) = {}
    BY <1>1, <1>3 DEF Store!Range, Range
  <2>4. \A f \in told : f \in told' /\ disk'[f] = disk[f]
    BY <2>3
  <2>5. \A i \in DOMAIN r.ids : /\ r.ids[i] \in told' /\ Store!Reported(disk'[r.ids[i]])
                                /\ disk'[r.ids[i]].body = r.bodies[i]
    BY <1>3, <1>4, <2>1 DEF Store!Reported, Whole
  <2> QED
    BY <1>1, <1>3, <2>2, <2>3, <2>4, <2>5 DEF Store!Put
<1> QED
  BY <1>1, <1>2, <1>5 DEF Store!SNext

\* A get's answer is what the store holds.
LEMMA GetStep ==
  ASSUME IInv, NEW w \in Worker, NEW ok \in BOOLEAN, NEW h, Reply(w, ok, h), h.op = "get",
         h.ids \in Seq(told), h.bodies \in Seq(Body \cup Content), UNCHANGED disk,
         \A i \in 1 .. Len(h.ids) : h.bodies[i] = disk[h.ids[i]]
  PROVE  Store!SNext
<1> DEFINE r == [op |-> h.op, ok |-> ok, ids |-> h.ids, bodies |-> h.bodies]
<1>1. reply' = r /\ told' = told
  BY DEF Reply
<1>2. r # NoReply
  <2>1. told \subseteq FileId
    BY DEF IInv, DiskOK
  <2>2. h.ids \in Seq(FileId)
    BY <2>1
  <2>3. r \in [op : {"put", "get"}, ok : BOOLEAN, ids : Seq(FileId),
               bodies : Seq(Body \cup [body : Body, len : Nat])]
    BY <2>2 DEF Content
  <2> QED
    BY <2>3, ReplyAssumption
<1>3. r.op = "get" /\ r.ids = h.ids /\ r.bodies = h.bodies
  OBVIOUS
<1> HIDE DEF r
<1>4. \A i \in 1 .. Len(h.ids) : h.ids[i] \in told
  OBVIOUS
<1>5. Store!Get(r)
  BY <1>1, <1>3, <1>4 DEF Store!Get
<1> QED
  BY <1>1, <1>2, <1>5 DEF Store!SNext

\* A step without an answer that leaves told files alone is none of the store's.
LEMMA SilentStep ==
  ASSUME UNCHANGED <<reply, told>>, \A f \in told : disk'[f] = disk[f]
  PROVE  UNCHANGED Store!sVars
BY DEF Store!sVars

\* A new request, and a crash.
LEMMA ForgetStep ==
  ASSUME UNCHANGED <<disk, told>>, reply' = NoReply
  PROVE  Store!SNext
BY DEF Store!SNext, Store!Forget

\* The answers of handlers that failed.
LEMMA failedStep ==
  ASSUME IInv, NEW w \in Worker, failed(w), handler[w].pc \in WritePlace \cup ReadPlace,
         handler[w].pc \in ReadPlace => UNCHANGED disk,
         \A f \in DOMAIN disk : disk'[f] = disk[f] \/ (Writing(w) /\ f = handler[w].fid)
  PROVE  Store!SNext
<1>1. CASE handler[w].pc \in WritePlace
  <2>1. PutListed(w) /\ PutOwns(w)
    BY <1>1, PutItem
  <2>2. \A i \in 1 .. Len(handler[w].ids) : /\ handler[w].ids[i] \in DOMAIN disk \cap Mine(w)
                                            /\ ~(Writing(w) /\ handler[w].ids[i] = handler[w].fid)
    BY <2>1 DEF PutListed, PutOwns, Writing, Mine, Range
  <2>3. \A f \in told : disk'[f] = disk[f]
    <3>1. Writing(w) => handler[w].fid \notin told
      BY <2>1, NamesAssumption DEF PutOwns, Writing, Mine
    <3> QED
      BY <3>1 DEF IInv
  <2>4. told \cap Range(handler[w].ids) = {}
    BY <2>1 DEF PutOwns, Mine
  <2>5. \A i \in 1 .. Len(handler[w].ids) : /\ disk'[handler[w].ids[i]].body = handler[w].bodies[i]
                                            /\ Whole(disk'[handler[w].ids[i]])
    BY <2>1, <2>2 DEF PutListed
  <2> QED
    BY <2>1, <2>3, <2>4, <2>5, PutStep DEF failed, PutListed
<1>2. CASE handler[w].pc \in ReadPlace
  <2>1. GetOK(w) /\ handler[w] \in HandlerType
    BY <1>2, GetItem
  <2> QED
    BY <1>2, <2>1, GetStep DEF failed, GetOK, HandlerType
<1> QED
  BY <1>1, <1>2

\* The last close of a put is the store's put, every other one invisible.
LEMMA closeStep ==
  ASSUME IInv, NEW w \in Worker, close(w)
  PROVE  [Store!SNext]_(Store!sVars)
<1> DEFINE f == handler[w].fid
           h == Listed(w, f, Item(w))
<1>1. /\ handler[w].pc = "close" /\ Continue(w, "id", h)
  BY DEF close, At
<1>2. f \notin told /\ PutOwns(w)
  BY <1>1, AtFile
<1>3. /\ \A x \in DOMAIN disk \ {f} : disk'[x] = disk[x]
      /\ h.op = "put" /\ h.ids \in Seq(FileId) /\ h.bodies \in Seq(Body)
      /\ IsInjective(h.ids) /\ Range(h.ids) = Range(handler[w].ids) \cup {f}
      /\ \A i \in 1 .. Len(h.ids) : /\ disk'[h.ids[i]].body = h.bodies[i]
                                     /\ Whole(disk'[h.ids[i]])
  BY closeLists
<1> HIDE DEF f, h
<1>4. \A x \in told : disk'[x] = disk[x]
  BY <1>2, <1>3 DEF IInv
<1>5. told \cap Range(h.ids) = {}
  BY <1>2, <1>3 DEF PutOwns, Mine
<1>6. CASE Reply(w, TRUE, h)
  BY <1>3, <1>4, <1>5, <1>6, PutStep
<1>7. CASE UNCHANGED histories
  BY <1>4, <1>7, SilentStep DEF histories
<1> QED
  BY <1>1, <1>6, <1>7 DEF Continue

\* The last read of a get is the store's get, every other one invisible.
LEMMA readStep ==
  ASSUME IInv, NEW w \in Worker, read(w)
  PROVE  [Store!SNext]_(Store!sVars)
<1> DEFINE h == Listed(w, Item(w), [disk[Item(w)] EXCEPT !.len = handler[w].flen])
<1>1. Continue(w, "open_read", h) /\ UNCHANGED disk
  BY DEF read, Read
<1>2. /\ h.op = "get" /\ h.ids \in Seq(told) /\ h.bodies \in Seq(Body \cup Content)
      /\ \A i \in 1 .. Len(h.ids) : h.bodies[i] = disk[h.ids[i]]
  BY readLists
<1> HIDE DEF h
<1>3. CASE Reply(w, TRUE, h)
  BY <1>1, <1>2, <1>3, GetStep
<1>4. CASE UNCHANGED histories
  BY <1>1, <1>4, SilentStep DEF histories
<1> QED
  BY <1>1, <1>3, <1>4 DEF Continue

\* What each step of a handler is to the store.
LEMMA HandlerStep ==
  ASSUME IInv, NEW w \in Worker, Handler(w)
  PROVE  [Store!SNext]_(Store!sVars)
<1>1. CASE uuid(w) \/ openRead(w) \/ size(w)
  BY <1>1, SilentStep DEF uuid, TakeId, openRead, size, histories
<1>2. CASE openWrite(w)
  <2>1. handler[w].pc = "open_write" /\ disk' = With(disk, handler[w].fid, [body |-> Item(w), len |-> 0])
        /\ UNCHANGED histories
    BY <1>2 DEF openWrite, At
  <2>2. handler[w].fid \notin told
    BY <2>1, PutItem DEF PutOwns, WritePlace, IInv
  <2>3. \A f \in told : disk'[f] = disk[f]
    BY <2>1, <2>2 DEF With, IInv
  <2> QED
    BY <2>1, <2>3, SilentStep DEF histories
<1>3. CASE write(w)
  <2>1. handler[w].pc = "write" /\ UNCHANGED histories
        /\ (UNCHANGED disk \/ \E n : disk' = [disk EXCEPT ![handler[w].fid].len = n])
    BY <1>3 DEF write, At, Cut
  <2>2. handler[w].fid \notin told
    BY <2>1, AtFile
  <2>3. \A f \in told : disk'[f] = disk[f]
    BY <2>1, <2>2 DEF IInv
  <2> QED
    BY <2>1, <2>3, SilentStep DEF histories
<1>4. CASE writeFailed(w)
  <2>1. handler[w].pc = "write" /\ failed(w)
        /\ \E n : disk' = [disk EXCEPT ![handler[w].fid].len = n]
    BY <1>4 DEF writeFailed, At, Cut
  <2>2. \A f \in DOMAIN disk : disk'[f] = disk[f] \/ (Writing(w) /\ f = handler[w].fid)
    BY <2>1, AtFile
  <2> QED
    BY <2>1, <2>2, failedStep DEF WritePlace, ReadPlace
<1>5. CASE openWriteFailed(w) \/ openReadFailed(w) \/ readFailed(w) \/ readDirectory(w)
  <2>1. failed(w) /\ UNCHANGED disk /\ handler[w].pc \in WritePlace \cup ReadPlace
    BY <1>5 DEF openWriteFailed, openReadFailed, readFailed, readDirectory, At, WritePlace, ReadPlace
  <2> QED
    BY <2>1, failedStep
<1>6. CASE resizeThrows(w)
  BY <1>6, ForgetStep DEF resizeThrows, Die
<1> QED
  BY <1>1, <1>2, <1>3, <1>4, <1>5, <1>6, closeStep, readStep DEF Handler

\* To its clients the server is a store of contents under ids that never change,
\* whatever the disk refuses and whenever the process dies.
THEOREM StoreImplemented == Spec => ImplementsFileStore
<1>1. Init => Store!SInit
  BY DEF Init, Store!SInit
<1>2. IInv /\ [Next]_vars => [Store!SNext]_(Store!sVars)
  <2> SUFFICES ASSUME IInv, [Next]_vars PROVE [Store!SNext]_(Store!sVars)
    OBVIOUS
  <2>1. CASE UNCHANGED vars
    BY <2>1, SilentStep DEF vars
  <2>2. CASE crash
    BY <2>2, ForgetStep DEF crash, Die
  <2>3. ASSUME NEW w \in Worker, Request(w) PROVE Store!SNext
    BY <2>3, ForgetStep DEF Request, Accept, PutSingleFile, PutMultiFile, GetSingleFile, GetMultiFile
  <2> QED
    BY <2>1, <2>2, <2>3, HandlerStep DEF Next
<1> QED
  BY <1>1, <1>2, Invariance, PTL DEF Spec, ImplementsFileStore, Store!SSpec

================================================================================
