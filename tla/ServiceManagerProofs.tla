-------------------------- MODULE ServiceManagerProofs -------------------------
(******************************************************************************)
(* What the two levels of locks of the ServiceManager keep true, for every    *)
(* number of threads, services and hosts, and that they make every append,    *)
(* remove and choose one atomic step of a ServiceChannel.                     *)
(******************************************************************************)
EXTENDS ManagedService, ChannelPoolProofs, TLAPS

--------------------------------------------------------------------------------
(* Halves of append and remove                                                *)

\* The first half of append adds a map entry for a new host, and can be undone.
LEMMA InsertHostHalf ==
  ASSUME NEW p, PoolInv(p), NEW c \in Channel, c.id \notin LiveIds(p)
  PROVE  /\ IsPool(InsertHost(p, c))
         /\ InsertHost(p, c).channels = p.channels
         /\ InsertHost(p, c).index = p.index
         /\ c.host \in DOMAIN InsertHost(p, c).hosts
         /\ IF InsertHost(p, c).hosts[c.host] = c
            THEN EraseHost(InsertHost(p, c), c.host) = p
            ELSE InsertHost(p, c) = p
<1> DEFINE q == InsertHost(p, c)
           H == [h \in DOMAIN p.hosts \cup {c.host} |->
                   IF h = c.host THEN c ELSE p.hosts[h]]
<1>1. /\ p = [hosts |-> p.hosts, channels |-> p.channels, index |-> p.index]
      /\ DOMAIN p.hosts \subseteq Host
      /\ p.hosts \in [DOMAIN p.hosts -> Channel]
      /\ p.channels \in Seq(Channel)
      /\ p.index \in Index
  BY DEF PoolInv, IsPool
<1>2. c.host \in Host
  BY DEF Channel
<1>3. CASE c.host \in DOMAIN p.hosts
  <2>1. q = p
    BY <1>3 DEF InsertHost
  <2>2. p.hosts[c.host].id \in LiveIds(p)
    BY <1>3 DEF LiveIds
  <2>3. p.hosts[c.host] # c
    BY <2>2
  <2> HIDE DEF q
  <2> QED BY <1>3, <2>1, <2>3 DEF PoolInv, q
<1>4. CASE c.host \notin DOMAIN p.hosts
  <2>1. q = [hosts |-> H, channels |-> p.channels, index |-> p.index]
    BY <1>1, <1>4 DEF InsertHost
  <2>2. /\ q.hosts = H
        /\ q.channels = p.channels
        /\ q.index = p.index
    BY <2>1
  <2>3. /\ DOMAIN H = DOMAIN p.hosts \cup {c.host}
        /\ H \in [DOMAIN H -> Channel]
        /\ H[c.host] = c
    BY <1>1
  <2>4. p.hosts = [g \in DOMAIN H \ {c.host} |-> H[g]]
    BY <1>1, <1>4
  <2> HIDE DEF q, H
  <2>5. IsPool(q)
    BY <1>1, <1>2, <2>1, <2>2, <2>3 DEF IsPool
  <2>6. EraseHost(q, c.host) = p
    BY <1>1, <2>1, <2>2, <2>4 DEF EraseHost
  <2> QED BY <2>2, <2>3, <2>5, <2>6 DEF q
<1> QED BY <1>3, <1>4

\* The first half of remove leaves the map alone.
LEMMA EraseChannelHalf ==
  ASSUME NEW p, PoolInv(p), NEW h \in DOMAIN p.hosts
  PROVE  /\ IsPool(EraseChannel(p, h))
         /\ EraseChannel(p, h).hosts = p.hosts
         /\ EraseHost(EraseChannel(p, h), h) = Removed(p, h)
<1>1. /\ p = [hosts |-> p.hosts, channels |-> p.channels, index |-> p.index]
      /\ DOMAIN p.hosts \subseteq Host
      /\ p.hosts \in [DOMAIN p.hosts -> Channel]
      /\ p.channels \in Seq(Channel)
      /\ p.index \in Index
  BY DEF PoolInv, IsPool
<1>2. PICK i \in DOMAIN p.channels : p.channels[i] = p.hosts[h]
  BY DEF PoolInv, MapInRotation
<1>3. DOMAIN p.channels = 1 .. Len(p.channels)
  BY <1>1, LenProperties
<1>4. Position(p, p.hosts[h]) = i
  BY <1>2, <1>3, PositionFound DEF PoolInv
<1>5. RemoveAt(p.channels, i) \in Seq(Channel)
  BY <1>1, <1>3, RemoveAtElements
<1>6. EraseChannel(p, h) =
        [hosts |-> p.hosts, channels |-> RemoveAt(p.channels, i), index |-> p.index]
  BY <1>1, <1>2, <1>4 DEF EraseChannel
<1> QED BY <1>1, <1>5, <1>6 DEF IsPool, Removed

\* The pool a service starts with is one.
LEMMA EmptyIsPool ==
  /\ PoolInv(EmptyPool) /\ ChannelsKnown(EmptyPool, Reannounce)
  /\ EmptyPool.channels = <<>>
  /\ EmptyPool.index \in Index
  /\ DOMAIN EmptyPool.hosts = {}
<1>1. EmptyPool = [hosts |-> <<>>, channels |-> <<>>, index |-> 0]
  BY DEF EmptyPool
<1>2. /\ EmptyPool.hosts = <<>>
      /\ EmptyPool.channels = <<>>
      /\ EmptyPool.index = 0
  BY <1>1
<1>3. 0 \in Index
  BY RangeAssumption, SMT DEF Index
<1>4. /\ DOMAIN <<>> = {}
      /\ \A S : <<>> \in Seq(S)
      /\ \A S : <<>> \in [{} -> S]
  BY SMT
<1> HIDE DEF EmptyPool
<1> QED BY <1>1, <1>2, <1>3, <1>4 DEF PoolInv, IsPool, MapInRotation, IsInjective,
                                        ChannelsKnown

--------------------------------------------------------------------------------
(* The inductive invariant                                                    *)

Place == {"build", "idle", "init", "insert", "push", "erase", "forget", "choose", "read"}

\* Half of append or of remove is done: the map has an entry that does not count.
Hidden(s) ==
  /\ arg.svc = s
  /\ \/ pc[Updater] = "forget"
     \/ pc[Updater] = "push" /\ services[s].hosts[arg.host] = arg.chan

\* The pool of s without that entry.
Shown(s) == IF Hidden(s) THEN EraseHost(services[s], arg.host) ELSE services[s]

Types ==
  /\ follow \subseteq Declared
  /\ DOMAIN services \subseteq follow
  /\ mlock \in Worker \cup {Free}
  /\ plock \in [Service -> Thread \cup {Free}]
  /\ pc \in [Thread -> Place]
  /\ \A w \in Worker : pc[w] \in {"idle", "choose", "read"}
  /\ pc[Updater] \notin {"choose", "read"}
  /\ call \in [Worker -> [svc : Service \cup {Free}, old : Index]]
  /\ picked \in [Service -> Channel \cup {NoChannel}]

\* A worker inside choose holds the manager's lock, and the pool's from the
\* increment of the counter to the return.
WorkerOK(w) ==
  /\ pc[w] # "idle" => mlock = w /\ call[w].svc \in DOMAIN services
  /\ pc[w] = "read" =>
       /\ plock[call[w].svc] = w
       /\ services[call[w].svc].channels # <<>>
       /\ services[call[w].svc].index = Bump(call[w].old)

\* The callback between the halves of append or remove holds the pool's lock, and
\* the channel it inserts is nobody else's.
UpdaterOK ==
  /\ pc[Updater] \notin {"build", "idle"} =>
       arg.svc \in DOMAIN services /\ arg.host \in Host
  /\ pc[Updater] \in {"init", "insert", "push", "erase", "forget"} =>
       arg = [svc |-> arg.svc, host |-> arg.host, chan |-> arg.chan]
  /\ pc[Updater] \in {"insert", "push"} =>
       arg.chan \in Channel /\ arg.chan.host = arg.host
  /\ pc[Updater] \in {"init", "insert", "push"} =>
       arg.host \in Reannounce \/ arg.host \notin DOMAIN Shown(arg.svc).hosts
  /\ pc[Updater] = "insert" =>
       \A s \in DOMAIN services : arg.chan.id \notin LiveIds(services[s])
  /\ pc[Updater] = "push" =>
       /\ plock[arg.svc] = Updater
       /\ services[arg.svc] = InsertHost(Shown(arg.svc), arg.chan)
       /\ arg.chan.id \notin LiveIds(Shown(arg.svc))
  /\ pc[Updater] = "forget" =>
       /\ plock[arg.svc] = Updater
       /\ arg.host \in DOMAIN services[arg.svc].hosts

\* Map and vector agree, but for the second channels of hosts announced again.
Agrees(p) == PoolInv(p) /\ ChannelsKnown(p, Reannounce)

PoolsOK ==
  \A s \in DOMAIN services : IsPool(services[s]) /\ Agrees(Shown(s))

IInv ==
  /\ Types
  /\ \A w \in Worker : WorkerOK(w)
  /\ UpdaterOK
  /\ PoolsOK

\* A pool whose lock is free is shown as it is.
LEMMA FreeIsShown ==
  ASSUME IInv, NEW s \in Service, plock[s] # Updater
  PROVE  ~Hidden(s) /\ Shown(s) = services[s]
BY DEF IInv, UpdaterOK, Hidden, Shown

--------------------------------------------------------------------------------
(* Every step keeps the invariant                                             *)

\* No service has a pool and nobody is inside.
LEMMA InitIInv == Init => IInv
<1> SUFFICES ASSUME Init
             PROVE  IInv
  OBVIOUS
<1>1. DOMAIN services = {}
  BY SMT DEF Init
<1>2. NoCall \in [svc : Service \cup {Free}, old : Index]
  BY EmptyIsPool DEF NoCall, EmptyPool
<1>3. Updater \in Thread /\ \A w \in Worker : w \in Thread /\ w # Updater
  BY ThreadAssumption DEF Thread
<1>4. Types
  BY <1>1, <1>2, <1>3 DEF Init, Types, Place
<1>5. \A w \in Worker : WorkerOK(w)
  BY <1>3 DEF Init, WorkerOK
<1>6. UpdaterOK
  BY <1>3 DEF Init, UpdaterOK
<1>7. PoolsOK
  BY <1>1 DEF PoolsOK
<1> QED BY <1>4, <1>5, <1>6, <1>7 DEF IInv

\* A step that touches no pool, and where the callback is between two halves
\* neither before nor after it, shows the same pools.
LEMMA QuietShown ==
  ASSUME IInv,
         \A s \in DOMAIN services' :
           \/ s \in DOMAIN services /\ services'[s] = services[s]
           \/ s \notin DOMAIN services /\ services'[s] = EmptyPool,
         \/ pc'[Updater] \notin {"push", "forget"} /\ pc[Updater] \notin {"push", "forget"}
         \/ pc'[Updater] = pc[Updater] /\ arg' = arg,
         NEW s \in DOMAIN services'
  PROVE  Shown(s)' = IF s \in DOMAIN services THEN Shown(s) ELSE EmptyPool
<1>1. CASE s \in DOMAIN services
  <2>1. services'[s] = services[s]
    BY <1>1
  <2>2. Hidden(s)' <=> Hidden(s)
    BY <2>1 DEF Hidden
  <2> QED BY <1>1, <2>1, <2>2 DEF Shown, Hidden
<1>2. CASE s \notin DOMAIN services
  <2>1. services'[s] = EmptyPool
    BY <1>2
  <2>2. ~Hidden(s)'
    BY <1>2 DEF Hidden, IInv, UpdaterOK
  <2> QED BY <1>2, <2>1, <2>2 DEF Shown
<1> QED BY <1>1, <1>2

\* A step that touches no pool and takes no lock keeps every pool as it is.
LEMMA QuietPools ==
  ASSUME IInv,
         \A s \in DOMAIN services' :
           \/ s \in DOMAIN services /\ services'[s] = services[s]
           \/ s \notin DOMAIN services /\ services'[s] = EmptyPool,
         \/ pc'[Updater] \notin {"push", "forget"} /\ pc[Updater] \notin {"push", "forget"}
         \/ pc'[Updater] = pc[Updater] /\ arg' = arg
  PROVE  PoolsOK'
<1>1. ASSUME NEW s \in DOMAIN services'
      PROVE  IsPool(services'[s]) /\ Agrees(Shown(s)')
  <2>1. Shown(s)' = IF s \in DOMAIN services THEN Shown(s) ELSE EmptyPool
    BY QuietShown
  <2> QED BY <2>1, EmptyIsPool DEF IInv, PoolsOK, Agrees, PoolInv
<1> QED BY <1>1 DEF PoolsOK

\* declared: the name is followed, no pool changes.
LEMMA declaredStep ==
  ASSUME IInv, NEW s \in Service, declared(s)
  PROVE  IInv'
<1>1. PoolsOK'
  BY QuietPools DEF declared
<1>2. Types'
  BY DEF IInv, Types, declared
<1>3. \A w \in Worker : WorkerOK(w)'
  BY DEF IInv, WorkerOK, declared
<1>4. UpdaterOK'
  BY DEF IInv, UpdaterOK, declared, Shown, Hidden
<1> QED BY <1>1, <1>2, <1>3, <1>4 DEF IInv

\* Declarations end before callbacks begin.
LEMMA startDiscoveryStep ==
  ASSUME IInv, startDiscovery
  PROVE  IInv'
<1>0. /\ Updater \in Thread /\ \A w \in Worker : w \in Thread /\ w # Updater
      /\ pc \in [Thread -> Place]
  BY ThreadAssumption DEF Thread, IInv, Types
<1>1. PoolsOK'
  BY <1>0, QuietPools DEF startDiscovery, Goto, Types
<1>2. Types'
  BY <1>0 DEF IInv, Types, startDiscovery, Goto, Place
<1>3. \A w \in Worker : WorkerOK(w)'
  BY <1>0 DEF IInv, WorkerOK, startDiscovery, Goto
<1>4. UpdaterOK'
  BY <1>0 DEF IInv, UpdaterOK, startDiscovery, Goto
<1> QED BY <1>1, <1>2, <1>3, <1>4 DEF IInv

\* onServiceOnline up to its unlock: the pool of a followed service is there.
LEMMA onServiceOnlineStep ==
  ASSUME IInv, NEW s \in Service, NEW h \in Host, onServiceOnline(s, h)
  PROVE  IInv'
<1>0. /\ Updater \in Thread /\ \A w \in Worker : w \in Thread /\ w # Updater
      /\ pc \in [Thread -> Place]
  BY ThreadAssumption DEF Thread, IInv, Types
<1>1. /\ DOMAIN services' = DOMAIN services \cup {s}
      /\ \A t \in DOMAIN services : services'[t] = services[t]
      /\ s \notin DOMAIN services => services'[s] = EmptyPool
  BY DEF onServiceOnline, Managing
<1>2. /\ pc' = [pc EXCEPT ![Updater] = "init"]
      /\ pc[Updater] = "idle"
      /\ arg' = [svc |-> s, host |-> h, chan |-> NoChannel]
      /\ s \in follow
      /\ UNCHANGED <<follow, mlock, plock, call, picked>>
  BY DEF onServiceOnline, Goto
<1>3. PoolsOK'
  BY <1>0, <1>1, <1>2, QuietPools
<1>4. Types'
  BY <1>0, <1>1, <1>2 DEF IInv, Types, Place
<1>5. \A w \in Worker : WorkerOK(w)'
  BY <1>0, <1>1, <1>2 DEF IInv, WorkerOK
<1>h. h \in Reannounce \/ h \notin DOMAIN Shown(s)'.hosts
  <2>1. Shown(s)' = services'[s]
    BY <1>0, <1>2 DEF Shown, Hidden
  <2>2. CASE s \in DOMAIN services
    BY <2>1, <2>2, <1>1 DEF onServiceOnline, Announced
  <2>3. CASE s \notin DOMAIN services
    BY <2>1, <2>3, <1>1, EmptyIsPool
  <2> QED BY <2>2, <2>3
<1>6. UpdaterOK'
  BY <1>0, <1>1, <1>2, <1>h DEF IInv, UpdaterOK
<1> QED BY <1>3, <1>4, <1>5, <1>6 DEF IInv

\* onServiceOffline up to its unlock: the pool, if any, is the one to remove from.
LEMMA onServiceOfflineStep ==
  ASSUME IInv, NEW s \in Service, NEW h \in Host, onServiceOffline(s, h)
  PROVE  IInv'
<1>0. /\ Updater \in Thread /\ \A w \in Worker : w \in Thread /\ w # Updater
      /\ pc \in [Thread -> Place]
  BY ThreadAssumption DEF Thread, IInv, Types
<1>1. PoolsOK'
  BY <1>0, QuietPools DEF onServiceOffline, Goto
<1>2. Types'
  BY <1>0 DEF IInv, Types, onServiceOffline, Goto, Place
<1>3. \A w \in Worker : WorkerOK(w)'
  BY <1>0 DEF IInv, WorkerOK, onServiceOffline, Goto
<1>4. UpdaterOK'
  BY <1>0 DEF IInv, UpdaterOK, onServiceOffline, Goto
<1> QED BY <1>1, <1>2, <1>3, <1>4 DEF IInv

\* The new channel is at an address nobody holds.
LEMMA initChannelStep ==
  ASSUME IInv, initChannel
  PROVE  IInv'
<1>0. /\ Updater \in Thread /\ \A w \in Worker : w \in Thread /\ w # Updater
      /\ pc \in [Thread -> Place]
  BY ThreadAssumption DEF Thread, IInv, Types
<1>1. PICK id \in ChannelId \ UNION {LiveIds(services[s]) : s \in DOMAIN services} :
        arg' = [arg EXCEPT !.chan = [host |-> arg.host, id |-> id]]
  BY DEF initChannel
<1>2. /\ pc' = [pc EXCEPT ![Updater] = "insert"]
      /\ pc[Updater] = "init"
      /\ UNCHANGED <<follow, services, mlock, plock, call, picked>>
  BY DEF initChannel, Goto
<1>3. /\ arg' = [svc |-> arg.svc, host |-> arg.host,
                 chan |-> [host |-> arg.host, id |-> id]]
      /\ arg.svc \in DOMAIN services
      /\ arg.host \in Host
  BY <1>1, <1>2 DEF IInv, UpdaterOK
<1>4. /\ arg'.svc = arg.svc
      /\ arg'.host = arg.host
      /\ arg'.chan \in Channel
      /\ arg'.chan.host = arg.host
      /\ arg'.chan.id = id
      /\ arg' = [svc |-> arg'.svc, host |-> arg'.host, chan |-> arg'.chan]
  BY <1>3 DEF Channel
<1>5. PoolsOK'
  BY <1>0, <1>2, QuietPools
<1>6. Types'
  BY <1>0, <1>2 DEF IInv, Types, Place
<1>7. \A w \in Worker : WorkerOK(w)'
  BY <1>0, <1>2 DEF IInv, WorkerOK
<1>h. (arg.host \in Reannounce \/ arg.host \notin DOMAIN Shown(arg.svc).hosts)'
  <2>1. PICK s : s = arg.svc /\ s = arg'.svc /\ s \in DOMAIN services
    BY <1>3, <1>4
  <2>2. Shown(s)' = services[s] /\ Shown(s) = services[s]
    BY <1>0, <1>2 DEF Shown, Hidden
  <2>3. arg.host \in Reannounce \/ arg.host \notin DOMAIN Shown(s).hosts
    BY <1>2, <2>1 DEF IInv, UpdaterOK
  <2>4. Shown(arg.svc)' = Shown(s)'
    BY <2>1 DEF Shown, Hidden
  <2> QED BY <1>4, <2>1, <2>2, <2>3, <2>4
<1>8. UpdaterOK'
  BY <1>0, <1>2, <1>3, <1>4, <1>h DEF UpdaterOK
<1> QED BY <1>5, <1>6, <1>7, <1>8 DEF IInv

\* A channel whose Init fails is dropped.
LEMMA initFailedStep ==
  ASSUME IInv, initFailed
  PROVE  IInv'
<1>0. /\ Updater \in Thread /\ \A w \in Worker : w \in Thread /\ w # Updater
      /\ pc \in [Thread -> Place]
  BY ThreadAssumption DEF Thread, IInv, Types
<1>1. PoolsOK'
  BY <1>0, QuietPools DEF initFailed, Goto
<1>2. Types'
  BY <1>0 DEF IInv, Types, initFailed, Goto, Place
<1>3. \A v \in Worker : WorkerOK(v)'
  BY <1>0, ThreadAssumption DEF IInv, Types, WorkerOK, initFailed, Goto
<1>4. UpdaterOK'
  BY <1>0 DEF IInv, UpdaterOK, initFailed, Goto, Shown, Hidden
<1> QED BY <1>1, <1>2, <1>3, <1>4 DEF IInv

\* remove of a host the map does not have changes nothing.
LEMMA removeUnknownStep ==
  ASSUME IInv, removeUnknown
  PROVE  IInv'
<1>0. /\ Updater \in Thread /\ \A w \in Worker : w \in Thread /\ w # Updater
      /\ pc \in [Thread -> Place]
  BY ThreadAssumption DEF Thread, IInv, Types
<1>1. PoolsOK'
  BY <1>0, QuietPools DEF removeUnknown, Goto
<1>2. Types'
  BY <1>0 DEF IInv, Types, removeUnknown, Goto, Place
<1>3. \A v \in Worker : WorkerOK(v)'
  BY <1>0, ThreadAssumption DEF IInv, Types, WorkerOK, removeUnknown, Goto
<1>4. UpdaterOK'
  BY <1>0 DEF IInv, UpdaterOK, removeUnknown, Goto, Shown, Hidden
<1> QED BY <1>1, <1>2, <1>3, <1>4 DEF IInv

\* choose of a service without pool answers null.
LEMMA chooseUnknownStep ==
  ASSUME IInv, NEW w \in Worker, NEW s \in Service, chooseUnknown(w, s)
  PROVE  IInv'
<1>0. /\ Updater \in Thread /\ \A v \in Worker : v \in Thread /\ v # Updater
      /\ pc \in [Thread -> Place]
  BY ThreadAssumption DEF Thread, IInv, Types
<1>1. PoolsOK'
  BY <1>0, QuietPools DEF chooseUnknown, Goto
<1>2. Types'
  BY <1>0 DEF IInv, Types, chooseUnknown, Goto, Place
<1>3. \A v \in Worker : WorkerOK(v)'
  BY <1>0, ThreadAssumption DEF IInv, Types, WorkerOK, chooseUnknown, Goto
<1>4. UpdaterOK'
  BY <1>0 DEF IInv, UpdaterOK, chooseUnknown, Goto, Shown, Hidden
<1> QED BY <1>1, <1>2, <1>3, <1>4 DEF IInv

\* choose up to the unlock of the manager.
LEMMA chooseStep ==
  ASSUME IInv, NEW w \in Worker, NEW s \in Service, choose(w, s)
  PROVE  IInv'
<1>0. /\ Updater \in Thread /\ \A v \in Worker : v \in Thread /\ v # Updater
      /\ pc \in [Thread -> Place]
  BY ThreadAssumption DEF Thread, IInv, Types
<1>1. PoolsOK'
  BY <1>0, QuietPools DEF choose, Goto
<1>2. [svc |-> s, old |-> 0] \in [svc : Service \cup {Free}, old : Index]
  BY EmptyIsPool DEF EmptyPool
<1>3. Types'
  BY <1>0, <1>2 DEF IInv, Types, choose, Goto, Place
<1>4. \A v \in Worker : WorkerOK(v)'
  BY <1>0, ThreadAssumption DEF IInv, Types, WorkerOK, choose, Goto
<1>5. UpdaterOK'
  BY <1>0 DEF IInv, UpdaterOK, choose, Goto, Shown, Hidden
<1> QED BY <1>1, <1>3, <1>4, <1>5 DEF IInv

\* choose of an empty pool answers null.
LEMMA chooseEmptyStep ==
  ASSUME IInv, NEW w \in Worker, chooseEmpty(w)
  PROVE  IInv'
<1>0. /\ Updater \in Thread /\ \A v \in Worker : v \in Thread /\ v # Updater
      /\ pc \in [Thread -> Place]
  BY ThreadAssumption DEF Thread, IInv, Types
<1>1. PoolsOK'
  BY <1>0, QuietPools DEF chooseEmpty, Goto
<1>2. NoCall \in [svc : Service \cup {Free}, old : Index]
  BY EmptyIsPool DEF EmptyPool, NoCall
<1>3. Types'
  BY <1>0, <1>2 DEF IInv, Types, chooseEmpty, Goto, Place
<1>4. \A v \in Worker : WorkerOK(v)'
  BY <1>0, ThreadAssumption DEF IInv, Types, WorkerOK, chooseEmpty, Goto
<1>5. UpdaterOK'
  BY <1>0 DEF IInv, UpdaterOK, chooseEmpty, Goto, Shown, Hidden
<1> QED BY <1>1, <1>3, <1>4, <1>5 DEF IInv

\* choose reads the vector at the position it computed under the lock.
LEMMA readChannelStep ==
  ASSUME IInv, NEW w \in Worker, readChannel(w)
  PROVE  IInv'
<1>0. /\ Updater \in Thread /\ \A v \in Worker : v \in Thread /\ v # Updater
      /\ pc \in [Thread -> Place]
  BY ThreadAssumption DEF Thread, IInv, Types
<1> DEFINE s == call[w].svc
<1>1. /\ s \in DOMAIN services
      /\ s \in Service
      /\ plock[s] = w
      /\ call[w].old \in Index
      /\ services[s].channels # <<>>
      /\ services[s].channels \in Seq(Channel)
  BY DeclaredAssumption DEF readChannel, Goto, IInv, Types, WorkerOK, PoolsOK, Agrees, IsPool
<1>2. services[s].channels[Slot(services[s], call[w].old)] \in Channel
  BY <1>1, SlotInVector, LenProperties
<1>3. PoolsOK'
  BY <1>0, QuietPools DEF readChannel, Goto
<1>4. NoCall \in [svc : Service \cup {Free}, old : Index]
  BY EmptyIsPool DEF EmptyPool, NoCall
<1>5. Types'
  BY <1>0, <1>1, <1>2, <1>4 DEF IInv, Types, readChannel, Goto, Place
<1>6. \A v \in Worker : WorkerOK(v)'
  BY <1>0, <1>1, ThreadAssumption DEF IInv, Types, WorkerOK, readChannel, Goto
<1>7. UpdaterOK'
  BY <1>0, <1>1 DEF IInv, UpdaterOK, readChannel, Goto, Shown, Hidden
<1> QED BY <1>3, <1>5, <1>6, <1>7 DEF IInv

\* choose increments the counter, under the lock of the pool.
LEMMA takeTurnStep ==
  ASSUME IInv, NEW w \in Worker, takeTurn(w)
  PROVE  /\ IInv'
         /\ \A t \in DOMAIN services : t # call[w].svc => Shown(t)' = Shown(t)
<1>0. /\ Updater \in Thread /\ \A v \in Worker : v \in Thread /\ v # Updater
      /\ pc \in [Thread -> Place]
  BY ThreadAssumption DEF Thread, IInv, Types
<1>s. PICK s \in Service : s = call[w].svc /\ s \in DOMAIN services
  BY DeclaredAssumption DEF takeTurn, Goto, IInv, Types, WorkerOK
<1>p. PICK p : p = services[s]
  OBVIOUS
<1>1. /\ s \in DOMAIN services
      /\ s \in Service
      /\ plock[s] = Free
      /\ mlock = w
      /\ pc[w] = "choose"
      /\ p.channels # <<>>
  BY <1>s, <1>p DEF takeTurn, Goto, IInv, Types, WorkerOK
<1>2. /\ pc' = [pc EXCEPT ![w] = "read"]
      /\ plock' = [plock EXCEPT ![s] = w]
      /\ services' = [services EXCEPT ![s] = Advanced(@)]
      /\ call' = [call EXCEPT ![w].old = p.index]
      /\ UNCHANGED <<follow, mlock, arg, picked>>
  BY <1>s, <1>p DEF takeTurn, Goto
<1>3. ~Hidden(s) /\ Shown(s) = p
  BY <1>p, <1>1, FreeIsShown, ThreadAssumption
<1>4. /\ PoolInv(p)
      /\ Agrees(Advanced(p)) /\ PoolInv(Advanced(p))
      /\ Advanced(p).channels = p.channels
      /\ Advanced(p).hosts = p.hosts
      /\ Advanced(p).index = Bump(p.index)
      /\ p.index \in Index
      /\ Updater # Free
  <2>1. PoolInv(p) /\ ChannelsKnown(p, Reannounce)
    BY <1>1, <1>3 DEF IInv, PoolsOK, Agrees
  <2>2. /\ p = [hosts |-> p.hosts, channels |-> p.channels, index |-> p.index]
        /\ p.index \in Index
    BY <2>1 DEF PoolInv, IsPool
  <2>3. Advanced(p).index = Bump(p.index)
    BY <2>2 DEF Advanced
  <2>4. /\ PoolInv(Advanced(p))
        /\ Advanced(p).channels = p.channels
        /\ Advanced(p).hosts = p.hosts
    BY <2>1, AdvancedKeepsPool
  <2>5. ChannelsKnown(Advanced(p), Reannounce)
    BY <2>1, <2>4 DEF ChannelsKnown
  <2> QED BY <2>1, <2>2, <2>3, <2>4, <2>5, ThreadAssumption DEF Agrees
<1>5. /\ services'[s] = Advanced(p)
      /\ DOMAIN services' = DOMAIN services
      /\ \A t \in DOMAIN services : t # s => services'[t] = services[t]
  BY <1>1, <1>2, <1>p
<1>6. /\ call'[w] = [call[w] EXCEPT !.old = p.index]
      /\ call[w] \in [svc : Service \cup {Free}, old : Index]
      /\ call' \in [Worker -> [svc : Service \cup {Free}, old : Index]]
      /\ call'[w].svc = s
      /\ call'[w].old = p.index
      /\ \A v \in Worker : v # w => call'[v] = call[v]
  BY <1>2, <1>4, <1>s DEF IInv, Types
<1>7. LiveIds(services'[s]) = LiveIds(p)
  <2>1. services'[s].hosts = p.hosts /\ services'[s].channels = p.channels
    BY <1>4, <1>5
  <2> QED BY <2>1 DEF LiveIds
<1>8. arg.svc = s => pc[Updater] \notin {"push", "forget"}
  BY <1>1, <1>4 DEF IInv, UpdaterOK
<1>9. pc'[Updater] = pc[Updater]
  BY <1>0, <1>2
<1>10. Types'
  BY <1>0, <1>1, <1>2, <1>5, <1>6 DEF IInv, Types, Place, Thread
<1>11. \A v \in Worker : WorkerOK(v)'
  <2> SUFFICES ASSUME NEW v \in Worker
               PROVE  WorkerOK(v)'
    OBVIOUS
  <2>1. CASE v = w
    BY <2>1, <1>0, <1>1, <1>2, <1>4, <1>5, <1>6 DEF IInv, Types, WorkerOK
  <2>2. CASE v # w
    <3>1. pc[v] = "idle" /\ pc'[v] = "idle"
      BY <2>2, <1>0, <1>1, <1>2 DEF IInv, Types, WorkerOK
    <3> QED BY <3>1 DEF WorkerOK
  <2> QED BY <2>1, <2>2
<1>12. \A t \in DOMAIN services : t # s => /\ Hidden(t)' <=> Hidden(t)
                                          /\ Shown(t)' = Shown(t)
  BY <1>2, <1>5, <1>9 DEF Hidden, Shown
<1>A. Shown(s)' = Advanced(p)
  <2>1. ~Hidden(s)'
    BY <1>8, <1>9, <1>2 DEF Hidden
  <2> QED BY <2>1, <1>5 DEF Shown
<1>13. PoolsOK'
  <2>2. Shown(s)' = Advanced(p)
    BY <1>A
  <2> SUFFICES ASSUME NEW t \in DOMAIN services
               PROVE  IsPool(services'[t]) /\ Agrees(Shown(t)')
    BY <1>5 DEF PoolsOK
  <2>3. CASE t = s
    BY <2>2, <2>3, <1>4, <1>5 DEF PoolInv
  <2>4. CASE t # s
    BY <2>4, <1>5, <1>12 DEF IInv, PoolsOK, Agrees
  <2> QED BY <2>3, <2>4
<1>14. UpdaterOK'
  <2>1. ASSUME pc[Updater] = "insert", NEW t \in DOMAIN services
        PROVE  arg.chan.id \notin LiveIds(services'[t])
    BY <2>1, <1>1, <1>5, <1>7, <1>p DEF IInv, UpdaterOK
  <2>2. pc[Updater] \in {"push", "forget"} => arg.svc # s
    BY <1>8
  <2>3. ASSUME pc[Updater] \in {"init", "insert", "push"}
        PROVE  arg.host \in Reannounce \/ arg.host \notin DOMAIN Shown(arg.svc)'.hosts
    <3>1. PICK t \in DOMAIN services : t = arg.svc
      BY <2>3 DEF IInv, UpdaterOK
    <3>2. arg.host \in Reannounce \/ arg.host \notin DOMAIN Shown(t).hosts
      BY <2>3, <3>1 DEF IInv, UpdaterOK
    <3>3. DOMAIN Shown(t)'.hosts = DOMAIN Shown(t).hosts
      BY <1>A, <1>3, <1>4, <1>12
    <3>4. Shown(arg.svc)' = Shown(t)'
      BY <1>2, <3>1 DEF Shown, Hidden
    <3> QED BY <3>2, <3>3, <3>4
  <2> QED BY <2>1, <2>2, <2>3, <1>1, <1>2, <1>4, <1>5, <1>9, <1>12 DEF IInv, UpdaterOK
<1> QED BY <1>s, <1>10, <1>11, <1>12, <1>13, <1>14 DEF IInv

\* What a half of append or of remove cannot disturb: the other services, and the
\* workers, none of which is inside this pool.
LEMMA HalfStep ==
  ASSUME IInv, NEW s \in DOMAIN services, NEW q,
         NEW to \in {"idle", "push", "forget"}, NEW owner \in {Free, Updater},
         plock[s] \in {Free, Updater},
         services' = [services EXCEPT ![s] = q],
         pc' = [pc EXCEPT ![Updater] = to],
         plock' = [plock EXCEPT ![s] = owner],
         UNCHANGED <<follow, mlock, call, picked>>,
         arg.svc = s, to # "idle" => arg' = arg,
         IsPool(q), Agrees(Shown(s)')
  PROVE  /\ Types' /\ PoolsOK' /\ \A w \in Worker : WorkerOK(w)'
         /\ services'[s] = q /\ plock'[s] = owner /\ pc'[Updater] = to
         /\ \A t \in DOMAIN services : t # s => Shown(t)' = Shown(t)
<1>0. /\ Updater \in Thread /\ \A w \in Worker : w \in Thread /\ w # Updater /\ w # Free
      /\ pc \in [Thread -> Place]
      /\ s \in Service
  BY ThreadAssumption, DeclaredAssumption DEF Thread, IInv, Types
<1>1. /\ services'[s] = q
      /\ DOMAIN services' = DOMAIN services
      /\ \A t \in DOMAIN services : t # s => services'[t] = services[t]
  OBVIOUS
<1>2. /\ plock'[s] = owner
      /\ pc'[Updater] = to
      /\ \A w \in Worker : pc'[w] = pc[w]
  BY <1>0 DEF IInv, Types
<1>3. Types'
  BY <1>0, <1>1 DEF IInv, Types, Place
<1>4. ASSUME NEW w \in Worker
      PROVE  WorkerOK(w)'
  BY <1>0, <1>1, <1>2 DEF IInv, Types, WorkerOK
<1>5. ASSUME NEW t \in DOMAIN services, t # s
      PROVE  /\ IsPool(services'[t]) /\ Agrees(Shown(t)')
             /\ Shown(t)' = Shown(t)
  <2>1. ~Hidden(t)
    BY <1>5 DEF Hidden
  <2>2. ~Hidden(t)'
    BY <1>2, <1>5 DEF Hidden
  <2>3. Shown(t)' = Shown(t)
    BY <2>1, <2>2, <1>1, <1>5 DEF Shown
  <2> QED BY <1>1, <1>5, <2>3 DEF IInv, PoolsOK, Agrees
<1>6. ASSUME NEW t \in DOMAIN services, t = s
      PROVE  IsPool(services'[t]) /\ Agrees(Shown(t)')
  BY <1>1, <1>6
<1>7. PoolsOK'
  BY <1>1, <1>5, <1>6 DEF PoolsOK
<1> QED BY <1>1, <1>2, <1>3, <1>4, <1>5, <1>7

\* The halves of append: what the pool shows is what it was, then the appended one.
LEMMA insertHostStep ==
  ASSUME IInv, insertHost
  PROVE  /\ IInv'
         /\ Shown(arg.svc) = services[arg.svc]
         /\ Shown(arg.svc)' = services[arg.svc]
         /\ \A t \in DOMAIN services : t # arg.svc => Shown(t)' = Shown(t)
<1>1. PICK s \in DOMAIN services : s = arg.svc
  BY DEF IInv, UpdaterOK, insertHost, Goto
<1>2. PICK p : p = services[s]
  OBVIOUS
<1>3. PICK c \in Channel : c = arg.chan /\ c.host = arg.host /\ c.id \notin LiveIds(p)
  BY <1>1, <1>2 DEF IInv, UpdaterOK, insertHost, Goto
<1>4. /\ s \in Service
      /\ plock[s] = Free
      /\ Free # Updater
      /\ arg.host \in Host
      /\ arg = [svc |-> arg.svc, host |-> arg.host, chan |-> arg.chan]
  BY <1>1, DeclaredAssumption, ThreadAssumption DEF IInv, Types, UpdaterOK, insertHost, Goto
<1>5. /\ Shown(s) = p
      /\ PoolInv(p) /\ Agrees(p)
      /\ arg.host \in Reannounce \/ arg.host \notin DOMAIN p.hosts
  <2>1. Shown(s) = p
    BY <1>2, <1>4, FreeIsShown
  <2>2. arg.host \in Reannounce \/ arg.host \notin DOMAIN Shown(s).hosts
    BY <1>1 DEF IInv, UpdaterOK, insertHost, Goto
  <2> QED BY <2>1, <2>2 DEF IInv, PoolsOK, Agrees
<1>6. PICK q : q = InsertHost(p, c)
  OBVIOUS
<1>7. /\ IsPool(q)
      /\ IF q.hosts[c.host] = c THEN EraseHost(q, c.host) = p ELSE q = p
  BY <1>3, <1>5, <1>6, InsertHostHalf
<1>8. /\ services' = [services EXCEPT ![s] = q]
      /\ pc' = [pc EXCEPT ![Updater] = "push"]
      /\ plock' = [plock EXCEPT ![s] = Updater]
      /\ UNCHANGED <<follow, mlock, arg, call, picked>>
  BY <1>1, <1>2, <1>3, <1>6 DEF insertHost, Goto
<1>9. /\ services'[s] = q
      /\ DOMAIN services' = DOMAIN services
      /\ pc'[Updater] = "push"
  BY <1>8, ThreadAssumption DEF IInv, Types, Thread
<1>10. Hidden(s)' <=> q.hosts[c.host] = c
  BY <1>1, <1>3, <1>8, <1>9 DEF Hidden
<1>11. Shown(s)' = p
  BY <1>3, <1>7, <1>8, <1>9, <1>10 DEF Shown
<1>12. /\ Types' /\ PoolsOK' /\ \A w \in Worker : WorkerOK(w)'
       /\ plock'[s] = Updater
       /\ \A t \in DOMAIN services : t # s => Shown(t)' = Shown(t)
  BY <1>1, <1>4, <1>5, <1>7, <1>8, <1>11, HalfStep
<1>13. UpdaterOK'
  <2>1. Shown(arg.svc)' = p
    BY <1>1, <1>8, <1>11 DEF Shown, Hidden
  <2> QED BY <1>1, <1>3, <1>4, <1>5, <1>6, <1>8, <1>9, <2>1, <1>12 DEF UpdaterOK
<1> QED BY <1>1, <1>2, <1>5, <1>8, <1>11, <1>12, <1>13 DEF IInv

\* append ends: the vector has the channel the map got.
LEMMA pushChannelStep ==
  ASSUME IInv, pushChannel
  PROVE  /\ IInv'
         /\ arg.chan \in Channel
         /\ arg.chan.id \notin LiveIds(Shown(arg.svc))
         /\ arg.chan.host \in Reannounce
              \/ arg.chan.host \notin DOMAIN Shown(arg.svc).hosts
         /\ services'[arg.svc] = Appended(Shown(arg.svc), arg.chan)
         /\ arg.svc \in DOMAIN services /\ plock[arg.svc] = Updater
         /\ \A t \in DOMAIN services : t # arg.svc => Shown(t)' = Shown(t)
<1>1. PICK s \in DOMAIN services : s = arg.svc
  BY DEF IInv, UpdaterOK, pushChannel, Goto
<1>2. PICK p : p = Shown(s)
  OBVIOUS
<1>3. PICK c \in Channel : c = arg.chan /\ c.id \notin LiveIds(p)
  BY <1>1, <1>2 DEF IInv, UpdaterOK, pushChannel, Goto
<1>4. /\ plock[s] = Updater
      /\ services[s] = InsertHost(p, c)
      /\ PoolInv(p) /\ ChannelsKnown(p, Reannounce)
      /\ c.host \in Reannounce \/ c.host \notin DOMAIN p.hosts
  BY <1>1, <1>2, <1>3 DEF IInv, PoolsOK, Agrees, UpdaterOK, pushChannel, Goto
<1>5. PICK q : q = Appended(p, c)
  OBVIOUS
<1>6. c = [host |-> c.host, id |-> c.id] /\ c.host \in Host /\ c.id \in ChannelId
  BY DEF Channel
<1>7. Agrees(q) /\ IsPool(q)
  <2>1. PoolInv(q)
    BY <1>3, <1>4, <1>5, <1>6, AppendedKeepsPool
  <2>2. ChannelsKnown(q, Reannounce)
    BY <1>3, <1>4, <1>5, <1>6, AppendedKnown
  <2> QED BY <2>1, <2>2 DEF Agrees, PoolInv
<1>8. /\ services' = [services EXCEPT ![s] = q]
      /\ pc' = [pc EXCEPT ![Updater] = "idle"]
      /\ plock' = [plock EXCEPT ![s] = Free]
      /\ UNCHANGED <<follow, mlock, call, picked>>
  BY <1>1, <1>3, <1>4, <1>5 DEF pushChannel, Goto, Appended
<1>9. /\ services'[s] = q
      /\ pc'[Updater] = "idle"
  BY <1>8, ThreadAssumption DEF IInv, Types, Thread
<1>10. ~Hidden(s)' /\ Shown(s)' = q
  BY <1>9 DEF Hidden, Shown
<1>11. /\ Types' /\ PoolsOK' /\ \A w \in Worker : WorkerOK(w)'
       /\ \A t \in DOMAIN services : t # s => Shown(t)' = Shown(t)
  BY <1>1, <1>4, <1>7, <1>8, <1>10, HalfStep
<1>12. UpdaterOK'
  BY <1>9 DEF UpdaterOK
<1> QED BY <1>1, <1>2, <1>3, <1>4, <1>5, <1>9, <1>11, <1>12 DEF IInv

\* The halves of remove: the first one does all that is seen of it.
LEMMA eraseChannelStep ==
  ASSUME IInv, eraseChannel
  PROVE  /\ IInv'
         /\ Shown(arg.svc) = services[arg.svc]
         /\ Shown(arg.svc)' = Removed(services[arg.svc], arg.host)
         /\ \A t \in DOMAIN services : t # arg.svc => Shown(t)' = Shown(t)
<1>1. PICK s \in DOMAIN services : s = arg.svc
  BY DEF IInv, UpdaterOK, eraseChannel, Goto
<1>2. PICK p : p = services[s]
  OBVIOUS
<1>3. PICK h \in DOMAIN p.hosts : h = arg.host
  BY <1>1, <1>2 DEF eraseChannel
<1>4. /\ s \in Service
      /\ plock[s] = Free
      /\ Free # Updater
      /\ arg.host \in Host
      /\ arg = [svc |-> arg.svc, host |-> arg.host, chan |-> arg.chan]
  BY <1>1, DeclaredAssumption, ThreadAssumption DEF IInv, Types, UpdaterOK, eraseChannel, Goto
<1>5. /\ Shown(s) = p
      /\ PoolInv(p) /\ ChannelsKnown(p, Reannounce)
  BY <1>2, <1>4, FreeIsShown DEF IInv, PoolsOK, Agrees
<1>6. PICK q : q = EraseChannel(p, h)
  OBVIOUS
<1>7. /\ IsPool(q)
      /\ q.hosts = p.hosts
      /\ EraseHost(q, h) = Removed(p, h)
  BY <1>3, <1>5, <1>6, EraseChannelHalf
<1>8. /\ services' = [services EXCEPT ![s] = q]
      /\ pc' = [pc EXCEPT ![Updater] = "forget"]
      /\ plock' = [plock EXCEPT ![s] = Updater]
      /\ UNCHANGED <<follow, mlock, arg, call, picked>>
  BY <1>1, <1>2, <1>3, <1>6 DEF eraseChannel, Goto
<1>9. /\ services'[s] = q
      /\ DOMAIN services' = DOMAIN services
      /\ pc'[Updater] = "forget"
  BY <1>8, ThreadAssumption DEF IInv, Types, Thread
<1>10. Hidden(s)'
  BY <1>1, <1>8, <1>9 DEF Hidden
<1>11. Shown(s)' = Removed(p, h)
  BY <1>3, <1>7, <1>8, <1>9, <1>10 DEF Shown
<1>12. Agrees(Removed(p, h))
  BY <1>3, <1>5, RemovedKeepsPool, RemovedReleases DEF Agrees
<1>13. /\ Types' /\ PoolsOK' /\ \A w \in Worker : WorkerOK(w)'
       /\ plock'[s] = Updater
       /\ \A t \in DOMAIN services : t # s => Shown(t)' = Shown(t)
  BY <1>1, <1>4, <1>7, <1>8, <1>11, <1>12, HalfStep
<1>14. UpdaterOK'
  BY <1>1, <1>3, <1>4, <1>7, <1>8, <1>9, <1>13 DEF UpdaterOK
<1> QED BY <1>1, <1>2, <1>3, <1>5, <1>8, <1>11, <1>13, <1>14 DEF IInv

\* remove ends: the map forgets the host the vector lost.
LEMMA eraseHostStep ==
  ASSUME IInv, eraseHost
  PROVE  /\ IInv'
         /\ services'[arg.svc] = Shown(arg.svc)
         /\ arg.svc \in DOMAIN services /\ plock[arg.svc] = Updater
         /\ \A t \in DOMAIN services : t # arg.svc => Shown(t)' = Shown(t)
<1>1. PICK s \in DOMAIN services : s = arg.svc
  BY DEF IInv, UpdaterOK, eraseHost, Goto
<1>2. PICK q : q = Shown(s)
  OBVIOUS
<1>3. /\ plock[s] = Updater
      /\ q = EraseHost(services[s], arg.host)
      /\ Agrees(q) /\ IsPool(q)
  BY <1>1, <1>2 DEF IInv, PoolsOK, Agrees, PoolInv, UpdaterOK, eraseHost, Goto, Shown, Hidden
<1>4. /\ services' = [services EXCEPT ![s] = q]
      /\ pc' = [pc EXCEPT ![Updater] = "idle"]
      /\ plock' = [plock EXCEPT ![s] = Free]
      /\ UNCHANGED <<follow, mlock, call, picked>>
  BY <1>1, <1>3 DEF eraseHost, Goto
<1>5. /\ services'[s] = q
      /\ pc'[Updater] = "idle"
  BY <1>4, ThreadAssumption DEF IInv, Types, Thread
<1>6. ~Hidden(s)' /\ Shown(s)' = q
  BY <1>5 DEF Hidden, Shown
<1>7. /\ Types' /\ PoolsOK' /\ \A w \in Worker : WorkerOK(w)'
      /\ \A t \in DOMAIN services : t # s => Shown(t)' = Shown(t)
  BY <1>1, <1>3, <1>4, <1>6, HalfStep
<1>8. UpdaterOK'
  BY <1>5 DEF UpdaterOK
<1> QED BY <1>1, <1>2, <1>3, <1>5, <1>7, <1>8 DEF IInv

--------------------------------------------------------------------------------
(* The invariants of the specification                                        *)

\* Every step keeps the invariant, action by action.
LEMMA NextKeeps == IInv /\ [Next]_vars => IInv'
<1> SUFFICES ASSUME IInv, [Next]_vars
             PROVE  IInv'
  OBVIOUS
<1>1. CASE UpdaterStep
  BY <1>1, startDiscoveryStep, initChannelStep, initFailedStep, insertHostStep,
     pushChannelStep, removeUnknownStep, eraseChannelStep, eraseHostStep
  DEF UpdaterStep
<1>2. CASE Callback
  BY <1>2, declaredStep, onServiceOnlineStep, onServiceOfflineStep DEF Callback
<1>3. ASSUME NEW w \in Worker, NEW s \in Service, chooseUnknown(w, s) \/ choose(w, s)
      PROVE  IInv'
  BY <1>3, chooseUnknownStep, chooseStep
<1>4. ASSUME NEW w \in Worker, WorkerStep(w)
      PROVE  IInv'
  BY <1>4, chooseEmptyStep, takeTurnStep, readChannelStep DEF WorkerStep
<1>5. CASE UNCHANGED vars
  BY <1>5 DEF vars, IInv, Types, WorkerOK, UpdaterOK, PoolsOK, Shown, Hidden
<1> QED BY <1>1, <1>2, <1>3, <1>4, <1>5 DEF Next

\* Whoever is where between two lock operations, the pool that a service shows
\* (its own when the lock is free, the last whole one when it is not) is the pool
\* of a vector and a map that agree, and each thread holds the locks of its place.
THEOREM LocksKeepPools == Spec => []IInv
BY InitIInv, NextKeeps, PTL DEF Spec

\* The members of the manager, of the pools and of the threads are well typed.
THEOREM TypeCorrect == Spec => []TypeOK
<1>1. IInv => TypeOK
  BY DEF IInv, Types, PoolsOK, Agrees, Place, Thread, TypeOK
<1> QED BY <1>1, LocksKeepPools, PTL

\* Between the increment and the read of choose the vector is not changed: the
\* element at the position the caller computed exists.
THEOREM TurnsStay == Spec => []TurnStillThere
<1>1. IInv => TurnStillThere
  <2> SUFFICES ASSUME IInv, NEW w \in Worker, pc[w] = "read"
               PROVE  /\ services[call[w].svc].channels # <<>>
                      /\ Slot(services[call[w].svc], call[w].old) \in
                           DOMAIN services[call[w].svc].channels
    BY DEF TurnStillThere
  <2>1. /\ call[w].svc \in DOMAIN services
        /\ services[call[w].svc].channels # <<>>
        /\ services[call[w].svc].channels \in Seq(Channel)
        /\ call[w].old \in Index
    BY DEF IInv, Types, WorkerOK, PoolsOK, Agrees, IsPool
  <2> QED BY <2>1, SlotInVector
<1> QED BY <1>1, LocksKeepPools, PTL

\* Whenever a pool's lock is free its map and its vector agree, in both directions,
\* but for the second channels of hosts announced again.
THEOREM UnlockedAgree == Spec => []UnlockedConsistent
<1>1. IInv => UnlockedConsistent
  <2> SUFFICES ASSUME IInv, NEW s \in DOMAIN services, plock[s] = Free
               PROVE  /\ IsInjective(services[s].channels)
                      /\ MapInRotation(services[s])
                      /\ ChannelsKnown(services[s], Reannounce)
    BY DEF UnlockedConsistent, MapInRotation, ChannelsKnown
  <2>1. Agrees(services[s])
    BY FreeIsShown, ThreadAssumption, DeclaredAssumption DEF IInv, Types, PoolsOK
  <2> QED BY <2>1 DEF Agrees, PoolInv
<1> QED BY <1>1, LocksKeepPools, PTL

--------------------------------------------------------------------------------
(* Every step is an atomic method of a ServiceChannel, or none                *)

\* A worker is between the increment of Watched's counter and its read.
Reads(w) == pc[w] = "read" /\ call[w].svc = Watched

\* The refinement mapping, case by case.
Visible ==
  /\ Watched \notin DOMAIN services => VisiblePool = EmptyPool
  /\ Watched \in DOMAIN services =>
       /\ (\A w \in Worker : ~Reads(w)) => VisiblePool = Shown(Watched)
       /\ \A w \in Worker : Reads(w) =>
            VisiblePool = [services[Watched] EXCEPT !.index = call[w].old]

\* The atomic pool, by the place of the thread that holds the lock.
LEMMA VisibleCases == IInv => Visible
<1> SUFFICES ASSUME IInv
             PROVE  Visible
  OBVIOUS
<1> DEFINE old == {call[w].old : w \in {v \in Worker : pc[v] = "read" /\ call[v].svc = Watched}}
<1>1. ASSUME Watched \notin DOMAIN services
      PROVE  VisiblePool = EmptyPool
  <2>1. arg.svc = Watched => pc[Updater] \notin {"push", "forget"}
    BY <1>1 DEF IInv, UpdaterOK
  <2>2. old = {}
    BY <1>1 DEF IInv, WorkerOK
  <2> QED BY <1>1, <2>1, <2>2 DEF VisiblePool
<1>2. ASSUME Watched \in DOMAIN services, \A w \in Worker : ~Reads(w)
      PROVE  VisiblePool = Shown(Watched)
  <2>1. old = {}
    BY <1>2 DEF Reads
  <2> QED BY <1>2, <2>1 DEF VisiblePool, Shown, Hidden
<1>3. ASSUME Watched \in DOMAIN services, NEW w \in Worker, Reads(w)
      PROVE  VisiblePool = [services[Watched] EXCEPT !.index = call[w].old]
  <2>1. old = {call[w].old}
    BY <1>3 DEF Reads, IInv, WorkerOK
  <2>2. (CHOOSE i \in old : TRUE) = call[w].old
    BY <2>1
  <2>3. arg.svc = Watched => pc[Updater] \notin {"push", "forget"}
    BY <1>3, ThreadAssumption DEF Reads, IInv, WorkerOK, UpdaterOK
  <2> QED BY <1>3, <2>1, <2>2, <2>3 DEF VisiblePool
<1> QED BY <1>1, <1>2, <1>3 DEF Visible

\* Nothing is seen of a step that leaves the shown pool and the readers alone.
LEMMA Unseen ==
  ASSUME Visible, Visible',
         Watched \in DOMAIN services =>
           /\ Watched \in DOMAIN services'
           /\ Shown(Watched)' = Shown(Watched)
           /\ (\E w \in Worker : Reads(w)) => services'[Watched] = services[Watched],
         Watched \in DOMAIN services' \ DOMAIN services => Shown(Watched)' = EmptyPool,
         \A w \in Worker : Reads(w)' <=> Reads(w),
         \A w \in Worker : Reads(w) => Watched \in DOMAIN services /\ call'[w].old = call[w].old
  PROVE  VisiblePool' = VisiblePool
<1>1. CASE \E w \in Worker : Reads(w)
  <2>1. PICK w \in Worker : Reads(w)
    BY <1>1
  <2> QED BY <2>1 DEF Visible
<1>2. CASE \A w \in Worker : ~Reads(w)
  BY <1>2 DEF Visible
<1> QED BY <1>1, <1>2

\* The methods of the atomic channel, in this module's terms.
LEMMA AtomicAppend ==
  ASSUME NEW h \in Host, NEW id \in ChannelId \ LiveIds(VisiblePool),
         h \in Reannounce \/ h \notin DOMAIN VisiblePool.hosts,
         VisiblePool' = Appended(VisiblePool, [host |-> h, id |-> id]),
         picked'[Watched] = picked[Watched]
  PROVE  Atomic!Next
BY DEF Atomic!Next, Atomic!append, LiveIds, Appended, PushChannel, InsertHost,
       Atomic!LiveIds, Atomic!Appended, Atomic!PushChannel, Atomic!InsertHost

\* What the last step of a remove is to the atomic pool: its remove.
LEMMA AtomicRemove ==
  ASSUME NEW h \in Host,
         VisiblePool' = Removed(VisiblePool, h),
         picked'[Watched] = picked[Watched]
  PROVE  Atomic!Next
<1>1. Atomic!EraseChannel(VisiblePool, h) = EraseChannel(VisiblePool, h)
  BY DEF Atomic!EraseChannel, EraseChannel, Atomic!Position, Position,
         Atomic!RemoveAt, RemoveAt
<1>2. Atomic!Removed(VisiblePool, h) = Removed(VisiblePool, h)
  BY <1>1 DEF Atomic!Removed, Removed, Atomic!EraseHost, EraseHost
<1> QED BY <1>2 DEF Atomic!Next, Atomic!remove

\* What the read of the vector is to the atomic pool: its choose.
LEMMA AtomicChoose ==
  ASSUME picked'[Watched] = Chosen(VisiblePool),
         VisiblePool' = IF VisiblePool.channels = <<>> THEN VisiblePool
                        ELSE Advanced(VisiblePool)
  PROVE  Atomic!Next
BY DEF Atomic!Next, Atomic!choose, Chosen, Slot, AsSize, Advanced, Bump,
       Atomic!Chosen, Atomic!Slot, Atomic!AsSize, Atomic!Advanced, Atomic!Bump

\* The callbacks: an append is seen when the vector has the new channel, a remove
\* when the vector has lost its own.
LEMMA UpdaterSimulates ==
  ASSUME IInv, Visible, Visible', UpdaterStep
  PROVE  Atomic!Next \/ UNCHANGED <<VisiblePool, picked[Watched]>>
<1>0. /\ Updater \in Thread /\ \A w \in Worker : w \in Thread /\ w # Updater
      /\ pc \in [Thread -> Place]
      /\ Updater # Free
  BY ThreadAssumption DEF Thread, IInv, Types
<1>1. /\ \A w \in Worker : Reads(w)' <=> Reads(w)
      /\ \A w \in Worker : Reads(w) => Watched \in DOMAIN services /\ call'[w].old = call[w].old
      /\ picked' = picked
      /\ DOMAIN services' = DOMAIN services
  <2>1. call' = call /\ picked' = picked
    BY DEF UpdaterStep, startDiscovery, initChannel, initFailed, insertHost,
           pushChannel, removeUnknown, eraseChannel, eraseHost
  <2>2. \A w \in Worker : pc'[w] = pc[w]
    BY <1>0 DEF UpdaterStep, startDiscovery, initChannel, initFailed, insertHost,
           pushChannel, removeUnknown, eraseChannel, eraseHost, Goto
  <2>3. DOMAIN services' = DOMAIN services
    BY DEF UpdaterStep, startDiscovery, initChannel, initFailed, insertHost,
           pushChannel, removeUnknown, eraseChannel, eraseHost
  <2> QED BY <2>1, <2>2, <2>3 DEF Reads, IInv, WorkerOK
<1>2. CASE startDiscovery \/ initChannel \/ initFailed \/ removeUnknown
  <2>1. /\ services' = services
        /\ pc[Updater] \notin {"push", "forget"}
        /\ pc'[Updater] \notin {"push", "forget"}
    BY <1>0, <1>2 DEF startDiscovery, initChannel, initFailed, removeUnknown, Goto
  <2>2. Watched \in DOMAIN services => Shown(Watched)' = Shown(Watched)
    BY <2>1 DEF Shown, Hidden
  <2> QED BY <1>1, <2>1, <2>2, Unseen
\* A step of another service, or of this one while no worker reads it.
<1>3. ASSUME arg.svc \in DOMAIN services,
             \A t \in DOMAIN services : t # arg.svc =>
               Shown(t)' = Shown(t) /\ services'[t] = services[t],
             arg.svc = Watched => Shown(Watched)' = Shown(Watched),
             arg.svc = Watched => \A w \in Worker : ~Reads(w)
      PROVE  VisiblePool' = VisiblePool
  BY <1>1, <1>3, Unseen
<1>4. plock[arg.svc] \in {Free, Updater} /\ arg.svc = Watched => \A w \in Worker : ~Reads(w)
  BY ThreadAssumption DEF IInv, WorkerOK, Reads
<1>5. CASE insertHost
  <2>1. /\ arg' = arg
        /\ plock[arg.svc] = Free
        /\ \A t \in DOMAIN services : t # arg.svc => services'[t] = services[t]
    BY <1>5 DEF insertHost
  <2>2. arg.svc \in DOMAIN services
    BY <1>5 DEF insertHost, Goto, IInv, UpdaterOK
  <2>3. /\ Shown(arg.svc)' = Shown(arg.svc)
        /\ \A t \in DOMAIN services : t # arg.svc => Shown(t)' = Shown(t)
    BY <1>5, insertHostStep
  <2>4. arg.svc = Watched => Shown(Watched)' = Shown(Watched)
    BY <2>1, <2>3 DEF Shown, Hidden
  <2> QED BY <1>1, <1>3, <1>4, <2>1, <2>2, <2>3, <2>4
<1>6. CASE eraseHost
  <2>1. /\ arg.svc \in DOMAIN services
        /\ plock[arg.svc] = Updater
        /\ services'[arg.svc] = Shown(arg.svc)
        /\ \A t \in DOMAIN services : t # arg.svc => Shown(t)' = Shown(t)
    BY <1>6, eraseHostStep
  <2>2. \A t \in DOMAIN services : t # arg.svc => services'[t] = services[t]
    BY <1>6 DEF eraseHost
  <2>3. pc'[Updater] = "idle"
    BY <1>0, <1>6 DEF eraseHost, Goto
  <2>4. arg.svc = Watched => Shown(Watched)' = Shown(Watched)
    BY <2>1, <2>3 DEF Shown, Hidden
  <2> QED BY <1>1, <1>3, <1>4, <2>1, <2>2, <2>4
<1>7. CASE pushChannel
  <2>1. /\ arg.chan \in Channel
        /\ arg.chan.id \notin LiveIds(Shown(arg.svc))
        /\ arg.chan.host \in Reannounce
             \/ arg.chan.host \notin DOMAIN Shown(arg.svc).hosts
        /\ services'[arg.svc] = Appended(Shown(arg.svc), arg.chan)
        /\ arg.svc \in DOMAIN services
        /\ plock[arg.svc] = Updater
        /\ \A t \in DOMAIN services : t # arg.svc => Shown(t)' = Shown(t)
    BY <1>7, pushChannelStep
  <2>2. \A t \in DOMAIN services : t # arg.svc => services'[t] = services[t]
    BY <1>7 DEF pushChannel
  <2>3. pc'[Updater] = "idle"
    BY <1>0, <1>7 DEF pushChannel, Goto
  <2>4. CASE arg.svc # Watched
    BY <1>1, <1>3, <2>1, <2>2, <2>4
  <2>5. CASE arg.svc = Watched
    <3>1. \A w \in Worker : ~Reads(w) /\ ~Reads(w)'
      BY <1>1, <1>4, <2>1, <2>5
    <3>2. VisiblePool = Shown(Watched)
      BY <2>1, <2>5, <3>1 DEF Visible
    <3>3. VisiblePool' = Shown(Watched)'
      BY <1>1, <2>1, <2>5, <3>1 DEF Visible
    <3>4. Shown(Watched)' = services'[Watched]
      BY <2>3 DEF Shown, Hidden
    <3>5. /\ arg.chan = [host |-> arg.chan.host, id |-> arg.chan.id]
          /\ arg.chan.host \in Host
          /\ arg.chan.id \in ChannelId
      BY <2>1 DEF Channel
    <3> QED BY <1>1, <2>1, <2>5, <3>2, <3>3, <3>4, <3>5, AtomicAppend
  <2> QED BY <2>4, <2>5
<1>8. CASE eraseChannel
  <2>1. /\ Shown(arg.svc) = services[arg.svc]
        /\ Shown(arg.svc)' = Removed(services[arg.svc], arg.host)
        /\ \A t \in DOMAIN services : t # arg.svc => Shown(t)' = Shown(t)
    BY <1>8, eraseChannelStep
  <2>2. /\ arg' = arg
        /\ plock[arg.svc] = Free
        /\ \A t \in DOMAIN services : t # arg.svc => services'[t] = services[t]
    BY <1>8 DEF eraseChannel
  <2>3. arg.svc \in DOMAIN services /\ arg.host \in Host
    BY <1>8 DEF eraseChannel, Goto, IInv, UpdaterOK
  <2>4. CASE arg.svc # Watched
    BY <1>1, <1>3, <2>1, <2>2, <2>3, <2>4
  <2>5. CASE arg.svc = Watched
    <3>1. \A w \in Worker : ~Reads(w) /\ ~Reads(w)'
      BY <1>1, <1>4, <2>2, <2>5
    <3>2. VisiblePool = Shown(Watched)
      BY <2>3, <2>5, <3>1 DEF Visible
    <3>3. VisiblePool' = Shown(Watched)'
      BY <1>1, <2>3, <2>5, <3>1 DEF Visible
    <3>4. Shown(Watched)' = Shown(arg.svc)'
      BY <2>2, <2>5 DEF Shown, Hidden
    <3> QED BY <1>1, <2>1, <2>3, <2>5, <3>2, <3>3, <3>4, AtomicRemove
  <2> QED BY <2>4, <2>5
<1> QED BY <1>2, <1>5, <1>6, <1>7, <1>8 DEF UpdaterStep

\* The announcements: at most a new, empty pool.
LEMMA CallbackSimulates ==
  ASSUME IInv, Visible, Visible', Callback
  PROVE  UNCHANGED <<VisiblePool, picked[Watched]>>
<1>0. /\ Updater \in Thread /\ \A w \in Worker : w \in Thread /\ w # Updater
      /\ pc \in [Thread -> Place]
  BY ThreadAssumption DEF Thread, IInv, Types
<1>1. call' = call /\ picked' = picked
  BY DEF Callback, declared, onServiceOnline, onServiceOffline
<1>2. \A w \in Worker : pc'[w] = pc[w]
  BY <1>0 DEF Callback, declared, onServiceOnline, onServiceOffline, Goto
<1>3. /\ DOMAIN services \subseteq DOMAIN services'
      /\ \A s \in DOMAIN services : services'[s] = services[s]
      /\ \A s \in DOMAIN services' \ DOMAIN services : services'[s] = EmptyPool
  BY DEF Callback, declared, onServiceOnline, onServiceOffline, Managing
<1>4. \/ pc'[Updater] \notin {"push", "forget"} /\ pc[Updater] \notin {"push", "forget"}
      \/ pc'[Updater] = pc[Updater] /\ arg' = arg
  BY <1>0 DEF Callback, declared, onServiceOnline, onServiceOffline, Goto
<1>5. \A s \in DOMAIN services' :
        Shown(s)' = IF s \in DOMAIN services THEN Shown(s) ELSE EmptyPool
  BY <1>3, <1>4, QuietShown
<1>6. /\ \A w \in Worker : Reads(w)' <=> Reads(w)
      /\ \A w \in Worker : Reads(w) => Watched \in DOMAIN services /\ call'[w].old = call[w].old
  BY <1>1, <1>2 DEF Reads, IInv, WorkerOK
<1> QED BY <1>1, <1>3, <1>5, <1>6, Unseen

\* choose is seen when it reads the vector, or when it finds nothing to read.
LEMMA UnknownSimulates ==
  ASSUME IInv, Visible, Visible', NEW w \in Worker, NEW s \in Service,
         chooseUnknown(w, s)
  PROVE  Atomic!Next \/ UNCHANGED <<VisiblePool, picked[Watched]>>
<1>1. VisiblePool' = VisiblePool
  BY DEF chooseUnknown, VisiblePool
<1>2. CASE s # Watched
  BY <1>1, <1>2 DEF chooseUnknown, IInv, Types
<1>3. CASE s = Watched
  <2>1. VisiblePool = EmptyPool
    BY <1>3 DEF chooseUnknown, Visible
  <2>2. picked'[Watched] = NoChannel
    BY <1>3 DEF chooseUnknown, IInv, Types
  <2> QED BY <1>1, <2>1, <2>2, EmptyIsPool, AtomicChoose DEF Chosen
<1> QED BY <1>2, <1>3

\* A worker's step is a choose of the atomic pool or invisible.
LEMMA WorkerSimulates ==
  ASSUME IInv, Visible, Visible', NEW w \in Worker,
         WorkerStep(w) \/ \E s \in Service : choose(w, s)
  PROVE  Atomic!Next \/ UNCHANGED <<VisiblePool, picked[Watched]>>
<1>0. /\ Updater \in Thread /\ \A v \in Worker : v \in Thread /\ v # Updater /\ v # Free
      /\ pc \in [Thread -> Place]
      /\ Updater # Free
      /\ Watched \in Service
      /\ call \in [Worker -> [svc : Service \cup {Free}, old : Index]]
      /\ picked \in [Service -> Channel \cup {NoChannel}]
      /\ plock \in [Service -> Thread \cup {Free}]
  BY ThreadAssumption, WatchedAssumption DEF Thread, IInv, Types
<1>1. /\ arg' = arg
      /\ pc'[Updater] = pc[Updater]
      /\ DOMAIN services' = DOMAIN services
      /\ \A v \in Worker : v # w => pc'[v] = pc[v] /\ call'[v] = call[v]
  BY <1>0 DEF WorkerStep, choose, chooseEmpty, takeTurn, readChannel, Goto
\* No other worker is inside a call of choose.
<1>2. mlock = w \/ mlock = Free
  BY DEF WorkerStep, choose, chooseEmpty, takeTurn, readChannel, Goto, IInv, WorkerOK
<1>3. \A v \in Worker : v # w => ~Reads(v) /\ ~Reads(v)'
  BY <1>0, <1>1, <1>2 DEF Reads, IInv, WorkerOK
<1>4. services' = services => \A s \in DOMAIN services : Shown(s)' = Shown(s)
  BY <1>1 DEF Shown, Hidden
<1>5. ASSUME NEW s \in Service, choose(w, s)
      PROVE  UNCHANGED <<VisiblePool, picked[Watched]>>
  <2>1. services' = services /\ picked' = picked
    BY <1>5 DEF choose
  <2>2. ~Reads(w) /\ ~Reads(w)'
    BY <1>0, <1>5 DEF choose, Goto, Reads
  <2> QED BY <1>1, <1>3, <1>4, <2>1, <2>2, Unseen
<1>6. CASE chooseEmpty(w)
  <2>1. /\ services' = services
        /\ pc[w] = "choose"
        /\ pc'[w] = "idle"
        /\ plock[call[w].svc] = Free
        /\ services[call[w].svc].channels = <<>>
        /\ picked' = [picked EXCEPT ![call[w].svc] = NoChannel]
        /\ call[w].svc \in DOMAIN services
    BY <1>0, <1>6 DEF chooseEmpty, Goto, IInv, WorkerOK
  <2>2. ~Reads(w) /\ ~Reads(w)'
    BY <2>1 DEF Reads
  <2>3. VisiblePool' = VisiblePool
    BY <1>1, <1>3, <1>4, <2>1, <2>2, Unseen
  <2>4. CASE call[w].svc # Watched
    BY <1>0, <2>1, <2>3, <2>4
  <2>5. CASE call[w].svc = Watched
    <3>1. Shown(Watched) = services[Watched]
      BY <1>0, <2>1, <2>5, FreeIsShown
    <3>2. VisiblePool = services[Watched]
      BY <1>3, <2>1, <2>2, <2>5, <3>1 DEF Visible
    <3>3. picked'[Watched] = NoChannel
      BY <1>0, <2>1, <2>5
    <3> QED BY <2>1, <2>3, <2>5, <3>2, <3>3, AtomicChoose DEF Chosen
  <2> QED BY <2>4, <2>5
<1>7. CASE takeTurn(w)
  <2>1. /\ pc[w] = "choose"
        /\ pc'[w] = "read"
        /\ plock[call[w].svc] = Free
        /\ services' = [services EXCEPT ![call[w].svc] = Advanced(@)]
        /\ call' = [call EXCEPT ![w].old = services[call[w].svc].index]
        /\ picked' = picked
        /\ call[w].svc \in DOMAIN services
    BY <1>0, <1>7 DEF takeTurn, Goto, IInv, WorkerOK
  <2>2. /\ ~Reads(w)
        /\ call'[w].svc = call[w].svc
        /\ call'[w].old = services[call[w].svc].index
    BY <1>0, <2>1 DEF Reads
  <2>3. CASE call[w].svc # Watched
    <3>1. ~Reads(w)'
      BY <2>2, <2>3 DEF Reads
    <3>2. Watched \in DOMAIN services => Shown(Watched)' = Shown(Watched)
      BY <1>7, <2>3, takeTurnStep
    <3> QED BY <1>1, <1>3, <2>1, <2>2, <3>1, <3>2, Unseen
  <2>4. CASE call[w].svc = Watched
    <3> DEFINE p == services[Watched]
    <3>1. Shown(Watched) = p /\ PoolInv(p)
      BY <1>0, <2>1, <2>4, FreeIsShown DEF IInv, PoolsOK, Agrees
    <3>2. VisiblePool = p
      BY <1>3, <2>1, <2>2, <2>4, <3>1 DEF Visible
    <3>3. Reads(w)'
      BY <1>0, <2>1, <2>2, <2>4 DEF Reads
    <3>4. VisiblePool' = [services'[Watched] EXCEPT !.index = p.index]
      BY <1>1, <2>1, <2>2, <2>4, <3>3 DEF Visible
    <3>5. services'[Watched] = Advanced(p)
      BY <2>1, <2>4
    <3>6. [Advanced(p) EXCEPT !.index = p.index] = p
      <4>1. p = [hosts |-> p.hosts, channels |-> p.channels, index |-> p.index]
        BY <3>1 DEF PoolInv, IsPool
      <4>2. Advanced(p) = [hosts |-> p.hosts, channels |-> p.channels, index |-> Bump(p.index)]
        BY <4>1 DEF Advanced
      <4> QED BY <4>1, <4>2
    <3> QED BY <2>1, <3>2, <3>4, <3>5, <3>6
  <2> QED BY <2>3, <2>4
<1>8. CASE readChannel(w)
  <2>1. /\ pc[w] = "read"
        /\ pc'[w] = "idle"
        /\ services' = services
        /\ call[w].svc \in DOMAIN services
        /\ plock[call[w].svc] = w
        /\ plock' = [plock EXCEPT ![call[w].svc] = Free]
        /\ services[call[w].svc].channels # <<>>
        /\ services[call[w].svc].index = Bump(call[w].old)
        /\ picked' = [picked EXCEPT ![call[w].svc] =
             services[call[w].svc].channels[Slot(services[call[w].svc], call[w].old)]]
    BY <1>0, <1>8 DEF readChannel, Goto, IInv, WorkerOK
  <2>2. ~Reads(w)'
    BY <2>1 DEF Reads
  <2>3. CASE call[w].svc # Watched
    <3>1. ~Reads(w)
      BY <2>3 DEF Reads
    <3> QED BY <1>0, <1>1, <1>3, <1>4, <2>1, <2>2, <2>3, <3>1, Unseen
  <2>4. CASE call[w].svc = Watched
    <3> DEFINE p == services[Watched]
               q == [p EXCEPT !.index = call[w].old]
    <3>1. VisiblePool = q
      BY <2>1, <2>4 DEF Visible, Reads
    <3>2. Shown(Watched) = p /\ PoolInv(p)
      BY <1>0, <2>1, <2>4, FreeIsShown DEF IInv, PoolsOK, Agrees
    <3>3. VisiblePool' = p
      BY <1>1, <1>3, <1>4, <2>1, <2>2, <2>4, <3>2 DEF Visible
    <3>4. p = [hosts |-> p.hosts, channels |-> p.channels, index |-> Bump(call[w].old)]
      BY <2>1, <2>4, <3>2 DEF PoolInv, IsPool
    <3>5. q = [hosts |-> p.hosts, channels |-> p.channels, index |-> call[w].old]
      BY <3>4
    <3>6. Advanced(q) = p
      <4>1. \A r : r = [hosts |-> p.hosts, channels |-> p.channels, index |-> call[w].old] =>
              Advanced(r) =
                [hosts |-> p.hosts, channels |-> p.channels, index |-> Bump(call[w].old)]
        BY DEF Advanced
      <4> HIDE DEF p, q
      <4> QED BY <3>4, <3>5, <4>1
    <3>7. /\ q.channels = p.channels
          /\ q.index = call[w].old
      BY <3>5
    <3>8. picked'[Watched] = p.channels[Slot(p, call[w].old)]
      BY <1>0, <2>1, <2>4
    <3> HIDE DEF q
    <3>9. picked'[Watched] = Chosen(q)
      BY <2>1, <2>4, <3>7, <3>8 DEF Chosen, Slot
    <3> QED BY <2>1, <2>4, <3>1, <3>3, <3>6, <3>7, <3>9, AtomicChoose
  <2> QED BY <2>3, <2>4
<1> QED BY <1>5, <1>6, <1>7, <1>8 DEF WorkerStep

\* The locks make the methods atomic: what the callers of any one service can see
\* of its pool is a behaviour of ServiceChannel, whatever the threads of the other
\* services do.
THEOREM ServiceChannelImplemented == Spec => ImplementsServiceChannel
<1>1. Init => Atomic!Init
  <2> SUFFICES ASSUME Init
               PROVE  Atomic!Init
    OBVIOUS
  <2>1. Visible
    BY InitIInv, VisibleCases
  <2>2. Watched \notin DOMAIN services
    BY SMT DEF Init
  <2>3. VisiblePool = EmptyPool
    BY <2>1, <2>2 DEF Visible
  <2> QED BY <2>3, WatchedAssumption DEF Init, Atomic!Init, Atomic!EmptyPool, EmptyPool
<1>2. IInv' => Visible'
  BY VisibleCases, PTL
<1>3. IInv /\ [Next]_vars => [Atomic!Next]_(Atomic!vars)
  <2> SUFFICES ASSUME IInv, [Next]_vars
               PROVE  Atomic!Next \/ UNCHANGED <<VisiblePool, picked[Watched]>>
    BY DEF Atomic!vars
  <2>1. Visible /\ Visible'
    BY NextKeeps, VisibleCases, <1>2
  <2>2. CASE UpdaterStep
    BY <2>1, <2>2, UpdaterSimulates
  <2>3. CASE Callback
    BY <2>1, <2>3, CallbackSimulates
  <2>4. ASSUME NEW w \in Worker, NEW s \in Service, chooseUnknown(w, s) \/ choose(w, s)
        PROVE  Atomic!Next \/ UNCHANGED <<VisiblePool, picked[Watched]>>
    BY <2>1, <2>4, UnknownSimulates, WorkerSimulates
  <2>5. ASSUME NEW w \in Worker, WorkerStep(w)
        PROVE  Atomic!Next \/ UNCHANGED <<VisiblePool, picked[Watched]>>
    BY <2>1, <2>5, WorkerSimulates
  <2>6. CASE UNCHANGED vars
    BY <2>6 DEF vars, VisiblePool
  <2> QED BY <2>2, <2>3, <2>4, <2>5, <2>6 DEF Next
<1> QED BY <1>1, <1>3, LocksKeepPools, PTL DEF Spec, ImplementsServiceChannel, Atomic!Spec

================================================================================
