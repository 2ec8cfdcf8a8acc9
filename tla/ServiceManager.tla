----------------------------- MODULE ServiceManager ----------------------------
(******************************************************************************)
(* The ServiceManager of a server (common/channel.hpp) at the grain of its    *)
(* mutexes.  One thread, the Updater, runs the registry callbacks: first the  *)
(* thread that constructs the Discovery, then the watcher's, never both at    *)
(* once.  The Workers are brpc's threads: they run the RPC handlers, which    *)
(* call choose.                                                               *)
(*                                                                            *)
(* Two levels of locks: the manager's _mutex guards _follow_services and      *)
(* _services, each ServiceChannel's _mutex its own members.  choose takes the *)
(* second while it holds the first; append and remove are called after the    *)
(* first was released.  A section that touches nothing a concurrent section   *)
(* can see half-done is one step; the others are taken apart.                 *)
(******************************************************************************)
EXTENDS ChannelPool

CONSTANTS
  Service,     \* service names the registry may announce
  Declared,    \* those the builder declares before the discovery starts
  Flaky,       \* hosts for which brpc::Channel::Init may fail
  Reannounce,  \* hosts that may be announced again while a pool has them
  Worker,      \* brpc worker threads
  Updater,     \* the thread of the registry callbacks
  Free         \* the owner of a mutex nobody holds

ASSUME DeclaredAssumption == Declared \subseteq Service
ASSUME FlakyAssumption == Flaky \subseteq Host
ASSUME ReannounceAssumption == Reannounce \subseteq Host
ASSUME ThreadAssumption == Updater \notin Worker /\ Free \notin Worker \cup {Updater}

Thread == Worker \cup {Updater}

VARIABLES
  follow,    \* _follow_services
  services,  \* _services: a pool for each service that came online
  mlock,     \* owner of ServiceManager::_mutex
  plock,     \* owner of each ServiceChannel::_mutex
  pc,        \* where each thread is
  arg,       \* the Updater's arguments and new channel
  call,      \* for each Worker the service it asked for and the old _index
  picked     \* history: what choose returned last, for each service

vars == <<follow, services, mlock, plock, pc, arg, call, picked>>

NoArg == [svc |-> Free, host |-> Free, chan |-> NoChannel]
NoCall == [svc |-> Free, old |-> 0]

Init ==
  /\ follow = {}
  /\ services = <<>>
  /\ mlock = Free
  /\ plock = [s \in Service |-> Free]
  /\ pc = [t \in Thread |-> IF t = Updater THEN "build" ELSE "idle"]
  /\ arg = NoArg
  /\ call = [w \in Worker |-> NoCall]
  /\ picked = [s \in Service |-> NoChannel]

Goto(t, from, to) == pc[t] = from /\ pc' = [pc EXCEPT ![t] = to]

--------------------------------------------------------------------------------
(* The Updater                                                                *)

\* make_discovery_object declares the services, then starts the discovery.
declared(s) ==
  /\ pc[Updater] = "build"
  /\ mlock = Free
  /\ s \in Declared \ follow
  /\ follow' = follow \cup {s}
  /\ UNCHANGED <<services, mlock, plock, pc, arg, call, picked>>

startDiscovery ==
  /\ Goto(Updater, "build", "idle")
  /\ follow = Declared
  /\ UNCHANGED <<follow, services, mlock, plock, arg, call, picked>>

\* _services once it has a pool for s: the one it had, or an empty one.
Managing(s) ==
  [t \in DOMAIN services \cup {s} |->
     IF t \in DOMAIN services THEN services[t] ELSE EmptyPool]

\* The registry puts the key of h: again while the pool has h only if h is one of
\* the hosts that come back before their lease ran out.
Announced(s, h) ==
  s \in DOMAIN services /\ h \notin Reannounce => h \notin DOMAIN services[s].hosts

\* Faulty: a service nobody declared is managed too.
onServiceOnlineAll(s, h) ==
  /\ Goto(Updater, "idle", "init")
  /\ Announced(s, h)
  /\ mlock = Free
  /\ services' = Managing(s)
  /\ arg' = [svc |-> s, host |-> h, chan |-> NoChannel]
  /\ UNCHANGED <<follow, mlock, plock, call, picked>>

\* The section under the manager's lock; append follows without that lock.
onServiceOnline(s, h) ==
  /\ Goto(Updater, "idle", "init")
  /\ Announced(s, h)
  /\ mlock = Free
  /\ s \in follow
  /\ services' = Managing(s)
  /\ arg' = [svc |-> s, host |-> h, chan |-> NoChannel]
  /\ UNCHANGED <<follow, mlock, plock, call, picked>>

onServiceOffline(s, h) ==
  /\ Goto(Updater, "idle", "erase")
  /\ mlock = Free
  /\ s \in follow \cap DOMAIN services
  /\ arg' = [svc |-> s, host |-> h, chan |-> NoChannel]
  /\ UNCHANGED <<follow, services, mlock, plock, call, picked>>

\* append, before its lock: the channel object is made and initialised ...
initChannel ==
  /\ Goto(Updater, "init", "insert")
  /\ \E id \in ChannelId \ UNION {LiveIds(services[s]) : s \in DOMAIN services} :
        arg' = [arg EXCEPT !.chan = [host |-> arg.host, id |-> id]]
  /\ UNCHANGED <<follow, services, mlock, plock, call, picked>>

\* ... or its initialisation fails and append returns.
initFailed ==
  /\ Goto(Updater, "init", "idle")
  /\ arg.host \in Flaky
  /\ arg' = NoArg
  /\ UNCHANGED <<follow, services, mlock, plock, call, picked>>

\* Faulty: append without its lock.
insertHostUnlocked ==
  /\ Goto(Updater, "insert", "push")
  /\ services' = [services EXCEPT ![arg.svc] = InsertHost(@, arg.chan)]
  /\ UNCHANGED <<follow, mlock, plock, arg, call, picked>>

\* append, under its lock: _hosts.insert, then _channels.push_back.
insertHost ==
  /\ Goto(Updater, "insert", "push")
  /\ plock[arg.svc] = Free
  /\ plock' = [plock EXCEPT ![arg.svc] = Updater]
  /\ services' = [services EXCEPT ![arg.svc] = InsertHost(@, arg.chan)]
  /\ UNCHANGED <<follow, mlock, arg, call, picked>>

pushChannel ==
  /\ Goto(Updater, "push", "idle")
  /\ services' = [services EXCEPT ![arg.svc] = PushChannel(@, arg.chan)]
  /\ plock' = [plock EXCEPT ![arg.svc] = Free]
  /\ arg' = NoArg
  /\ UNCHANGED <<follow, mlock, call, picked>>

\* remove of a host that is not in _hosts.
removeUnknown ==
  /\ Goto(Updater, "erase", "idle")
  /\ plock[arg.svc] = Free
  /\ arg.host \notin DOMAIN services[arg.svc].hosts
  /\ arg' = NoArg
  /\ UNCHANGED <<follow, services, mlock, plock, call, picked>>

\* Faulty: remove does not wait for its lock.
eraseChannelUnlocked ==
  /\ Goto(Updater, "erase", "forget")
  /\ arg.host \in DOMAIN services[arg.svc].hosts
  /\ services' = [services EXCEPT ![arg.svc] = EraseChannel(@, arg.host)]
  /\ UNCHANGED <<follow, mlock, plock, arg, call, picked>>

\* remove, under its lock: the loop over _channels, then _hosts.erase.
eraseChannel ==
  /\ Goto(Updater, "erase", "forget")
  /\ plock[arg.svc] = Free
  /\ arg.host \in DOMAIN services[arg.svc].hosts
  /\ plock' = [plock EXCEPT ![arg.svc] = Updater]
  /\ services' = [services EXCEPT ![arg.svc] = EraseChannel(@, arg.host)]
  /\ UNCHANGED <<follow, mlock, arg, call, picked>>

eraseHost ==
  /\ Goto(Updater, "forget", "idle")
  /\ services' = [services EXCEPT ![arg.svc] = EraseHost(@, arg.host)]
  /\ plock' = [plock EXCEPT ![arg.svc] = Free]
  /\ arg' = NoArg
  /\ UNCHANGED <<follow, mlock, call, picked>>

UpdaterStep ==
  \/ startDiscovery \/ initChannel \/ initFailed \/ insertHost \/ pushChannel
  \/ removeUnknown \/ eraseChannel \/ eraseHost

Callback ==
  \/ \E s \in Service : declared(s)
  \/ \E s \in Service, h \in Host : onServiceOnline(s, h) \/ onServiceOffline(s, h)

--------------------------------------------------------------------------------
(* The Workers                                                                *)

\* choose of a service nothing was announced for.
chooseUnknown(w, s) ==
  /\ mlock = Free
  /\ pc[w] = "idle"
  /\ s \notin DOMAIN services
  /\ picked' = [picked EXCEPT ![s] = NoChannel]
  /\ UNCHANGED <<follow, services, mlock, plock, pc, arg, call>>

\* The manager's lock is kept for the whole call of ServiceChannel::choose.
choose(w, s) ==
  /\ Goto(w, "idle", "choose")
  /\ mlock = Free
  /\ mlock' = w
  /\ s \in DOMAIN services
  /\ call' = [call EXCEPT ![w] = [svc |-> s, old |-> 0]]
  /\ UNCHANGED <<follow, services, plock, arg, picked>>

\* Faulty: choose waits for a node instead of returning null.
chooseEmptyWaits(w) ==
  /\ pc[w] = "choose"
  /\ plock[call[w].svc] = Free
  /\ services[call[w].svc].channels = <<>>
  /\ UNCHANGED vars

chooseEmpty(w) ==
  LET s == call[w].svc IN
  /\ Goto(w, "choose", "idle")
  /\ plock[s] = Free
  /\ services[s].channels = <<>>
  /\ mlock' = Free
  /\ picked' = [picked EXCEPT ![s] = NoChannel]
  /\ call' = [call EXCEPT ![w] = NoCall]
  /\ UNCHANGED <<follow, services, plock, arg>>

\* `idx = _index++ % _channels.size()' ...
takeTurn(w) ==
  LET s == call[w].svc IN
  /\ Goto(w, "choose", "read")
  /\ plock[s] = Free
  /\ services[s].channels # <<>>
  /\ plock' = [plock EXCEPT ![s] = w]
  /\ call' = [call EXCEPT ![w].old = services[s].index]
  /\ services' = [services EXCEPT ![s] = Advanced(@)]
  /\ UNCHANGED <<follow, mlock, arg, picked>>

\* Faulty: the element is looked up with the counter after its increment.
readChannelNext(w) ==
  LET s == call[w].svc IN
  /\ Goto(w, "read", "idle")
  /\ picked' = [picked EXCEPT ![s] =
                  services[s].channels[Slot(services[s], services[s].index)]]
  /\ plock' = [plock EXCEPT ![s] = Free]
  /\ mlock' = Free
  /\ call' = [call EXCEPT ![w] = NoCall]
  /\ UNCHANGED <<follow, services, arg>>

\* ... `return _channels[idx]': both locks are released by the return.
readChannel(w) ==
  LET s == call[w].svc IN
  /\ Goto(w, "read", "idle")
  /\ picked' = [picked EXCEPT ![s] =
                  services[s].channels[Slot(services[s], call[w].old)]]
  /\ plock' = [plock EXCEPT ![s] = Free]
  /\ mlock' = Free
  /\ call' = [call EXCEPT ![w] = NoCall]
  /\ UNCHANGED <<follow, services, arg>>

WorkerStep(w) == chooseEmpty(w) \/ takeTurn(w) \/ readChannel(w)

Next ==
  \/ UpdaterStep
  \/ Callback
  \/ \E w \in Worker, s \in Service : chooseUnknown(w, s) \/ choose(w, s)
  \/ \E w \in Worker : WorkerStep(w)

Spec == Init /\ [][Next]_vars

(* Weak fairness of the threads inside a call: a thread that can run does.    *)
(* Nothing is assumed of the order in which a std::mutex admits its waiters.  *)
FairSpec ==
  /\ Spec
  /\ WF_vars(UpdaterStep)
  /\ \A w \in Worker : WF_vars(WorkerStep(w))

--------------------------------------------------------------------------------
(* Properties                                                                 *)

TypeOK ==
  /\ follow \subseteq Declared
  /\ DOMAIN services \subseteq follow
  /\ \A s \in DOMAIN services : IsPool(services[s])
  /\ mlock \in Worker \cup {Free}
  /\ plock \in [Service -> Thread \cup {Free}]
  /\ \A w \in Worker : pc[w] \in {"idle", "choose", "read"}
  /\ pc[Updater] \in {"build", "idle", "init", "insert", "push", "erase", "forget"}

\* Between `_index++ % _channels.size()' and `_channels[idx]' no callback changes
\* the vector under the caller: the element it reads exists.
TurnStillThere ==
  \A w \in Worker : pc[w] = "read" =>
    LET p == services[call[w].svc]
    IN  p.channels # <<>> /\ Slot(p, call[w].old) \in DOMAIN p.channels

\* A pool is only seen between two complete method calls, although append and
\* remove change map and vector statement by statement: whenever its mutex is free,
\* the channel of every host of the map is in the vector, once, and every channel
\* of the vector is the map's.  The one exception is the second channel of a host
\* announced again, which the map never gets (channel.hpp:42-43).
UnlockedConsistent ==
  \A s \in DOMAIN services : plock[s] = Free =>
    LET p == services[s] IN
    /\ IsInjective(p.channels)
    /\ \A h \in DOMAIN p.hosts :
         \E i \in DOMAIN p.channels : p.channels[i] = p.hosts[h]
    /\ \A i \in DOMAIN p.channels : p.channels[i].host \notin Reannounce =>
         /\ p.channels[i].host \in DOMAIN p.hosts
         /\ p.hosts[p.channels[i].host] = p.channels[i]

\* The call of choose that holds the manager's lock waits for a pool's lock, and
\* the callback that holds the pool's lock needs the manager's for its next event:
\* yet every choose returns, even if callbacks never stop.
ChooseReturns == \A w \in Worker : pc[w] = "choose" ~> pc[w] = "idle"

================================================================================
