------------------------------- MODULE Discovery -------------------------------
(******************************************************************************)
(* Service registration and discovery (common/etcd.hpp) and what becomes of   *)
(* it in the ServiceManager of the server that discovers (common/channel.hpp):*)
(* server processes register a key under a lease, crash, start again; etcd    *)
(* expires leases and records every change of a key; one observing server     *)
(* lists the keys, then watches them, and keeps a pool of channels for each   *)
(* service it declared.                                                       *)
(*                                                                            *)
(* Callbacks are whole steps here: ServiceManager.tla shows that its locks    *)
(* make them so.  etcd and its client library are external: a watch delivers  *)
(* the changes after its creation, in order, in batches of any size.          *)
(******************************************************************************)
EXTENDS ChannelPool

CONSTANTS
  Inst,          \* server processes that register themselves
  KeyOf,         \* base_service + instance_name of each, as path segments
  HostOf,        \* access_host of each
  ListenFirst,   \* those whose main() starts the RPC server before it registers
  Needed,        \* those whose service the observing server calls
  Declared,      \* the service names it declares
  MaxStarts,     \* bound: how often a process is started
  Flaky,         \* hosts for which brpc::Channel::Init may fail
  Gap,           \* may the registry change between ls and the watch?
  QuickRestart,  \* may a process come back before its old lease expired?
  Partition,     \* may the lease of a running process expire?
  CallsFail      \* may ls, put and the watch stream fail?

ASSUME InstAssumption ==
  /\ KeyOf \in [Inst -> Seq(STRING) \ {<<>>}]
  /\ HostOf \in [Inst -> Host]
  /\ ListenFirst \cup Needed \subseteq Inst
  /\ MaxStarts \in Nat
ASSUME ModeAssumption == {Gap, QuickRestart, Partition, CallsFail} \subseteq BOOLEAN

Key == {KeyOf[i] : i \in Inst}
Lease == Inst \X (1 .. MaxStarts)

\* "/service/file_service/instance" is an instance of "/service/file_service".
getServiceName(key) == IF Len(key) = 1 THEN key ELSE Front(key)

Off == -1  \* the stage of a process that does not run; else the steps of main done

VARIABLES
  stage,   \* of each process
  starts,  \* how often each was started: the number of its current lease
  leases,  \* the leases etcd has granted and not yet revoked
  kv,      \* etcd: key -> [host, lease]
  log,     \* etcd: every change of a key, in order of revision
  phase,   \* of the Discovery: "build", "list", "watch" or "dead"
  todo,    \* callbacks of the current response not run yet
  rev,     \* the revision up to which the watch has delivered
  pools    \* the ServiceManager's pool of each declared service

etcd == <<leases, kv, log>>
procs == <<stage, starts>>
observer == <<phase, todo, rev, pools>>
vars == <<procs, etcd, observer>>

Init ==
  /\ stage = [i \in Inst |-> Off]
  /\ starts = [i \in Inst |-> 0]
  /\ leases = {}
  /\ kv = <<>>
  /\ log = <<>>
  /\ phase = "build"
  /\ todo = <<>>
  /\ rev = 0
  /\ pools = [s \in Declared |-> EmptyPool]

--------------------------------------------------------------------------------
(* The registering processes                                                  *)

\* main(): the user server starts its RPC server before it registers, the file
\* and speech servers afterwards.
Program(i) == IF i \in ListenFirst THEN <<"listen", "lease", "put">>
                                   ELSE <<"lease", "put", "listen">>

Running(i) == stage[i] # Off
At(i, op) == Running(i) /\ stage[i] < 3 /\ Program(i)[stage[i] + 1] = op
Did(i, op) == Running(i) /\ \E n \in 1 .. stage[i] : Program(i)[n] = op
CurrentLease(i) == <<i, starts[i]>>

\* The registry may change while the Discovery is between ls and its watch.
Quiet == ~Gap /\ phase = "list"

Put(i) == [put |-> TRUE, key |-> KeyOf[i], host |-> HostOf[i]]

start(i) ==
  /\ ~Running(i)
  /\ starts[i] < MaxStarts
  /\ QuickRestart \/ CurrentLease(i) \notin leases
  /\ starts' = [starts EXCEPT ![i] = @ + 1]
  /\ stage' = [stage EXCEPT ![i] = 0]
  /\ UNCHANGED <<etcd, observer>>

\* Registry(): leasekeepalive(3) grants a lease of three seconds.
grantLease(i) ==
  /\ At(i, "lease")
  /\ leases' = leases \cup {CurrentLease(i)}
  /\ stage' = [stage EXCEPT ![i] = @ + 1]
  /\ UNCHANGED <<starts, kv, log, observer>>

registry(i) ==
  /\ At(i, "put")
  /\ CurrentLease(i) \in leases
  /\ ~Quiet
  /\ kv' = [k \in DOMAIN kv \cup {KeyOf[i]} |->
              IF k = KeyOf[i] THEN [host |-> HostOf[i], lease |-> CurrentLease(i)]
                              ELSE kv[k]]
  /\ log' = Append(log, Put(i))
  /\ stage' = [stage EXCEPT ![i] = @ + 1]
  /\ UNCHANGED <<starts, leases, observer>>

\* registry() returned false; its caller goes on.
registryFailed(i) ==
  /\ At(i, "put")
  /\ CallsFail \/ CurrentLease(i) \notin leases
  /\ stage' = [stage EXCEPT ![i] = @ + 1]
  /\ UNCHANGED <<starts, etcd, observer>>

listen(i) ==
  /\ At(i, "listen")
  /\ stage' = [stage EXCEPT ![i] = @ + 1]
  /\ UNCHANGED <<starts, etcd, observer>>

\* The process crashes or exits.  ~Registry cancels the keep-alive and leaves
\* the lease to run out.
crash(i) ==
  /\ Running(i)
  /\ stage' = [stage EXCEPT ![i] = Off]
  /\ UNCHANGED <<starts, etcd, observer>>

\* Keys attached to a lease go with it.
expire(l) ==
  LET i == l[1]
      gone == {k \in DOMAIN kv : kv[k].lease = l}
  IN
  /\ l \in leases
  /\ Partition \/ ~(Running(i) /\ l = CurrentLease(i))
  /\ ~Quiet
  /\ leases' = leases \ {l}
  /\ kv' = [k \in DOMAIN kv \ gone |-> kv[k]]
  /\ log' = IF gone = {} THEN log
            ELSE Append(log, [put |-> FALSE, key |-> KeyOf[i],
                              host |-> kv[KeyOf[i]].host])
  /\ UNCHANGED <<procs, observer>>

--------------------------------------------------------------------------------
(* The observing server                                                       *)

\* The Discovery constructor lists the keys; it runs put_cb for each of them.
ls ==
  /\ phase = "build"
  /\ phase' = "list"
  /\ \E keys \in SetToSeqs(DOMAIN kv) :
       todo' = [n \in DOMAIN keys |->
                  [put |-> TRUE, key |-> keys[n], host |-> kv[keys[n]].host]]
  /\ UNCHANGED <<procs, etcd, rev, pools>>

\* An error is logged, and the constructor goes on without entries.
lsFailed ==
  /\ CallsFail
  /\ phase = "build"
  /\ phase' = "list"
  /\ UNCHANGED <<procs, etcd, todo, rev, pools>>

\* Faulty: the watch starts one revision late.
watchLate ==
  /\ phase = "list"
  /\ todo = <<>>
  /\ phase' = "watch"
  /\ rev' = Len(log) + 1
  /\ UNCHANGED <<procs, etcd, todo, pools>>

\* Faulty: the watch starts at the first revision, also of what ls has listed.
watchFromStart ==
  /\ phase = "list"
  /\ todo = <<>>
  /\ phase' = "watch"
  /\ rev' = 0
  /\ UNCHANGED <<procs, etcd, todo, pools>>

\* etcd::Watcher is created: it delivers what changes from now on.
watch ==
  /\ phase = "list"
  /\ todo = <<>>
  /\ phase' = "watch"
  /\ rev' = Len(log)
  /\ UNCHANGED <<procs, etcd, todo, pools>>

\* Faulty: callback handles the last event of a response only.
respondLast ==
  /\ phase = "watch"
  /\ todo = <<>>
  /\ \E n \in rev + 1 .. Len(log) :
       /\ todo' = <<log[n]>>
       /\ rev' = n
  /\ UNCHANGED <<procs, etcd, phase, pools>>

\* Faulty: callback returns after the first event of a response.
respondFirst ==
  /\ phase = "watch"
  /\ todo = <<>>
  /\ \E n \in rev + 1 .. Len(log) :
       /\ todo' = <<log[rev + 1]>>
       /\ rev' = n
  /\ UNCHANGED <<procs, etcd, phase, pools>>

\* A response of the watch: callback runs for each of its events.
respond ==
  /\ phase = "watch"
  /\ todo = <<>>
  /\ \E n \in rev + 1 .. Len(log) :
       /\ todo' = SubSeq(log, rev + 1, n)
       /\ rev' = n
  /\ UNCHANGED <<procs, etcd, phase, pools>>

\* Faulty: a new watch is made at the current revision, without another listing.
streamErrorRewatch ==
  /\ CallsFail
  /\ phase = "watch"
  /\ todo = <<>>
  /\ rev' = Len(log)
  /\ UNCHANGED <<procs, etcd, phase, todo, pools>>

\* The stream ends: callback logs the error response, and nothing comes after it.
streamError ==
  /\ CallsFail
  /\ phase = "watch"
  /\ todo = <<>>
  /\ phase' = "dead"
  /\ UNCHANGED <<procs, etcd, todo, rev, pools>>

onServiceOnline(s, h) ==
  \/ \E id \in ChannelId \ UNION {LiveIds(pools[d]) : d \in Declared} :
       pools' = [pools EXCEPT ![s] = Appended(@, [host |-> h, id |-> id])]
  \/ h \in Flaky /\ UNCHANGED pools

onServiceOffline(s, h) == pools' = [pools EXCEPT ![s] = Removed(@, h)]

\* Faulty: a deletion is read from ev.kv(), which has no value, not ev.prev_kv().
callbackCurrentKv ==
  /\ todo # <<>>
  /\ todo' = Tail(todo)
  /\ LET e == Head(todo)
         s == getServiceName(e.key)
     IN  \/ (s \notin Declared \/ ~e.put) /\ UNCHANGED pools
         \/ s \in Declared /\ e.put /\ onServiceOnline(s, e.host)
  /\ UNCHANGED <<procs, etcd, phase, rev>>

\* Faulty: a key belongs to any service it begins like.
callbackPrefix ==
  /\ todo # <<>>
  /\ todo' = Tail(todo)
  /\ LET e == Head(todo)
         like == {s \in Declared : s[1] = e.key[1]}
     IN  \/ like = {} /\ UNCHANGED pools
         \/ \E s \in like : IF e.put THEN onServiceOnline(s, e.host) ELSE onServiceOffline(s, e.host)
  /\ UNCHANGED <<procs, etcd, phase, rev>>

\* One put_cb or del_cb: a service nobody declared is ignored.
callback ==
  /\ todo # <<>>
  /\ todo' = Tail(todo)
  /\ LET e == Head(todo)
         s == getServiceName(e.key)
     IN  \/ s \notin Declared /\ UNCHANGED pools
         \/ s \in Declared /\ e.put /\ onServiceOnline(s, e.host)
         \/ s \in Declared /\ ~e.put /\ onServiceOffline(s, e.host)
  /\ UNCHANGED <<procs, etcd, phase, rev>>

Process(i) ==
  start(i) \/ grantLease(i) \/ registry(i) \/ registryFailed(i) \/ listen(i) \/ crash(i)

Observer == ls \/ lsFailed \/ watch \/ respond \/ streamError \/ callback

Next ==
  \/ \E i \in Inst : Process(i)
  \/ \E l \in Lease : expire(l)
  \/ Observer

Spec == Init /\ [][Next]_vars

(* The threads of the observing server run, etcd answers and delivers, a      *)
(* lease nobody renews expires.  A process may stay down, and a running one   *)
(* finishes main(); nothing makes it crash.                                   *)
FairSpec ==
  /\ Spec
  /\ WF_vars(ls \/ watch \/ respond \/ callback)
  /\ \A l \in Lease : WF_vars(~(Running(l[1]) /\ l = CurrentLease(l[1])) /\ expire(l))
  /\ \A i \in Inst : WF_vars(grantLease(i) \/ registry(i) \/ listen(i))

--------------------------------------------------------------------------------
(* Properties                                                                 *)

TypeOK ==
  /\ stage \in [Inst -> Off .. 3]
  /\ starts \in [Inst -> 0 .. MaxStarts]
  /\ leases \subseteq Lease
  /\ DOMAIN kv \subseteq Key
  /\ \A k \in DOMAIN kv : kv[k].host \in Host /\ kv[k].lease \in leases
  /\ phase \in {"build", "list", "watch", "dead"}
  /\ rev \in 0 .. Len(log)
  /\ \A s \in Declared : IsPool(pools[s])

Registered(s) == {kv[k].host : k \in {x \in DOMAIN kv : getServiceName(x) = s}}

\* The observing server has handled everything the watch has to tell.
CaughtUp == phase = "watch" /\ todo = <<>> /\ rev = Len(log)

\* "先进行服务发现, 先获取到当前已有的数据 / 然后进行事件监控" (etcd.hpp:57, 68): listing and
\* watching together miss nothing.  Once every event is handled, the hosts in
\* rotation are the hosts registered.
Agreement ==
  CaughtUp => \A s \in Declared : HostsInRotation(pools[s]) = Registered(s)

\* A pool calls only hosts that were announced under its own service name, and
\* holds nothing of services nobody declared, whatever fails or comes late.
OnlyAnnounced ==
  \A s \in Declared : \A h \in HostsInRotation(pools[s]) :
    \E n \in DOMAIN log : log[n].put /\ getServiceName(log[n].key) = s /\ log[n].host = h

\* A host is in rotation once: the share of calls it gets is that of its peers.
OneTurnEach ==
  \A s \in Declared : \A i, j \in DOMAIN pools[s].channels :
    pools[s].channels[i].host = pools[s].channels[j].host => i = j

\* Failed listings, puts, channels and streams leave hosts out of the rotation, never
\* one in it that is gone: once every event is handled, calls go to registered hosts
\* only.  A deletion of a host that never joined changes nothing (channel.hpp:48-54),
\* and a watcher that was told of an error tells nothing more (etcd.hpp:74-78), so
\* it cannot skip a deletion.
OnlyRegistered ==
  CaughtUp => \A s \in Declared : HostsInRotation(pools[s]) \subseteq Registered(s)

\* "文件管理子服务名称" (user_server.cc:19), the name under which the observing server
\* looks for the servers it calls: they are found under the names it declares.
NeededAreFound ==
  CaughtUp => \A i \in Needed : KeyOf[i] \in DOMAIN kv =>
    \E s \in Declared : HostOf[i] \in HostsInRotation(pools[s])

\* A server that died for good is not called for ever: its lease runs out, and
\* the deletion reaches the pools.
DeadNodeLeaves ==
  \A i \in Inst :
    <>[](~Running(i)) =>
      <>[](\A s \in Declared : HostOf[i] \notin HostsInRotation(pools[s]))

\* A needed server that runs and whose lease lives gets calls, although it may
\* have been down, removed and announced again before.
LiveNodeJoins ==
  \A i \in Needed :
    <>[](Did(i, "put") /\ CurrentLease(i) \in leases) =>
      <>[](\E s \in Declared : HostOf[i] \in HostsInRotation(pools[s]))

\* The view the handlers have of the registry, change by change.
Services == {getServiceName(k) : k \in Key} \cup Declared

Directory == INSTANCE ServiceDirectory WITH
  Service <- Services,
  log <- [n \in DOMAIN log |-> [put |-> log[n].put,
                                service |-> getServiceName(log[n].key),
                                host |-> log[n].host]],
  loaded <- phase \in {"watch", "dead"},
  seen <- IF phase \in {"watch", "dead"} THEN rev - Len(todo) ELSE 0,
  view <- [s \in Declared |-> IF phase \in {"watch", "dead"}
                              THEN HostsInRotation(pools[s]) ELSE {}]

ImplementsDirectory == Directory!Spec

================================================================================
