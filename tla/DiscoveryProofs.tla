---------------------------- MODULE DiscoveryProofs ----------------------------
(******************************************************************************)
(* What registration and discovery keep true for every number of processes,   *)
(* services and hosts: whatever fails, nothing is called that was not         *)
(* announced; and as long as nothing slips between listing and watching and   *)
(* no process outruns its lease, the pools are the registry, one change at a  *)
(* time, or a part of it when calls fail.                                     *)
(******************************************************************************)
EXTENDS Discovery, ChannelPoolProofs, FiniteSetTheorems

--------------------------------------------------------------------------------
(* Whatever fails                                                             *)

Event == [put : BOOLEAN, key : Key, host : Host]

\* There was a put of the key with this host.
Announced(k, h) ==
  \E n \in DOMAIN log : log[n] = [put |-> TRUE, key |-> k, host |-> h]

\* Processes and leases: a lease is granted to a life of a process that began.
ProcsOK ==
  /\ stage \in [Inst -> Off .. 3]
  /\ starts \in [Inst -> 0 .. MaxStarts]
  /\ \A i \in Inst : Running(i) => starts[i] >= 1
  /\ leases \subseteq Lease
  /\ \A l \in leases : l[2] <= starts[l[1]]

\* The registry: a key is there under a lease of the process that put it, which
\* is past that put if it still runs.
RegistryOK ==
  /\ log \in Seq(Event)
  /\ IsFiniteSet(DOMAIN kv)
  /\ kv \in [DOMAIN kv -> [host : Host, lease : Lease]]
  /\ \A k \in DOMAIN kv :
       /\ k \in Key
       /\ kv[k].lease \in leases
       /\ k = KeyOf[kv[k].lease[1]]
       /\ kv[k].host = HostOf[kv[k].lease[1]]
       /\ Announced(k, kv[k].host)
       /\ \A i \in Inst : Running(i) /\ kv[k].lease = CurrentLease(i) => Did(i, "put")

\* The observer: what it still has to handle and what it calls was announced.
ObserverOK ==
  /\ phase \in {"build", "list", "watch", "dead"}
  /\ rev \in 0 .. Len(log)
  /\ todo \in Seq(Event)
  /\ \A n \in DOMAIN todo : todo[n].put => Announced(todo[n].key, todo[n].host)
  /\ pools = [s \in Declared |-> pools[s]]
  /\ \A s \in Declared : PoolInv(pools[s])
  /\ OnlyAnnounced

IInv == ProcsOK /\ RegistryOK /\ ObserverOK

\* The instances as the assumptions have them.
LEMMA Instances ==
  ASSUME NEW i \in Inst
  PROVE  KeyOf[i] \in Key /\ HostOf[i] \in Host /\ Put(i) \in Event
BY InstAssumption DEF Key, Put, Event

\* What a process has done of its main.
LEMMA Stages ==
  ASSUME ProcsOK, NEW i \in Inst
  PROVE  /\ stage[i] \in Off .. 3 /\ starts[i] \in 0 .. MaxStarts
         /\ Running(i) <=> stage[i] >= 0
         /\ At(i, "lease") => stage[i] = (IF i \in ListenFirst THEN 1 ELSE 0)
         /\ At(i, "put") => stage[i] = (IF i \in ListenFirst THEN 2 ELSE 1)
         /\ At(i, "listen") => stage[i] = (IF i \in ListenFirst THEN 0 ELSE 2)
         /\ Did(i, "put") <=> stage[i] >= (IF i \in ListenFirst THEN 3 ELSE 2)
         /\ Did(i, "listen") <=> stage[i] >= (IF i \in ListenFirst THEN 1 ELSE 3)
<1> DEFINE p == Program(i)
<1>1. stage[i] \in Off .. 3 /\ starts[i] \in 0 .. MaxStarts
  BY DEF ProcsOK
<1>2. \/ i \in ListenFirst /\ p[1] = "listen" /\ p[2] = "lease" /\ p[3] = "put"
      \/ i \notin ListenFirst /\ p[1] = "lease" /\ p[2] = "put" /\ p[3] = "listen"
  BY DEF Program
<1> HIDE DEF p
<1>3. Running(i) <=> stage[i] >= 0
  BY <1>1, SMT DEF Running, Off
<1>4. /\ At(i, "lease") => stage[i] = (IF i \in ListenFirst THEN 1 ELSE 0)
      /\ At(i, "put") => stage[i] = (IF i \in ListenFirst THEN 2 ELSE 1)
      /\ At(i, "listen") => stage[i] = (IF i \in ListenFirst THEN 0 ELSE 2)
  BY <1>1, <1>2, <1>3, SMT DEF At, p, Off
<1>5. /\ Did(i, "put") <=> stage[i] >= (IF i \in ListenFirst THEN 3 ELSE 2)
      /\ Did(i, "listen") <=> stage[i] >= (IF i \in ListenFirst THEN 1 ELSE 3)
  <2>1. ASSUME NEW op
        PROVE  Did(i, op) <=>
                 \/ stage[i] >= 1 /\ p[1] = op
                 \/ stage[i] >= 2 /\ p[2] = op
                 \/ stage[i] >= 3 /\ p[3] = op
    BY <1>1, <1>3, SMT DEF Did, p, Off
  <2> QED BY <1>1, <1>2, <2>1, SMT DEF Off
<1> QED BY <1>1, <1>3, <1>4, <1>5

\* What was announced stays announced, and so do the pools that rely on it.
LEMMA AnnouncedStays ==
  ASSUME log \in Seq(Event), log' \in Seq(Event), Len(log) <= Len(log'),
         \A n \in 1 .. Len(log) : log'[n] = log[n]
  PROVE  /\ \A k, h : Announced(k, h) => Announced(k, h)'
         /\ DOMAIN log \subseteq DOMAIN log'
         /\ \A n \in DOMAIN log : log'[n] = log[n]
<1>1. DOMAIN log = 1 .. Len(log) /\ DOMAIN log' = 1 .. Len(log') /\ Len(log) \in Nat /\ Len(log') \in Nat
  BY LenProperties
<1>2. DOMAIN log \subseteq DOMAIN log'
  BY <1>1, SMT
<1> QED BY <1>1, <1>2 DEF Announced

\* A step of the others leaves the observer what it knows.
LEMMA ObserverStays ==
  ASSUME IInv, UNCHANGED observer, log' \in Seq(Event), Len(log) <= Len(log'),
         \A n \in 1 .. Len(log) : log'[n] = log[n]
  PROVE  ObserverOK'
<1>1. /\ \A k, h : Announced(k, h) => Announced(k, h)'
      /\ DOMAIN log \subseteq DOMAIN log'
      /\ \A n \in DOMAIN log : log'[n] = log[n]
      /\ Len(log) \in Nat /\ Len(log') \in Nat
  BY AnnouncedStays, LenProperties DEF IInv, RegistryOK
<1>2. UNCHANGED <<phase, todo, rev, pools>>
  BY DEF observer
<1>3. rev' \in 0 .. Len(log')
  BY <1>1, <1>2, SMT DEF IInv, ObserverOK
<1>4. OnlyAnnounced'
  BY <1>1, <1>2 DEF IInv, ObserverOK, OnlyAnnounced
<1> QED BY <1>1, <1>2, <1>3, <1>4 DEF IInv, ObserverOK

LEMMA InitIInv == Init => IInv
<1> SUFFICES ASSUME Init
             PROVE  IInv
  OBVIOUS
<1>1. DOMAIN kv = {} /\ DOMAIN todo = {} /\ DOMAIN log = {}
  BY SMT DEF Init
<1>2. ProcsOK
  BY InstAssumption, SMT DEF Init, ProcsOK, Running, Off
<1>3. RegistryOK
  <2>1. kv \in [DOMAIN kv -> [host : Host, lease : Lease]]
    BY <1>1, SMT DEF Init
  <2> QED BY <1>1, <2>1, FS_EmptySet, EmptySeq DEF Init, RegistryOK
<1>4. PoolInv(EmptyPool) /\ DOMAIN EmptyPool.channels = {}
  <2>1. /\ EmptyPool.hosts = <<>> /\ EmptyPool.channels = <<>> /\ EmptyPool.index = 0
        /\ EmptyPool = [hosts |-> <<>>, channels |-> <<>>, index |-> 0]
    BY DEF EmptyPool
  <2>2. 0 \in Index
    BY RangeAssumption, SMT DEF Index
  <2>3. /\ DOMAIN EmptyPool.hosts = {} /\ DOMAIN EmptyPool.channels = {}
        /\ EmptyPool.hosts \in [DOMAIN EmptyPool.hosts -> Channel]
        /\ EmptyPool.channels \in Seq(Channel)
    BY <2>1, SMT
  <2> QED BY <2>1, <2>2, <2>3 DEF PoolInv, IsPool, MapInRotation, IsInjective
<1>5. /\ rev \in 0 .. Len(log)
      /\ pools = [s \in Declared |-> pools[s]]
      /\ \A s \in Declared : pools[s] = EmptyPool
  BY EmptySeq, SMT DEF Init
<1>6. ObserverOK
  BY <1>1, <1>4, <1>5 DEF Init, ObserverOK, OnlyAnnounced, HostsInRotation
<1> QED BY <1>2, <1>3, <1>6 DEF IInv

--------------------------------------------------------------------------------
(* Steps of the processes                                                     *)

\* A process that goes on with its main: what it has done stays done.
LEMMA Advances ==
  ASSUME IInv, NEW i \in Inst, Running(i), stage[i] < 3,
         stage' = [stage EXCEPT ![i] = @ + 1], UNCHANGED starts
  PROVE  /\ stage' \in [Inst -> Off .. 3]
         /\ stage'[i] = stage[i] + 1
         /\ \A j \in Inst : Running(j)' <=> Running(j)
         /\ \A j \in Inst : Did(j, "put") => Did(j, "put")'
         /\ At(i, "put") => Did(i, "put")'
<1>1. stage \in [Inst -> Off .. 3] /\ stage[i] \in 0 .. 2 /\ stage'[i] = stage[i] + 1
  BY SMT DEF IInv, ProcsOK, Running, Off
<1>2. stage' \in [Inst -> Off .. 3]
  BY <1>1, SMT DEF Off
<1>3. \A j \in Inst \ {i} : stage'[j] = stage[j]
  BY <1>1
<1>4. /\ Running(i)' /\ Running(i)
      /\ 1 .. stage[i] \subseteq 1 .. stage'[i]
      /\ stage[i] + 1 \in 1 .. stage'[i]
  BY <1>1, SMT DEF Running, Off
<1>5. \A j \in Inst : Running(j)' <=> Running(j)
  BY <1>3, <1>4 DEF Running
<1>6. ASSUME NEW j \in Inst, Did(j, "put")
      PROVE  Did(j, "put")'
  <2>1. CASE j = i
    BY <1>4, <1>6, <2>1 DEF Did
  <2>2. CASE j # i
    BY <1>3, <1>5, <1>6, <2>2 DEF Did
  <2> QED BY <2>1, <2>2
<1>7. At(i, "put") => Did(i, "put")'
  BY <1>4 DEF At, Did
<1> QED BY <1>1, <1>2, <1>5, <1>6, <1>7

\* start: the lease of the new life is newer than every lease of the old ones.
LEMMA startKeeps ==
  ASSUME IInv, NEW i \in Inst, start(i)
  PROVE  IInv'
<1>1. /\ ~Running(i) /\ starts[i] < MaxStarts
      /\ starts' = [starts EXCEPT ![i] = @ + 1]
      /\ stage' = [stage EXCEPT ![i] = 0]
      /\ UNCHANGED <<leases, kv, log>> /\ UNCHANGED observer
  BY DEF start, etcd
<1>2. /\ stage \in [Inst -> Off .. 3] /\ starts \in [Inst -> 0 .. MaxStarts]
      /\ log \in Seq(Event) /\ Len(log) \in Nat
  BY LenProperties DEF IInv, ProcsOK, RegistryOK
<1>3. /\ stage' \in [Inst -> Off .. 3] /\ starts' \in [Inst -> 0 .. MaxStarts]
      /\ starts'[i] = starts[i] + 1 /\ starts[i] \in Nat
      /\ \A j \in Inst : starts[j] <= starts'[j]
      /\ \A j \in Inst \ {i} : starts'[j] = starts[j] /\ stage'[j] = stage[j]
  BY <1>1, <1>2, InstAssumption, SMT DEF Off
<1>4. ProcsOK'
  <2>1. ASSUME NEW j \in Inst, Running(j)'
        PROVE  starts'[j] >= 1
    BY <1>3, <2>1, SMT DEF IInv, ProcsOK, Running
  <2>2. ASSUME NEW l \in leases
        PROVE  l[2] <= starts'[l[1]]
    <3>1. l[1] \in Inst /\ l[2] \in Nat /\ l[2] <= starts[l[1]] /\ starts[l[1]] \in Nat /\ starts'[l[1]] \in Nat
      BY <1>2, <1>3, InstAssumption, SMT DEF IInv, ProcsOK, Lease
    <3> QED BY <1>3, <3>1, SMT
  <2> QED BY <1>1, <1>3, <2>1, <2>2 DEF IInv, ProcsOK
<1>5. RegistryOK'
  <2>1. ASSUME NEW k \in DOMAIN kv, NEW j \in Inst, Running(j)', kv[k].lease = CurrentLease(j)'
        PROVE  Did(j, "put")'
    <3>1. CASE j = i
      <4>1. kv[k].lease \in leases /\ kv[k].lease = <<i, starts'[i]>>
        BY <1>1, <2>1, <3>1 DEF IInv, RegistryOK, CurrentLease
      <4>2. starts'[i] <= starts[i]
        BY <4>1 DEF IInv, ProcsOK
      <4> QED BY <1>3, <4>2, SMT
    <3>2. CASE j # i
      BY <1>1, <1>3, <2>1, <3>2 DEF IInv, RegistryOK, Running, CurrentLease, Did
    <3> QED BY <3>1, <3>2
  <2> QED BY <1>1, <2>1 DEF IInv, RegistryOK, Announced
<1>6. ObserverOK'
  BY <1>1, <1>2, ObserverStays
<1> QED BY <1>4, <1>5, <1>6 DEF IInv

\* Steps of main that do not reach the registry.
LEMMA MainKeeps ==
  ASSUME IInv, NEW i \in Inst, registryFailed(i) \/ listen(i)
  PROVE  IInv'
<1>1. /\ Running(i) /\ stage[i] < 3
      /\ stage' = [stage EXCEPT ![i] = @ + 1]
      /\ UNCHANGED <<starts, leases, kv, log>> /\ UNCHANGED observer
  BY DEF registryFailed, listen, At, etcd
<1>2. /\ stage' \in [Inst -> Off .. 3]
      /\ \A j \in Inst : Running(j)' <=> Running(j)
      /\ \A j \in Inst : Did(j, "put") => Did(j, "put")'
      /\ \A j \in Inst : CurrentLease(j)' = CurrentLease(j)
  BY <1>1, Advances DEF CurrentLease
<1>3. ProcsOK'
  BY <1>1, <1>2 DEF IInv, ProcsOK
<1>4. RegistryOK'
  BY <1>1, <1>2 DEF IInv, RegistryOK, Announced
<1>5. ObserverOK'
  BY <1>1, ObserverStays, LenProperties DEF IInv, RegistryOK
<1> QED BY <1>3, <1>4, <1>5 DEF IInv

\* Registry(): the lease of the current life.
LEMMA grantLeaseKeeps ==
  ASSUME IInv, NEW i \in Inst, grantLease(i)
  PROVE  IInv'
<1>1. /\ Running(i) /\ stage[i] < 3
      /\ leases' = leases \cup {CurrentLease(i)}
      /\ stage' = [stage EXCEPT ![i] = @ + 1]
      /\ UNCHANGED <<starts, kv, log>> /\ UNCHANGED observer
  BY DEF grantLease, At
<1>2. /\ stage' \in [Inst -> Off .. 3]
      /\ \A j \in Inst : Running(j)' <=> Running(j)
      /\ \A j \in Inst : Did(j, "put") => Did(j, "put")'
      /\ \A j \in Inst : CurrentLease(j)' = CurrentLease(j)
  BY <1>1, Advances DEF CurrentLease
<1>3. CurrentLease(i) \in Lease /\ CurrentLease(i)[1] = i /\ CurrentLease(i)[2] = starts[i]
  <2>1. starts[i] \in 1 .. MaxStarts
    BY <1>1, SMT DEF IInv, ProcsOK
  <2> QED BY <2>1 DEF CurrentLease, Lease
<1>4. ProcsOK'
  <2>1. \A j \in Inst : starts[j] \in Int
    BY SMT DEF IInv, ProcsOK
  <2>2. CurrentLease(i)[2] <= starts[CurrentLease(i)[1]]
    BY <1>3, <2>1, SMT
  <2> QED BY <1>1, <1>2, <1>3, <2>2 DEF IInv, ProcsOK
<1>5. RegistryOK'
  BY <1>1, <1>2 DEF IInv, RegistryOK, Announced
<1>6. ObserverOK'
  BY <1>1, ObserverStays, LenProperties DEF IInv, RegistryOK
<1> QED BY <1>4, <1>5, <1>6 DEF IInv

\* registry: the key is there, under the lease of the life that put it.
LEMMA registryKeeps ==
  ASSUME IInv, NEW i \in Inst, registry(i)
  PROVE  IInv'
<1>1. /\ At(i, "put") /\ Running(i) /\ stage[i] < 3
      /\ CurrentLease(i) \in leases
      /\ kv' = [k \in DOMAIN kv \cup {KeyOf[i]} |->
                  IF k = KeyOf[i] THEN [host |-> HostOf[i], lease |-> CurrentLease(i)]
                                  ELSE kv[k]]
      /\ log' = Append(log, Put(i))
      /\ stage' = [stage EXCEPT ![i] = @ + 1]
      /\ UNCHANGED <<starts, leases>> /\ UNCHANGED observer
  BY DEF registry, At
<1>2. /\ stage' \in [Inst -> Off .. 3]
      /\ \A j \in Inst : Running(j)' <=> Running(j)
      /\ \A j \in Inst : Did(j, "put") => Did(j, "put")'
      /\ Did(i, "put")'
      /\ \A j \in Inst : CurrentLease(j)' = CurrentLease(j)
  BY <1>1, Advances DEF CurrentLease
<1>3. /\ log \in Seq(Event) /\ log' \in Seq(Event) /\ Len(log') = Len(log) + 1 /\ Len(log) \in Nat
      /\ \A n \in 1 .. Len(log) : log'[n] = log[n]
      /\ log'[Len(log) + 1] = Put(i)
  BY <1>1, Instances, AppendProperties, LenProperties DEF IInv, RegistryOK
<1>4. Len(log) <= Len(log') /\ Len(log) + 1 \in DOMAIN log'
  BY <1>3, LenProperties, SMT
<1>5. ProcsOK'
  BY <1>1, <1>2 DEF IInv, ProcsOK
<1>6. ObserverOK'
  BY <1>1, <1>3, <1>4, ObserverStays
<1>7. IsFiniteSet(DOMAIN kv')
  BY <1>1, FS_AddElement DEF IInv, RegistryOK
<1>8. /\ KeyOf[i] \in DOMAIN kv'
      /\ kv'[KeyOf[i]] = [host |-> HostOf[i], lease |-> CurrentLease(i)]
      /\ \A k \in DOMAIN kv' : k # KeyOf[i] => k \in DOMAIN kv /\ kv'[k] = kv[k]
  BY <1>1
<1>9. \A k, h : Announced(k, h) => Announced(k, h)'
  BY <1>3, <1>4, AnnouncedStays
<1>10. Announced(KeyOf[i], HostOf[i])'
  BY <1>3, <1>4 DEF Announced, Put
<1>11. ASSUME NEW k \in DOMAIN kv'
       PROVE  /\ k \in Key
              /\ kv'[k].lease \in leases'
              /\ k = KeyOf[kv'[k].lease[1]]
              /\ kv'[k].host = HostOf[kv'[k].lease[1]]
              /\ Announced(k, kv[k].host)'
              /\ \A j \in Inst : Running(j)' /\ kv'[k].lease = CurrentLease(j)' => Did(j, "put")'
  <2>1. CASE k = KeyOf[i]
    <3>1. kv'[k].host = HostOf[i] /\ kv'[k].lease = <<i, starts[i]>>
      BY <1>8, <2>1 DEF CurrentLease
    <3>2. \A j \in Inst : kv'[k].lease = CurrentLease(j)' => j = i
      BY <1>2, <3>1 DEF CurrentLease
    <3> QED BY <1>1, <1>2, <1>8, <1>10, <2>1, <3>1, <3>2, Instances DEF CurrentLease
  <2>2. CASE k # KeyOf[i]
    BY <1>1, <1>2, <1>8, <1>9, <2>2 DEF IInv, RegistryOK
  <2> QED BY <2>1, <2>2
<1>12. kv' \in [DOMAIN kv' -> [host : Host, lease : Lease]]
  <2>1. CurrentLease(i) \in Lease /\ HostOf[i] \in Host
    BY <1>1, Instances DEF IInv, ProcsOK
  <2> QED BY <1>1, <2>1 DEF IInv, RegistryOK
<1>13. RegistryOK'
  BY <1>3, <1>7, <1>11, <1>12 DEF RegistryOK
<1> QED BY <1>5, <1>6, <1>13 DEF IInv

\* A crash leaves the registry as it is.
LEMMA crashKeeps ==
  ASSUME IInv, NEW i \in Inst, crash(i)
  PROVE  IInv'
<1>1. /\ stage' = [stage EXCEPT ![i] = Off]
      /\ UNCHANGED <<starts, leases, kv, log>> /\ UNCHANGED observer
  BY DEF crash, etcd
<1>2. /\ stage \in [Inst -> Off .. 3] /\ Off \in Off .. 3
      /\ \A j \in Inst : CurrentLease(j)' = CurrentLease(j)
  BY <1>1, SMT DEF IInv, ProcsOK, Off, CurrentLease
<1>3. /\ stage' \in [Inst -> Off .. 3]
      /\ ~Running(i)'
      /\ \A j \in Inst \ {i} : (Running(j)' <=> Running(j)) /\ (Did(j, "put") => Did(j, "put")')
  BY <1>1, <1>2 DEF Running, Did
<1>4. ProcsOK'
  BY <1>1, <1>3 DEF IInv, ProcsOK
<1>5. RegistryOK'
  BY <1>1, <1>2, <1>3 DEF IInv, RegistryOK, Announced
<1>6. ObserverOK'
  BY <1>1, ObserverStays, LenProperties DEF IInv, RegistryOK
<1> QED BY <1>4, <1>5, <1>6 DEF IInv

\* expire: one lease goes, and the one key under it.
LEMMA Expired ==
  ASSUME IInv, NEW l \in Lease, expire(l)
  PROVE  /\ l[1] \in Inst
         /\ leases' = leases \ {l}
         /\ \/ /\ \A k \in DOMAIN kv : kv[k].lease # l
               /\ kv' = kv /\ log' = log
            \/ /\ KeyOf[l[1]] \in DOMAIN kv /\ kv[KeyOf[l[1]]].lease = l
               /\ kv[KeyOf[l[1]]].host = HostOf[l[1]]
               /\ \A k \in DOMAIN kv : kv[k].lease = l => k = KeyOf[l[1]]
               /\ kv' = [k \in DOMAIN kv \ {KeyOf[l[1]]} |-> kv[k]]
               /\ log' = Append(log, [put |-> FALSE, key |-> KeyOf[l[1]], host |-> HostOf[l[1]]])
<1> DEFINE gone == {k \in DOMAIN kv : kv[k].lease = l}
<1>1. /\ leases' = leases \ {l}
      /\ kv' = [k \in DOMAIN kv \ gone |-> kv[k]]
      /\ log' = IF gone = {} THEN log
                ELSE Append(log, [put |-> FALSE, key |-> KeyOf[l[1]], host |-> kv[KeyOf[l[1]]].host])
  BY DEF expire
<1>2. l[1] \in Inst
  BY DEF Lease
<1>3. \A k \in gone : k = KeyOf[l[1]] /\ kv[k].host = HostOf[l[1]]
  BY DEF IInv, RegistryOK
<1>4. CASE gone = {}
  <2>1. kv' = [k \in DOMAIN kv |-> kv[k]] /\ log' = log
    BY <1>1, <1>4
  <2>2. kv = [k \in DOMAIN kv |-> kv[k]]
    BY DEF IInv, RegistryOK
  <2> QED BY <1>1, <1>2, <1>4, <2>1, <2>2
<1>5. CASE gone # {}
  <2>1. gone = {KeyOf[l[1]]}
    BY <1>3, <1>5
  <2> QED BY <1>1, <1>2, <1>3, <1>5, <2>1
<1> QED BY <1>4, <1>5

LEMMA expireKeeps ==
  ASSUME IInv, NEW l \in Lease, expire(l)
  PROVE  IInv'
<1>1. UNCHANGED <<stage, starts>> /\ UNCHANGED observer
  BY DEF expire, procs
<1>2. /\ leases' = leases \ {l} /\ l[1] \in Inst
      /\ DOMAIN kv' \subseteq DOMAIN kv
      /\ \A k \in DOMAIN kv' : kv'[k] = kv[k] /\ kv[k].lease # l
      /\ kv' \in [DOMAIN kv' -> [host : Host, lease : Lease]]
  <2>0. leases' = leases \ {l} /\ l[1] \in Inst
    BY Expired
  <2>1. kv \in [DOMAIN kv -> [host : Host, lease : Lease]]
    BY DEF IInv, RegistryOK
  <2>2. CASE kv' = kv /\ \A k \in DOMAIN kv : kv[k].lease # l
    <3>1. kv' \in [DOMAIN kv' -> [host : Host, lease : Lease]]
      BY <2>1, <2>2
    <3> QED BY <2>0, <2>2, <3>1
  <2>3. CASE /\ \A k \in DOMAIN kv : kv[k].lease = l => k = KeyOf[l[1]]
             /\ kv' = [k \in DOMAIN kv \ {KeyOf[l[1]]} |-> kv[k]]
    <3>1. DOMAIN kv' = DOMAIN kv \ {KeyOf[l[1]]} /\ \A k \in DOMAIN kv' : kv'[k] = kv[k]
      BY <2>3
    <3>2. kv' \in [DOMAIN kv' -> [host : Host, lease : Lease]]
      BY <2>1, <2>3, <3>1
    <3> QED BY <2>0, <2>3, <3>1, <3>2
  <2> QED BY <2>2, <2>3, Expired
<1>3. /\ log \in Seq(Event) /\ log' \in Seq(Event) /\ Len(log) \in Nat /\ Len(log') \in Nat
      /\ Len(log) <= Len(log')
      /\ \A n \in 1 .. Len(log) : log'[n] = log[n]
  <2>1. log \in Seq(Event) /\ Len(log) \in Nat
    BY LenProperties DEF IInv, RegistryOK
  <2>2. [put |-> FALSE, key |-> KeyOf[l[1]], host |-> HostOf[l[1]]] \in Event
    BY <1>2, Instances DEF Event
  <2>3. CASE log' = log
    BY <2>1, <2>3
  <2>4. CASE log' = Append(log, [put |-> FALSE, key |-> KeyOf[l[1]], host |-> HostOf[l[1]]])
    BY <2>1, <2>2, <2>4, AppendProperties, LenProperties, SMT
  <2> QED BY <2>3, <2>4, Expired
<1>4. ProcsOK'
  BY <1>1, <1>2 DEF IInv, ProcsOK, Running
<1>5. \A k, h : Announced(k, h) => Announced(k, h)'
  BY <1>3, AnnouncedStays
<1>6. IsFiniteSet(DOMAIN kv')
  BY <1>2, FS_Subset DEF IInv, RegistryOK
<1>7. RegistryOK'
  BY <1>1, <1>2, <1>3, <1>5, <1>6 DEF IInv, RegistryOK, Running, CurrentLease, Did
<1>8. ObserverOK'
  BY <1>1, <1>3, ObserverStays
<1> QED BY <1>4, <1>7, <1>8 DEF IInv

--------------------------------------------------------------------------------
(* Steps of the observer                                                      *)

\* ls lists every key once, in some order.
LEMMA Listed ==
  ASSUME NEW S, IsFiniteSet(S), NEW f \in SetToSeqs(S)
  PROVE  /\ Cardinality(S) \in Nat
         /\ f \in [1 .. Cardinality(S) -> S]
         /\ \A m, n \in 1 .. Cardinality(S) : f[m] = f[n] => m = n
         /\ \A x \in S : \E n \in 1 .. Cardinality(S) : f[n] = x
<1> DEFINE D == 1 .. Cardinality(S)
<1>1. Cardinality(S) \in Nat
  BY FS_CardinalityType
<1>2. f \in [D -> S] /\ \A m, n \in D : f[m] = f[n] => m = n
  BY DEF SetToSeqs
<1>3. f \in Injection(D, S)
  BY <1>2 DEF Injection, IsInjective
<1>4. Cardinality(D) = Cardinality(S)
  BY <1>1, FS_Interval, SMT
<1>5. f \in Surjection(D, S)
  BY <1>3, <1>4, FS_Injection
<1> QED BY <1>1, <1>2, <1>5 DEF Surjection

\* append puts its host into the rotation.
LEMMA AppendedRotation ==
  ASSUME NEW p, PoolInv(p), NEW h \in Host, NEW id \in ChannelId
  PROVE  /\ Appended(p, [host |-> h, id |-> id]).channels = Append(p.channels, [host |-> h, id |-> id])
         /\ DOMAIN Appended(p, [host |-> h, id |-> id]).hosts = DOMAIN p.hosts \cup {h}
         /\ HostsInRotation(Appended(p, [host |-> h, id |-> id])) = HostsInRotation(p) \cup {h}
<1> DEFINE c == [host |-> h, id |-> id]
           q == Appended(p, c)
<1>1. c \in Channel /\ c.host = h
  BY DEF Channel
<1>2. /\ p = [hosts |-> p.hosts, channels |-> p.channels, index |-> p.index]
      /\ p.channels \in Seq(Channel)
  BY DEF PoolInv, IsPool
<1> HIDE DEF c
<1>3. q.channels = Append(p.channels, c) /\ DOMAIN q.hosts = DOMAIN p.hosts \cup {h}
  BY <1>1, <1>2 DEF Appended, InsertHost, PushChannel
<1> HIDE DEF q
<1>4. /\ DOMAIN p.channels = 1 .. Len(p.channels) /\ Len(p.channels) \in Nat
      /\ DOMAIN q.channels = 1 .. Len(p.channels) + 1
      /\ \A n \in 1 .. Len(p.channels) : q.channels[n] = p.channels[n]
      /\ q.channels[Len(p.channels) + 1] = c
  BY <1>1, <1>2, <1>3, AppendProperties, LenProperties
<1>5. 1 .. Len(p.channels) + 1 = 1 .. Len(p.channels) \cup {Len(p.channels) + 1}
  BY <1>4, SMT
<1>6. HostsInRotation(q) = HostsInRotation(p) \cup {h}
  BY <1>1, <1>4, <1>5 DEF HostsInRotation
<1> QED BY <1>3, <1>6 DEF c, q

\* remove takes out entry i of the vector, which is for the host.
RemovedAt(p, h, i) ==
  /\ DOMAIN p.channels = 1 .. Len(p.channels) /\ Len(p.channels) \in Nat
  /\ i \in 1 .. Len(p.channels) /\ p.channels[i].host = h
  /\ DOMAIN Removed(p, h).channels = 1 .. Len(p.channels) - 1
  /\ \A k \in 1 .. Len(p.channels) - 1 :
       Removed(p, h).channels[k] = IF k < i THEN p.channels[k] ELSE p.channels[k + 1]

LEMMA RemovedEntries ==
  ASSUME NEW p, PoolInv(p), NEW h \in DOMAIN p.hosts
  PROVE  \E i \in DOMAIN p.channels : RemovedAt(p, h, i)
<1>1. PICK i \in DOMAIN p.channels :
        /\ p.channels[i] = p.hosts[h]
        /\ Removed(p, h).channels = RemoveAt(p.channels, i)
  BY RemovedKeepsPool
<1>2. /\ p.channels \in Seq(Channel) /\ i \in 1 .. Len(p.channels) /\ Len(p.channels) \in Nat
      /\ DOMAIN p.channels = 1 .. Len(p.channels)
      /\ p.channels[i].host = h
  BY <1>1, LenProperties DEF PoolInv, IsPool, MapInRotation
<1> DEFINE s == p.channels
           t == Removed(p, h).channels
<1>3. /\ DOMAIN t = 1 .. Len(s) - 1
      /\ \A k \in 1 .. Len(s) - 1 : t[k] = IF k < i THEN s[k] ELSE s[k + 1]
  <2>1. /\ t \in Seq(Channel) /\ Len(t) = Len(s) - 1
        /\ \A k \in 1 .. Len(s) - 1 : t[k] = IF k < i THEN s[k] ELSE s[k + 1]
    BY <1>1, <1>2, RemoveAtElements
  <2> HIDE DEF s, t
  <2> QED BY <2>1, LenProperties
<1>4. RemovedAt(p, h, i)
  BY <1>2, <1>3 DEF RemovedAt
<1> QED BY <1>4

\* remove takes no other host's channel out, and adds none.
LEMMA RemovedRotation ==
  ASSUME NEW p, PoolInv(p), NEW h \in DOMAIN p.hosts
  PROVE  /\ HostsInRotation(Removed(p, h)) \subseteq HostsInRotation(p)
         /\ HostsInRotation(p) \ {h} \subseteq HostsInRotation(Removed(p, h))
<1>1. PICK i \in DOMAIN p.channels : RemovedAt(p, h, i)
  BY RemovedEntries
<1> DEFINE s == p.channels
           t == Removed(p, h).channels
<1>3. /\ DOMAIN t = 1 .. Len(s) - 1
      /\ \A k \in 1 .. Len(s) - 1 : t[k] = IF k < i THEN s[k] ELSE s[k + 1]
  BY <1>1 DEF RemovedAt
<1>4. DOMAIN s = 1 .. Len(s) /\ Len(s) \in Nat /\ i \in 1 .. Len(s) /\ s[i].host = h
  BY <1>1 DEF RemovedAt
<1>5. HostsInRotation(p) = {s[n].host : n \in DOMAIN s}
  BY DEF HostsInRotation
<1>6. HostsInRotation(Removed(p, h)) = {t[n].host : n \in DOMAIN t}
  BY DEF HostsInRotation
<1> HIDE DEF s, t
<1>7. ASSUME NEW n \in DOMAIN t
      PROVE  \E m \in DOMAIN s : t[n] = s[m]
  BY <1>3, <1>4, SMT
<1>8. ASSUME NEW n \in DOMAIN s, s[n].host # h
      PROVE  \E m \in DOMAIN t : t[m] = s[n]
  <2>1. CASE n < i
    BY <1>3, <1>4, <2>1, SMT
  <2>2. CASE n > i
    <3>1. n - 1 \in DOMAIN t /\ ~(n - 1 < i) /\ n - 1 + 1 = n
      BY <1>3, <1>4, <2>2, SMT
    <3> QED BY <1>3, <3>1
  <2> QED BY <1>4, <1>8, <2>1, <2>2, SMT
<1> QED BY <1>5, <1>6, <1>7, <1>8

\* The events left when the first is handled.
LEMMA Rest ==
  ASSUME NEW S, NEW t \in Seq(S), t # <<>>
  PROVE  /\ Tail(t) \in Seq(S) /\ Head(t) \in S /\ Head(t) = t[1] /\ 1 \in DOMAIN t
         /\ Len(Tail(t)) = Len(t) - 1 /\ Len(t) \in Nat \ {0} /\ Len(Tail(t)) \in Nat
         /\ DOMAIN t = 1 .. Len(t) /\ DOMAIN Tail(t) = 1 .. Len(Tail(t))
         /\ \A n \in DOMAIN Tail(t) : n + 1 \in DOMAIN t /\ Tail(t)[n] = t[n + 1]
<1>1. /\ Head(t) \in S /\ Tail(t) \in Seq(S) /\ Len(Tail(t)) = Len(t) - 1
      /\ \A i \in 1 .. Len(Tail(t)) : Tail(t)[i] = t[i + 1]
  BY HeadTailProperties
<1>2. /\ Len(t) \in Nat /\ Len(Tail(t)) \in Nat
      /\ DOMAIN t = 1 .. Len(t) /\ DOMAIN Tail(t) = 1 .. Len(Tail(t))
  BY <1>1, LenProperties
<1>3. Head(t) = t[1]
  OBVIOUS
<1> QED BY <1>1, <1>2, <1>3, SMT

\* The registry and its processes when the observer steps.
LEMMA RegistryStays ==
  ASSUME IInv, UNCHANGED procs, UNCHANGED etcd
  PROVE  /\ ProcsOK' /\ RegistryOK'
         /\ \A k, h : Announced(k, h)' <=> Announced(k, h)
         /\ log' = log /\ kv' = kv /\ log \in Seq(Event)
BY DEF IInv, ProcsOK, RegistryOK, Announced, procs, etcd, Running, CurrentLease, Did

LEMMA lsKeeps ==
  ASSUME IInv, ls \/ lsFailed
  PROVE  IInv'
<1>1. /\ phase' = "list" /\ UNCHANGED <<rev, pools>>
      /\ UNCHANGED procs /\ UNCHANGED etcd
  BY DEF ls, lsFailed
<1>2. /\ ProcsOK' /\ RegistryOK'
      /\ \A k, h : Announced(k, h)' <=> Announced(k, h)
      /\ log' = log
  BY <1>1, RegistryStays
<1>3. todo' \in Seq(Event) /\ \A n \in DOMAIN todo' : Announced(todo'[n].key, todo'[n].host)
                              \/ todo' = todo
  <2>1. CASE lsFailed
    BY <2>1 DEF lsFailed, IInv, ObserverOK
  <2>2. CASE ls
    <3>1. PICK f \in SetToSeqs(DOMAIN kv) :
            todo' = [n \in DOMAIN f |-> [put |-> TRUE, key |-> f[n], host |-> kv[f[n]].host]]
      BY <2>2 DEF ls
    <3>2. /\ Cardinality(DOMAIN kv) \in Nat
          /\ f \in [1 .. Cardinality(DOMAIN kv) -> DOMAIN kv]
      BY Listed DEF IInv, RegistryOK
    <3>3. PICK N \in Nat : N = Cardinality(DOMAIN kv)
      BY <3>2
    <3>4. /\ DOMAIN f = 1 .. N
          /\ \A n \in 1 .. N : f[n] \in DOMAIN kv
      BY <3>2, <3>3
    <3>5. \A k \in DOMAIN kv : [put |-> TRUE, key |-> k, host |-> kv[k].host] \in Event
      BY DEF IInv, RegistryOK, Event
    <3>6. todo' = [n \in 1 .. N |-> [put |-> TRUE, key |-> f[n], host |-> kv[f[n]].host]]
      BY <3>1, <3>4
    <3>7. todo' \in Seq(Event)
      BY <3>4, <3>5, <3>6
    <3>8. \A n \in DOMAIN todo' : Announced(todo'[n].key, todo'[n].host)
      BY <3>4, <3>6 DEF IInv, RegistryOK
    <3> QED BY <3>7, <3>8
  <2> QED BY <2>1, <2>2
<1>4. ObserverOK'
  <2>1. \A n \in DOMAIN todo' : todo'[n].put => Announced(todo'[n].key, todo'[n].host)
    BY <1>3 DEF IInv, ObserverOK
  <2>2. \A n \in DOMAIN todo' : todo'[n].put => Announced(todo[n].key, todo[n].host)'
    BY <1>2, <2>1 DEF Announced
  <2> QED BY <1>1, <1>2, <1>3, <2>2 DEF IInv, ObserverOK, OnlyAnnounced
<1> QED BY <1>2, <1>4 DEF IInv

LEMMA watchKeeps ==
  ASSUME IInv, watch \/ streamError
  PROVE  IInv'
<1>1. /\ phase' \in {"watch", "dead"} /\ rev' \in {rev, Len(log)} /\ UNCHANGED <<todo, pools>>
      /\ UNCHANGED procs /\ UNCHANGED etcd
  BY DEF watch, streamError
<1>2. /\ ProcsOK' /\ RegistryOK'
      /\ \A k, h : Announced(k, h)' <=> Announced(k, h)
      /\ log' = log /\ Len(log) \in Nat
  BY <1>1, RegistryStays, LenProperties
<1>3. rev' \in 0 .. Len(log)
  BY <1>1, <1>2, SMT DEF IInv, ObserverOK
<1>4. ObserverOK'
  BY <1>1, <1>2, <1>3 DEF IInv, ObserverOK, OnlyAnnounced
<1> QED BY <1>2, <1>4 DEF IInv

\* A response: some of the changes that were not delivered yet.
LEMMA respondKeeps ==
  ASSUME IInv, respond
  PROVE  IInv'
<1>1. /\ UNCHANGED <<phase, pools>>
      /\ UNCHANGED procs /\ UNCHANGED etcd
  BY DEF respond
<1>2. PICK n \in rev + 1 .. Len(log) : todo' = SubSeq(log, rev + 1, n) /\ rev' = n
  BY DEF respond
<1>3. /\ ProcsOK' /\ RegistryOK'
      /\ \A k, h : Announced(k, h)' <=> Announced(k, h)
      /\ log' = log /\ log \in Seq(Event) /\ Len(log) \in Nat /\ DOMAIN log = 1 .. Len(log)
      /\ rev \in 0 .. Len(log)
  BY <1>1, RegistryStays, LenProperties DEF IInv, ObserverOK
<1>4. /\ n \in 0 .. Len(log)
      /\ todo' \in Seq(Event)
      /\ \A j \in 1 .. Len(todo') : rev + j \in DOMAIN log /\ todo'[j] = log[rev + j]
  BY <1>2, <1>3, SMT
<1>5. ASSUME NEW j \in DOMAIN todo', todo'[j].put
      PROVE  Announced(todo'[j].key, todo'[j].host)
  <2>1. j \in 1 .. Len(todo')
    BY <1>4, <1>5, LenProperties
  <2>2. rev + j \in DOMAIN log /\ todo'[j] = log[rev + j]
    BY <1>4, <2>1
  <2>3. todo'[j] \in Event
    BY <1>4, <2>1, ElementOfSeq
  <2>4. todo'[j] = [put |-> TRUE, key |-> todo'[j].key, host |-> todo'[j].host]
    BY <1>5, <2>3 DEF Event
  <2> QED BY <2>2, <2>4 DEF Announced
<1>6. \A j \in DOMAIN todo' : todo'[j].put => Announced(todo[j].key, todo[j].host)'
  BY <1>3, <1>5 DEF Announced
<1>7. ObserverOK'
  BY <1>1, <1>2, <1>3, <1>4, <1>6 DEF IInv, ObserverOK, OnlyAnnounced
<1> QED BY <1>3, <1>7 DEF IInv

\* What one callback does to the pools.
LEMMA Handled ==
  ASSUME IInv, callback
  PROVE  /\ todo # <<>> /\ todo' = Tail(todo)
         /\ UNCHANGED <<phase, rev>> /\ UNCHANGED procs /\ UNCHANGED etcd
         /\ pools' = [s \in Declared |-> pools'[s]]
         /\ \A s \in Declared :
              \/ pools'[s] = pools[s]
                 /\ (\/ getServiceName(Head(todo).key) # s
                     \/ ~Head(todo).put /\ Head(todo).host \notin DOMAIN pools[s].hosts
                     \/ Head(todo).put /\ Head(todo).host \in Flaky)
              \/ /\ getServiceName(Head(todo).key) = s /\ Head(todo).put
                 /\ \E id \in ChannelId \ LiveIds(pools[s]) :
                      pools'[s] = Appended(pools[s], [host |-> Head(todo).host, id |-> id])
              \/ /\ getServiceName(Head(todo).key) = s /\ ~Head(todo).put
                 /\ Head(todo).host \in DOMAIN pools[s].hosts
                 /\ pools'[s] = Removed(pools[s], Head(todo).host)
<1>1. /\ todo # <<>> /\ todo' = Tail(todo)
      /\ UNCHANGED <<phase, rev>> /\ UNCHANGED procs /\ UNCHANGED etcd
  BY DEF callback
<1>2. PICK e, d : e = Head(todo) /\ d = getServiceName(e.key)
  OBVIOUS
<1>3. pools = [s \in Declared |-> pools[s]]
  BY DEF IInv, ObserverOK
<1>4. \/ d \notin Declared /\ UNCHANGED pools
      \/ d \in Declared /\ e.put /\ e.host \in Flaky /\ UNCHANGED pools
      \/ d \in Declared /\ e.put
         /\ \E id \in ChannelId \ UNION {LiveIds(pools[s]) : s \in Declared} :
              pools' = [pools EXCEPT ![d] = Appended(pools[d], [host |-> e.host, id |-> id])]
      \/ d \in Declared /\ ~e.put /\ pools' = [pools EXCEPT ![d] = Removed(pools[d], e.host)]
  BY <1>2 DEF callback, onServiceOnline, onServiceOffline
<1>5. CASE UNCHANGED pools /\ (d \notin Declared \/ (e.put /\ e.host \in Flaky))
  <2>1. pools' = [s \in Declared |-> pools'[s]]
    BY <1>3, <1>5
  <2> QED BY <1>1, <1>2, <1>5, <2>1
<1>6. ASSUME d \in Declared, e.put,
             NEW id \in ChannelId \ UNION {LiveIds(pools[s]) : s \in Declared},
             pools' = [pools EXCEPT ![d] = Appended(pools[d], [host |-> e.host, id |-> id])]
      PROVE  /\ pools' = [s \in Declared |-> pools'[s]]
             /\ \A s \in Declared \ {d} : pools'[s] = pools[s]
             /\ pools'[d] = Appended(pools[d], [host |-> e.host, id |-> id])
             /\ id \in ChannelId \ LiveIds(pools[d])
  <2>1. DOMAIN pools = Declared
    BY <1>3
  <2> HIDE <1>3
  <2> QED BY <1>6, <2>1
<1>7. ASSUME d \in Declared, ~e.put, pools' = [pools EXCEPT ![d] = Removed(pools[d], e.host)]
      PROVE  /\ pools' = [s \in Declared |-> pools'[s]]
             /\ \A s \in Declared \ {d} : pools'[s] = pools[s]
             /\ pools'[d] = Removed(pools[d], e.host)
             /\ e.host \notin DOMAIN pools[d].hosts => pools'[d] = pools[d]
  <2>1. DOMAIN pools = Declared
    BY <1>3
  <2>2. e.host \notin DOMAIN pools[d].hosts => Removed(pools[d], e.host) = pools[d]
    BY DEF Removed
  <2> HIDE <1>3
  <2> QED BY <1>7, <2>1, <2>2
<1> QED BY <1>1, <1>2, <1>4, <1>5, <1>6, <1>7

LEMMA callbackKeeps ==
  ASSUME IInv, callback
  PROVE  IInv'
<1>1. /\ todo # <<>> /\ todo' = Tail(todo)
      /\ UNCHANGED <<phase, rev>> /\ UNCHANGED procs /\ UNCHANGED etcd
      /\ pools' = [s \in Declared |-> pools'[s]]
  BY Handled
<1>2. /\ ProcsOK' /\ RegistryOK'
      /\ \A k, h : Announced(k, h)' <=> Announced(k, h)
      /\ log' = log /\ log \in Seq(Event)
  BY <1>1, RegistryStays
<1>3. todo \in Seq(Event) /\ \A n \in DOMAIN todo : todo[n].put => Announced(todo[n].key, todo[n].host)
  BY DEF IInv, ObserverOK
<1>4. /\ todo' \in Seq(Event) /\ Head(todo) \in Event
      /\ Head(todo) = todo[1] /\ 1 \in DOMAIN todo
      /\ \A n \in DOMAIN todo' : n + 1 \in DOMAIN todo /\ todo'[n] = todo[n + 1]
  BY <1>1, <1>3, Rest
<1>5. \A n \in DOMAIN todo' : todo'[n].put => Announced(todo[n].key, todo[n].host)'
  <2>1. ASSUME NEW n \in DOMAIN todo', todo'[n].put
        PROVE  Announced(todo'[n].key, todo'[n].host)
    BY <1>3, <1>4, <2>1
  <2> QED BY <1>2, <2>1 DEF Announced
<1>6. PICK e : e = Head(todo)
  OBVIOUS
<1>7. /\ e \in Event /\ e.host \in Host
      /\ e.put => \E n \in DOMAIN log : log[n] = [put |-> TRUE, key |-> e.key, host |-> e.host]
  BY <1>3, <1>4, <1>6 DEF Event, Announced
<1>8. ASSUME NEW s \in Declared
      PROVE  /\ PoolInv(pools'[s])
             /\ HostsInRotation(pools'[s]) \subseteq HostsInRotation(pools[s])
                \/ /\ e.put /\ getServiceName(e.key) = s
                   /\ HostsInRotation(pools'[s]) \subseteq HostsInRotation(pools[s]) \cup {e.host}
  <2>1. PoolInv(pools[s])
    BY DEF IInv, ObserverOK
  <2>2. CASE pools'[s] = pools[s]
    BY <2>1, <2>2
  <2>3. ASSUME getServiceName(e.key) = s, e.put,
               NEW id \in ChannelId \ LiveIds(pools[s]),
               pools'[s] = Appended(pools[s], [host |-> e.host, id |-> id])
        PROVE  /\ PoolInv(pools'[s])
               /\ HostsInRotation(pools'[s]) = HostsInRotation(pools[s]) \cup {e.host}
    BY <1>7, <2>1, <2>3, AppendedKeepsPool, AppendedRotation
  <2>4. CASE e.host \in DOMAIN pools[s].hosts /\ pools'[s] = Removed(pools[s], e.host)
    BY <2>1, <2>4, RemovedKeepsPool, RemovedRotation
  <2> QED BY <1>6, <2>2, <2>3, <2>4, Handled
<1>9. OnlyAnnounced'
  <2>1. ASSUME NEW s \in Declared, NEW h \in HostsInRotation(pools'[s])
        PROVE  \E n \in DOMAIN log :
                 log[n].put /\ getServiceName(log[n].key) = s /\ log[n].host = h
    <3>1. CASE h \in HostsInRotation(pools[s])
      BY <3>1 DEF IInv, ObserverOK, OnlyAnnounced
    <3>2. CASE e.put /\ getServiceName(e.key) = s /\ h = e.host
      BY <1>7, <3>2
    <3> QED BY <1>8, <2>1, <3>1, <3>2
  <2>2. \A s \in Declared : HostsInRotation(pools'[s]) = HostsInRotation(pools[s])'
    BY DEF HostsInRotation
  <2> QED BY <1>2, <2>1, <2>2 DEF OnlyAnnounced
<1>10. rev' \in 0 .. Len(log') /\ phase' \in {"build", "list", "watch", "dead"}
  BY <1>1, <1>2 DEF IInv, ObserverOK
<1>11. \A s \in Declared : PoolInv(pools[s])'
  BY <1>8
<1>12. ObserverOK'
  BY <1>1, <1>4, <1>5, <1>9, <1>10, <1>11 DEF ObserverOK
<1> QED BY <1>2, <1>12 DEF IInv

\* The invariant is inductive.
LEMMA NextKeeps == IInv /\ [Next]_vars => IInv'
<1> SUFFICES ASSUME IInv, [Next]_vars
             PROVE  IInv'
  OBVIOUS
<1>1. ASSUME NEW i \in Inst, Process(i)
      PROVE  IInv'
  BY <1>1, startKeeps, grantLeaseKeeps, registryKeeps, MainKeeps, crashKeeps DEF Process
<1>2. ASSUME NEW l \in Lease, expire(l)
      PROVE  IInv'
  BY <1>2, expireKeeps
<1>3. CASE Observer
  BY <1>3, lsKeeps, watchKeeps, respondKeeps, callbackKeeps DEF Observer
<1>4. CASE UNCHANGED vars
  <2>1. UNCHANGED procs /\ UNCHANGED etcd /\ UNCHANGED observer
    BY <1>4 DEF vars
  <2>2. log' = log /\ log \in Seq(Event) /\ Len(log) \in Nat
    BY <2>1, RegistryStays, LenProperties
  <2>3. ObserverOK'
    BY <2>1, <2>2, ObserverStays
  <2> QED BY <2>1, <2>3, RegistryStays DEF IInv
<1> QED BY <1>1, <1>2, <1>3, <1>4 DEF Next

\* It holds in every state.
LEMMA Invariance == Spec => []IInv
BY InitIInv, NextKeeps, PTL DEF Spec

\* Types: every pool is one of the type, every key in the registry lives under a
\* lease that was granted, the watch is never ahead of the registry.
THEOREM TypeCorrect == Spec => []TypeOK
<1>1. IInv => TypeOK
  BY DEF IInv, ProcsOK, RegistryOK, ObserverOK, TypeOK, PoolInv
<1> QED BY <1>1, Invariance, PTL

\* channel.hpp:118-134: whatever fails or comes late, a pool holds only hosts that
\* were announced under its own service name.
THEOREM AnnouncedOnly == Spec => []OnlyAnnounced
<1>1. IInv => OnlyAnnounced
  BY DEF IInv, ObserverOK
<1> QED BY <1>1, Invariance, PTL

--------------------------------------------------------------------------------
(* The registry as a log of changes                                           *)

\* The mapping of ImplementsDirectory shows the changes without the instance names.
Changes == [n \in DOMAIN log |-> [put |-> log[n].put,
                                  service |-> getServiceName(log[n].key),
                                  host |-> log[n].host]]

After(s, n) == Directory!HostsAfter(Changes, s, n)

\* One more change alters the hosts of its service, by its host, and no other's.
LEMMA OneChange ==
  ASSUME NEW l \in Seq(Directory!Change), NEW n \in 0 .. Len(l) - 1, NEW s
  PROVE  Directory!HostsAfter(l, s, n + 1) =
           IF l[n + 1].service # s THEN Directory!HostsAfter(l, s, n)
           ELSE IF l[n + 1].put THEN Directory!HostsAfter(l, s, n) \cup {l[n + 1].host}
           ELSE Directory!HostsAfter(l, s, n) \ {l[n + 1].host}
<1> DEFINE c == l[n + 1]
           LastPut(h, i, m) ==
             /\ l[i] = [put |-> TRUE, service |-> s, host |-> h]
             /\ \A j \in i + 1 .. m : ~(l[j].service = s /\ l[j].host = h)
<1>1. /\ Len(l) \in Nat
      /\ n \in Nat
      /\ n + 1 \in 1 .. Len(l)
      /\ c \in Directory!Change
  BY ElementOfSeq, LenProperties, SMT
<1>2. ASSUME NEW h, ~(c.service = s /\ c.host = h)
      PROVE  h \in Directory!HostsAfter(l, s, n + 1) <=> h \in Directory!HostsAfter(l, s, n)
  <2>1. ~LastPut(h, n + 1, n + 1)
    BY <1>2
  <2>2. ASSUME NEW i \in 1 .. n
        PROVE  LastPut(h, i, n + 1) <=> LastPut(h, i, n)
    <3>1. \A j \in i + 1 .. n + 1 : j \in i + 1 .. n \/ j = n + 1
      BY <1>1, SMT
    <3>2. i + 1 .. n \subseteq i + 1 .. n + 1
      BY <1>1, SMT
    <3> QED BY <3>1, <3>2, <1>2
  <2>3. 1 .. n + 1 = 1 .. n \cup {n + 1}
    BY <1>1, SMT
  <2> QED BY <2>1, <2>2, <2>3 DEF Directory!HostsAfter
<1>3. ASSUME NEW h, c.service = s, c.host = h
      PROVE  h \in Directory!HostsAfter(l, s, n + 1) <=> c.put
  <2>1. ASSUME NEW i \in 1 .. n
        PROVE  ~LastPut(h, i, n + 1)
    BY <1>1, <1>3, <2>1, SMT
  <2>2. LastPut(h, n + 1, n + 1) <=> c.put
    <3>1. c = [put |-> c.put, service |-> c.service, host |-> c.host] /\ c.put \in BOOLEAN
      BY <1>1 DEF Directory!Change
    <3>2. n + 2 .. n + 1 = {}
      BY <1>1, SMT
    <3>3. n + 1 + 1 = n + 2
      BY <1>1, SMT
    <3>4. LastPut(h, n + 1, n + 1) <=> c = [put |-> TRUE, service |-> s, host |-> h]
      BY <3>2, <3>3
    <3>5. c = [put |-> TRUE, service |-> s, host |-> h] => c.put
      OBVIOUS
    <3> HIDE DEF c, LastPut
    <3> QED BY <3>1, <3>4, <3>5, <1>3
  <2>3. h \in Host
    BY <1>1, <1>3 DEF Directory!Change
  <2>4. 1 .. n + 1 = 1 .. n \cup {n + 1}
    BY <1>1, SMT
  <2> QED BY <2>1, <2>2, <2>3, <2>4 DEF Directory!HostsAfter
<1> HIDE DEF c
<1>4. ASSUME NEW h
      PROVE  h \in Directory!HostsAfter(l, s, n + 1) <=>
               h \in (IF c.service # s THEN Directory!HostsAfter(l, s, n)
                      ELSE IF c.put THEN Directory!HostsAfter(l, s, n) \cup {c.host}
                      ELSE Directory!HostsAfter(l, s, n) \ {c.host})
  BY <1>2, <1>3
<1> QED BY <1>4 DEF c

\* A longer log has the same past.
LEMMA PastIsFixed ==
  ASSUME NEW l \in Seq(Directory!Change), NEW c \in Directory!Change,
         NEW n \in 0 .. Len(l), NEW s
  PROVE  Directory!HostsAfter(Append(l, c), s, n) = Directory!HostsAfter(l, s, n)
<1> DEFINE m == Append(l, c)
<1>1. \A i \in 1 .. n : m[i] = l[i]
  BY AppendProperties, LenProperties, SMT
<1>2. \A i \in 1 .. n : \A j \in i + 1 .. n : j \in 1 .. n
  BY LenProperties, SMT
<1> HIDE DEF m
<1>3. Directory!HostsAfter(m, s, n) = Directory!HostsAfter(l, s, n)
  <2>1. ASSUME NEW h \in Host, NEW i \in 1 .. n
        PROVE  (/\ m[i] = [put |-> TRUE, service |-> s, host |-> h]
                /\ \A j \in i + 1 .. n : ~(m[j].service = s /\ m[j].host = h)) <=>
               (/\ l[i] = [put |-> TRUE, service |-> s, host |-> h]
                /\ \A j \in i + 1 .. n : ~(l[j].service = s /\ l[j].host = h))
    BY <1>1, <1>2
  <2>2. ASSUME NEW h \in Host
        PROVE  h \in Directory!HostsAfter(m, s, n) <=> h \in Directory!HostsAfter(l, s, n)
    BY <2>1, <2>2, Zenon DEF Directory!HostsAfter
  <2>3. Directory!HostsAfter(m, s, n) \subseteq Host /\ Directory!HostsAfter(l, s, n) \subseteq Host
    BY DEF Directory!HostsAfter
  <2> QED BY <2>2, <2>3
<1> QED BY <1>3 DEF m

\* The log as the directory sees it.
LEMMA ChangesOK ==
  ASSUME log \in Seq(Event)
  PROVE  /\ Changes \in Seq(Directory!Change) /\ Len(Changes) = Len(log) /\ Len(log) \in Nat
         /\ DOMAIN log = 1 .. Len(log) /\ DOMAIN Changes = 1 .. Len(log)
         /\ \A n \in 1 .. Len(log) :
              /\ log[n] \in Event
              /\ Changes[n].put = log[n].put
              /\ Changes[n].service = getServiceName(log[n].key)
              /\ Changes[n].host = log[n].host
<1>1. DOMAIN log = 1 .. Len(log) /\ Len(log) \in Nat
  BY LenProperties
<1>2. \A n \in 1 .. Len(log) : log[n] \in Event
  BY ElementOfSeq
<1>3. \A k \in Key : getServiceName(k) \in Services
  BY DEF Services
<1> HIDE DEF Event
<1>4. \A e \in Event : [put |-> e.put, service |-> getServiceName(e.key), host |-> e.host] \in Directory!Change
  BY <1>3 DEF Event, Directory!Change
<1>5. Changes \in [1 .. Len(log) -> Directory!Change]
  BY <1>1, <1>2, <1>4 DEF Changes
<1>6. Changes \in Seq(Directory!Change) /\ Len(Changes) = Len(log)
  BY <1>1, <1>5
<1>7. \A n \in 1 .. Len(log) :
        /\ Changes[n].put = log[n].put
        /\ Changes[n].service = getServiceName(log[n].key)
        /\ Changes[n].host = log[n].host
  BY <1>1 DEF Changes
<1> QED BY <1>1, <1>2, <1>5, <1>6, <1>7

\* No change yet: no hosts.
LEMMA NothingYet ==
  ASSUME NEW l, NEW s
  PROVE  Directory!HostsAfter(l, s, 0) = {}
BY DEF Directory!HostsAfter

\* One more change in the registry is one more for the directory.
LEMMA Announces ==
  ASSUME log \in Seq(Event), NEW e \in Event, log' = Append(log, e)
  PROVE  /\ [put |-> e.put, service |-> getServiceName(e.key), host |-> e.host] \in Directory!Change
         /\ Changes' = Append(Changes, [put |-> e.put, service |-> getServiceName(e.key), host |-> e.host])
<1> DEFINE c == [put |-> e.put, service |-> getServiceName(e.key), host |-> e.host]
<1>1. /\ log' \in Seq(Event) /\ Len(log') = Len(log) + 1 /\ Len(log) \in Nat
      /\ log'[Len(log) + 1] = e /\ \A n \in 1 .. Len(log) : log'[n] = log[n]
  BY AppendProperties, LenProperties
<1>2. c \in Directory!Change
  BY DEF Directory!Change, Event, Services
<1>3. Changes' = Append(Changes, c)
  <2>1. /\ Changes \in Seq(Directory!Change) /\ Len(Changes) = Len(log)
        /\ DOMAIN log = 1 .. Len(log) /\ DOMAIN Changes = 1 .. Len(log)
    BY ChangesOK
  <2>2. DOMAIN log' = 1 .. Len(log) + 1
    BY <1>1, LenProperties
  <2>3. /\ Append(Changes, c) = [n \in 1 .. Len(log) + 1 |-> Append(Changes, c)[n]]
        /\ Append(Changes, c)[Len(log) + 1] = c
        /\ \A n \in 1 .. Len(log) : Append(Changes, c)[n] = Changes[n]
    <3>1. PICK C, d : C = Changes /\ d = c
      OBVIOUS
    <3>2. /\ Append(C, d) \in Seq(Directory!Change) /\ Len(Append(C, d)) = Len(log) + 1
          /\ Append(C, d)[Len(log) + 1] = d
          /\ \A n \in 1 .. Len(log) : Append(C, d)[n] = C[n]
      BY <1>2, <2>1, <3>1, AppendProperties
    <3>3. Append(C, d) \in [1 .. Len(log) + 1 -> Directory!Change]
      BY <3>2, LenProperties
    <3> QED BY <3>1, <3>2, <3>3
  <2>4. Changes' = [n \in 1 .. Len(log) + 1 |-> Changes'[n]]
    BY <2>2 DEF Changes
  <2>5. ASSUME NEW n \in 1 .. Len(log) + 1
        PROVE  Changes'[n] = Append(Changes, c)[n]
    <3>1. Changes'[n] = [put |-> log'[n].put, service |-> getServiceName(log'[n].key), host |-> log'[n].host]
      BY <2>2 DEF Changes
    <3>2. CASE n = Len(log) + 1
      BY <1>1, <2>3, <3>1, <3>2
    <3>3. CASE n # Len(log) + 1
      <4>1. n \in 1 .. Len(log)
        BY <1>1, <3>3, SMT
      <4> QED BY <1>1, <2>1, <2>3, <3>1, <4>1 DEF Changes
    <3> QED BY <3>2, <3>3
  <2> QED BY <2>3, <2>4, <2>5
<1> QED BY <1>2, <1>3

\* One more change in the registry: the past stays, and the hosts of its service
\* change by its host.
LEMMA OneMore ==
  ASSUME log \in Seq(Event), NEW e \in Event, log' = Append(log, e),
         NEW m, m = Len(log)
  PROVE  /\ log' \in Seq(Event) /\ Len(log') = Len(log) + 1 /\ log'[Len(log) + 1] = e
         /\ \A n \in 1 .. Len(log) : log'[n] = log[n]
         /\ \A s : \A n \in 0 .. m : After(s, n)' = After(s, n)
         /\ \A s : After(s, m + 1)' =
                     IF getServiceName(e.key) # s THEN After(s, m)
                     ELSE IF e.put THEN After(s, m) \cup {e.host}
                     ELSE After(s, m) \ {e.host}
<1> DEFINE c == [put |-> e.put, service |-> getServiceName(e.key), host |-> e.host]
<1>1. /\ log' \in Seq(Event) /\ Len(log') = Len(log) + 1 /\ Len(log) \in Nat
      /\ log'[Len(log) + 1] = e /\ \A n \in 1 .. Len(log) : log'[n] = log[n]
  BY AppendProperties, LenProperties
<1>2. c \in Directory!Change
  BY DEF Directory!Change, Event, Services
<1>3. Changes' = Append(Changes, c)
  BY Announces
<1>4. PICK C, D : C = Changes /\ D = Changes'
  OBVIOUS
<1>5. /\ C \in Seq(Directory!Change) /\ Len(C) = Len(log) /\ Len(log) \in Nat
      /\ D = Append(C, c) /\ D \in Seq(Directory!Change) /\ Len(D) = Len(log) + 1
      /\ D[Len(log) + 1] = c
  BY <1>2, <1>3, <1>4, ChangesOK, AppendProperties
<1>6. /\ c.put = e.put /\ c.service = getServiceName(e.key) /\ c.host = e.host
  OBVIOUS
<1>7. \A s, n : After(s, n) = Directory!HostsAfter(C, s, n) /\ After(s, n)' = Directory!HostsAfter(D, s, n)
  BY <1>4 DEF After
<1> HIDE DEF c
<1>8. \A s : \A n \in 0 .. Len(log) : Directory!HostsAfter(D, s, n) = Directory!HostsAfter(C, s, n)
  BY <1>2, <1>5, PastIsFixed
<1>9. ASSUME NEW s
      PROVE  Directory!HostsAfter(D, s, Len(log) + 1) =
               IF c.service # s THEN Directory!HostsAfter(C, s, Len(log))
               ELSE IF c.put THEN Directory!HostsAfter(C, s, Len(log)) \cup {c.host}
               ELSE Directory!HostsAfter(C, s, Len(log)) \ {c.host}
  <2>2. m \in 0 .. Len(D) - 1 /\ m \in 0 .. Len(log)
    BY <1>5, SMT
  <2>3. ASSUME NEW k \in 0 .. Len(D) - 1
        PROVE  Directory!HostsAfter(D, s, k + 1) =
                 IF D[k + 1].service # s THEN Directory!HostsAfter(D, s, k)
                 ELSE IF D[k + 1].put THEN Directory!HostsAfter(D, s, k) \cup {D[k + 1].host}
                 ELSE Directory!HostsAfter(D, s, k) \ {D[k + 1].host}
    <3>1. D \in Seq(Directory!Change)
      BY <1>5
    <3> QED BY <3>1, OneChange, Zenon
  <2>4. Directory!HostsAfter(D, s, m) = Directory!HostsAfter(C, s, m) /\ D[m + 1] = c
    BY <1>5, <1>8, <2>2
  <2> QED BY <2>2, <2>3, <2>4
<1>12. \A s : After(s, m) = Directory!HostsAfter(C, s, m) /\ After(s, m + 1)' = Directory!HostsAfter(D, s, m + 1)
  BY <1>7
<1>13. \A s : After(s, m + 1)' =
                 IF getServiceName(e.key) # s THEN After(s, m)
                 ELSE IF e.put THEN After(s, m) \cup {e.host}
                 ELSE After(s, m) \ {e.host}
  BY <1>6, <1>9, <1>12
<1>14. \A s : \A n \in 0 .. m : After(s, n)' = After(s, n)
  BY <1>7, <1>8
<1> QED BY <1>1, <1>13, <1>14

--------------------------------------------------------------------------------
(* As long as nothing disturbs the following                                  *)

\* etcd.hpp:57-80 without its gap; nobody starts again before the lease of the life
\* before is gone; every process has a key, and within its service a host, of its
\* own.  Crashes, restarts, leases that a partition takes from running processes,
\* and calls that fail remain.
Orderly ==
  /\ ~Gap /\ ~QuickRestart
  /\ \A i, j \in Inst : KeyOf[i] = KeyOf[j] => i = j
  /\ \A i, j \in Inst :
       HostOf[i] = HostOf[j] /\ getServiceName(KeyOf[i]) = getServiceName(KeyOf[j]) => i = j

\* Calls to etcd and brpc::Channel::Init succeed.
NothingFails == ~CallsFail /\ Flaky = {}

Undisturbed == Orderly /\ NothingFails

\* A rotation has no host the registry lacks, and lacks one only on account of a
\* failed call.
Shows(rotation, hosts) == rotation \subseteq hosts /\ (NothingFails => rotation = hosts)

\* Map and vector of a pool have the same hosts, each once.
Exact(p) ==
  /\ DOMAIN p.hosts = HostsInRotation(p)
  /\ \A i, j \in DOMAIN p.channels : p.channels[i].host = p.channels[j].host => i = j

\* A process has one lease at a time.
LeasesOK == \A l \in leases : l[2] = starts[l[1]]

\* The keys are the changes so far, and no host is put that is there.
LogOK ==
  /\ \A s : Registered(s) = After(s, Len(log))
  /\ \A n \in DOMAIN log :
       log[n].put => log[n].host \notin After(getServiceName(log[n].key), n - 1)

\* The hosts of a service whose callbacks of the listing have run.
Joined(s) == {kv[k].host : k \in {x \in DOMAIN kv : /\ getServiceName(x) = s
                                                    /\ \A n \in DOMAIN todo : todo[n].key # x}}

\* Between ls and watch the keys are divided among callbacks run and to run.
Listing ==
  /\ \A n \in DOMAIN todo :
       todo[n].put /\ todo[n].key \in DOMAIN kv /\ todo[n].host = kv[todo[n].key].host
  /\ \A m, n \in DOMAIN todo : todo[m].key = todo[n].key => m = n
  /\ \A s \in Declared : Shows(HostsInRotation(pools[s]), Joined(s))

\* Afterwards the pools are the registry after the changes handled.
Following ==
  /\ Len(todo) <= rev
  /\ \A n \in DOMAIN todo : todo[n] = log[rev - Len(todo) + n]
  /\ \A s \in Declared : Shows(HostsInRotation(pools[s]), After(s, rev - Len(todo)))

ViewOK ==
  /\ phase = "build" => todo = <<>> /\ \A s \in Declared : HostsInRotation(pools[s]) = {}
  /\ phase = "list" => Listing
  /\ phase \in {"watch", "dead"} => Following
  /\ \A s \in Declared : Exact(pools[s])

FollowInv == LeasesOK /\ LogOK /\ ViewOK

\* append of a host that is not in rotation.
LEMMA AppendedExact ==
  ASSUME NEW p, PoolInv(p), Exact(p), NEW h \in Host \ HostsInRotation(p), NEW id \in ChannelId
  PROVE  Exact(Appended(p, [host |-> h, id |-> id]))
<1> DEFINE c == [host |-> h, id |-> id]
           q == Appended(p, c)
<1>1. /\ q.channels = Append(p.channels, c)
      /\ DOMAIN q.hosts = DOMAIN p.hosts \cup {h}
      /\ HostsInRotation(q) = HostsInRotation(p) \cup {h}
  BY AppendedRotation
<1>2. c \in Channel /\ c.host = h /\ p.channels \in Seq(Channel)
  BY DEF Channel, PoolInv, IsPool
<1> HIDE DEF c, q
<1>3. /\ DOMAIN p.channels = 1 .. Len(p.channels) /\ Len(p.channels) \in Nat
      /\ DOMAIN q.channels = 1 .. Len(p.channels) + 1
      /\ \A n \in 1 .. Len(p.channels) : q.channels[n] = p.channels[n]
      /\ q.channels[Len(p.channels) + 1] = c
  BY <1>1, <1>2, AppendProperties, LenProperties
<1>4. \A n \in DOMAIN q.channels :
        \/ n \in DOMAIN p.channels /\ q.channels[n] = p.channels[n]
        \/ n = Len(p.channels) + 1 /\ q.channels[n] = c
  BY <1>3, SMT
<1>5. \A n \in DOMAIN p.channels : p.channels[n].host # h
  BY DEF HostsInRotation
<1>6. ASSUME NEW i \in DOMAIN q.channels, NEW j \in DOMAIN q.channels,
             q.channels[i].host = q.channels[j].host
      PROVE  i = j
  BY <1>2, <1>4, <1>5, <1>6 DEF Exact
<1>7. Exact(q)
  BY <1>1, <1>6 DEF Exact
<1> QED BY <1>7 DEF c, q

\* remove of a host that is in rotation once.
LEMMA RemovedExact ==
  ASSUME NEW p, PoolInv(p), Exact(p), NEW h \in DOMAIN p.hosts
  PROVE  /\ Exact(Removed(p, h))
         /\ HostsInRotation(Removed(p, h)) = HostsInRotation(p) \ {h}
<1>1. PICK i \in DOMAIN p.channels : RemovedAt(p, h, i)
  BY RemovedEntries
<1> DEFINE s == p.channels
           t == Removed(p, h).channels
<1>2. /\ DOMAIN s = 1 .. Len(s) /\ Len(s) \in Nat /\ i \in 1 .. Len(s) /\ s[i].host = h
      /\ DOMAIN t = 1 .. Len(s) - 1
      /\ \A k \in 1 .. Len(s) - 1 : t[k] = IF k < i THEN s[k] ELSE s[k + 1]
      /\ DOMAIN Removed(p, h).hosts = DOMAIN p.hosts \ {h}
  BY <1>1, RemovedKeepsPool DEF RemovedAt
<1>3. /\ \A m, n \in DOMAIN s : s[m].host = s[n].host => m = n
      /\ DOMAIN p.hosts = HostsInRotation(p)
  BY DEF Exact
<1>4. HostsInRotation(Removed(p, h)) = {t[n].host : n \in DOMAIN t}
  BY DEF HostsInRotation
<1> HIDE DEF s, t
<1>5. ASSUME NEW n \in DOMAIN t
      PROVE  \E m \in DOMAIN s : /\ m # i /\ t[n] = s[m]
                                 /\ m = IF n < i THEN n ELSE n + 1
  BY <1>2, SMT
<1>6. \A n \in DOMAIN t : t[n].host # h
  BY <1>2, <1>3, <1>5
<1>7. ASSUME NEW m \in DOMAIN t, NEW n \in DOMAIN t, t[m].host = t[n].host
      PROVE  m = n
  <2>1. PICK a \in DOMAIN s : t[m] = s[a] /\ a = IF m < i THEN m ELSE m + 1
    BY <1>5
  <2>2. PICK b \in DOMAIN s : t[n] = s[b] /\ b = IF n < i THEN n ELSE n + 1
    BY <1>5
  <2>3. a = b
    BY <1>3, <1>7, <2>1, <2>2
  <2> QED BY <1>2, <2>1, <2>2, <2>3, SMT
<1>8. HostsInRotation(Removed(p, h)) = HostsInRotation(p) \ {h}
  BY <1>4, <1>6, RemovedRotation
<1> QED BY <1>2, <1>3, <1>7, <1>8 DEF Exact, t

\* The hosts the registry has of a service, by the processes that put them.
LEMMA RegisteredHosts ==
  ASSUME IInv, NEW s, NEW h
  PROVE  h \in Registered(s) <=>
           \E i \in Inst : /\ KeyOf[i] \in DOMAIN kv /\ kv[KeyOf[i]].lease[1] = i
                           /\ getServiceName(KeyOf[i]) = s /\ HostOf[i] = h
<1>1. ASSUME NEW k \in DOMAIN kv
      PROVE  /\ kv[k].lease[1] \in Inst /\ k = KeyOf[kv[k].lease[1]]
             /\ kv[k].host = HostOf[kv[k].lease[1]]
  BY DEF IInv, RegistryOK, Lease
<1> QED BY <1>1 DEF Registered

\* A process that is about to put its key has none in the registry.
LEMMA FreshKey ==
  ASSUME IInv, Orderly, LeasesOK, NEW i \in Inst, At(i, "put")
  PROVE  /\ KeyOf[i] \notin DOMAIN kv
         /\ HostOf[i] \notin Registered(getServiceName(KeyOf[i]))
<1>1. KeyOf[i] \notin DOMAIN kv
  <2> SUFFICES ASSUME KeyOf[i] \in DOMAIN kv
               PROVE  FALSE
    OBVIOUS
  <2>1. PICK l : l = kv[KeyOf[i]].lease
    OBVIOUS
  <2>2. l \in leases /\ l \in Lease /\ KeyOf[i] = KeyOf[l[1]]
    BY <2>1 DEF IInv, RegistryOK, ProcsOK
  <2>3. l[1] \in Inst /\ l = <<l[1], l[2]>>
    BY <2>2 DEF Lease
  <2>4. l = CurrentLease(i)
    BY <2>2, <2>3 DEF Orderly, LeasesOK, CurrentLease
  <2>5. Did(i, "put") /\ stage[i] \in Off .. 3
    BY <2>1, <2>4 DEF IInv, RegistryOK, ProcsOK, At
  <2> QED BY <2>5, Stages, SMT DEF IInv, Off
<1>2. HostOf[i] \notin Registered(getServiceName(KeyOf[i]))
  BY <1>1, RegisteredHosts DEF Orderly
<1> QED BY <1>1, <1>2

\* What a put and the end of a lease do to the hosts of a service.
LEMMA PutRegistered ==
  ASSUME IInv, Orderly, LeasesOK, NEW i \in Inst, registry(i), NEW s
  PROVE  Registered(s)' = IF getServiceName(KeyOf[i]) # s THEN Registered(s)
                          ELSE Registered(s) \cup {HostOf[i]}
<1>1. /\ At(i, "put")
      /\ kv' = [k \in DOMAIN kv \cup {KeyOf[i]} |->
                  IF k = KeyOf[i] THEN [host |-> HostOf[i], lease |-> CurrentLease(i)]
                                  ELSE kv[k]]
  BY DEF registry
<1>2. KeyOf[i] \notin DOMAIN kv
  BY <1>1, FreshKey
<1>3. /\ DOMAIN kv' = DOMAIN kv \cup {KeyOf[i]}
      /\ kv'[KeyOf[i]].host = HostOf[i]
      /\ \A k \in DOMAIN kv : kv'[k] = kv[k]
  BY <1>1, <1>2
<1>4. Registered(s)' = {kv'[k].host : k \in {x \in DOMAIN kv' : getServiceName(x) = s}}
  BY DEF Registered
<1> QED BY <1>3, <1>4 DEF Registered

LEMMA ExpiredRegistered ==
  ASSUME IInv, Orderly, NEW l \in Lease, KeyOf[l[1]] \in DOMAIN kv, kv[KeyOf[l[1]]].lease = l,
         kv' = [k \in DOMAIN kv \ {KeyOf[l[1]]} |-> kv[k]], NEW s
  PROVE  Registered(s)' = IF getServiceName(KeyOf[l[1]]) # s THEN Registered(s)
                          ELSE Registered(s) \ {HostOf[l[1]]}
<1>1. PICK i \in Inst : i = l[1]
  BY DEF Lease
<1>2. /\ DOMAIN kv' = DOMAIN kv \ {KeyOf[i]}
      /\ \A k \in DOMAIN kv' : kv'[k] = kv[k]
  BY <1>1
<1>3. ASSUME NEW k \in DOMAIN kv
      PROVE  \E j \in Inst : k = KeyOf[j] /\ kv[k].host = HostOf[j]
  <2>1. kv[k].lease[1] \in Inst /\ k = KeyOf[kv[k].lease[1]] /\ kv[k].host = HostOf[kv[k].lease[1]]
    BY DEF IInv, RegistryOK, Lease
  <2> QED BY <2>1
<1>4. kv[KeyOf[i]].host = HostOf[i]
  BY <1>1 DEF IInv, RegistryOK
<1>5. \A k \in DOMAIN kv : k # KeyOf[i] /\ getServiceName(k) = getServiceName(KeyOf[i]) =>
                             kv[k].host # HostOf[i]
  BY <1>3 DEF Orderly
<1>6. Registered(s)' = {kv'[k].host : k \in {x \in DOMAIN kv' : getServiceName(x) = s}}
  BY DEF Registered
<1>7. CASE getServiceName(KeyOf[i]) # s
  BY <1>2, <1>6, <1>7, <1>1 DEF Registered
<1>8. CASE getServiceName(KeyOf[i]) = s
  <2>1. ASSUME NEW h
        PROVE  h \in Registered(s)' <=> h \in Registered(s) \ {HostOf[i]}
    BY <1>2, <1>4, <1>5, <1>6, <1>8 DEF Registered
  <2> QED BY <1>1, <1>8, <2>1
<1> QED BY <1>1, <1>7, <1>8

\* One more change in the registry, of which the observer knows nothing yet.
LEMMA LogGrows ==
  ASSUME IInv, LogOK, ViewOK, UNCHANGED observer, phase # "list",
         NEW e \in Event, log' = Append(log, e),
         \A s : Registered(s)' = IF getServiceName(e.key) # s THEN Registered(s)
                                 ELSE IF e.put THEN Registered(s) \cup {e.host}
                                 ELSE Registered(s) \ {e.host},
         e.put => e.host \notin Registered(getServiceName(e.key))
  PROVE  LogOK' /\ ViewOK'
<1>1. PICK m : m = Len(log)
  OBVIOUS
<1>2. log \in Seq(Event) /\ m \in Nat /\ DOMAIN log = 1 .. m
  BY <1>1, LenProperties DEF IInv, RegistryOK
<1>3. /\ Len(log') = m + 1 /\ DOMAIN log' = 1 .. m + 1 /\ log'[m + 1] = e
      /\ \A n \in 1 .. m : log'[n] = log[n]
      /\ \A s : \A n \in 0 .. m : After(s, n)' = After(s, n)
      /\ \A s : After(s, m + 1)' =
                  IF getServiceName(e.key) # s THEN After(s, m)
                  ELSE IF e.put THEN After(s, m) \cup {e.host}
                  ELSE After(s, m) \ {e.host}
  BY <1>1, <1>2, OneMore, LenProperties
<1>4. \A s : Registered(s) = After(s, m)
  BY <1>1 DEF LogOK
<1>5. \A s : Registered(s)' = After(s, m + 1)'
  BY <1>3, <1>4
<1>6. \A s : After(s, Len(log))' = After(s, m + 1)'
  BY <1>3 DEF After
<1>7. ASSUME NEW n \in DOMAIN log', log'[n].put
      PROVE  log'[n].host \notin After(getServiceName(log[n].key), n - 1)'
  <2>1. PICK s, j : s = getServiceName(log'[n].key) /\ j = n - 1
    OBVIOUS
  <2>2. j \in 0 .. m
    BY <1>2, <1>3, <2>1, SMT
  <2>3. After(getServiceName(log[n].key), n - 1)' = After(s, j)'
    BY <2>1 DEF After
  <2>4. CASE n = m + 1
    <3>1. log'[n] = e /\ j = m
      BY <1>2, <1>3, <2>1, <2>4, SMT
    <3>2. After(s, j)' = Registered(s) /\ s = getServiceName(e.key)
      BY <1>3, <1>4, <2>1, <2>2, <3>1
    <3> QED BY <1>7, <2>3, <3>1, <3>2
  <2>5. CASE n # m + 1
    <3>1. n \in 1 .. m
      BY <1>2, <1>3, <2>5, SMT
    <3>2. log'[n] = log[n] /\ After(s, j)' = After(s, j)
      BY <1>3, <2>2, <3>1
    <3> QED BY <1>2, <1>7, <2>1, <2>3, <3>1, <3>2 DEF LogOK
  <2> QED BY <2>4, <2>5
<1>8. LogOK'
  BY <1>5, <1>6, <1>7 DEF LogOK
<1>9. UNCHANGED <<phase, todo, rev, pools>>
  BY DEF observer
<1>10. ASSUME phase \in {"watch", "dead"}
       PROVE  Following'
  <2>1. PICK t, r : t = Len(todo) /\ r = rev
    OBVIOUS
  <2>2. /\ t \in Nat /\ r \in 0 .. m /\ t <= r /\ DOMAIN todo = 1 .. t
        /\ \A n \in 1 .. t : todo[n] = log[r - t + n]
        /\ \A s \in Declared : Shows(HostsInRotation(pools[s]), After(s, r - t))
    BY <1>1, <1>10, <2>1, LenProperties DEF IInv, ObserverOK, ViewOK, Following
  <2>3. r - t \in 0 .. m /\ \A n \in 1 .. t : r - t + n \in 1 .. m
    BY <1>2, <2>2, SMT
  <2>4. \A s \in Declared : Shows(HostsInRotation(pools[s]), After(s, r - t)')
    BY <1>3, <2>2, <2>3
  <2>5. \A s : After(s, rev - Len(todo))' = After(s, r - t)'
    BY <1>9, <2>1 DEF After
  <2>6. \A n \in 1 .. t : todo[n] = log'[r - t + n]
    BY <1>3, <2>2, <2>3
  <2>7. \A s \in Declared : HostsInRotation(pools[s])' = HostsInRotation(pools[s])
    BY <1>9 DEF HostsInRotation
  <2> QED BY <1>9, <2>1, <2>2, <2>4, <2>5, <2>6, <2>7 DEF Following
<1>11. \A s \in Declared : /\ HostsInRotation(pools[s])' = HostsInRotation(pools[s])
                            /\ Exact(pools[s]) => Exact(pools[s])'
  BY <1>9 DEF HostsInRotation, Exact
<1>12. ViewOK'
  BY <1>9, <1>10, <1>11 DEF ViewOK
<1> QED BY <1>8, <1>12

\* A step that changes neither the registry nor the observer.
LEMMA FollowStays ==
  ASSUME LogOK, ViewOK, UNCHANGED <<kv, log, phase, todo, rev, pools>>
  PROVE  LogOK' /\ ViewOK'
<1>1. /\ \A s : Registered(s)' = Registered(s)
      /\ \A s, n : After(s, n)' = Directory!HostsAfter(Changes', s, n)
      /\ Changes' = Changes
  BY DEF Registered, After, Changes
<1>2. /\ \A s, n : After(s, n)' = After(s, n)
      /\ \A s : After(s, Len(log))' = After(s, Len(log))
      /\ \A s : After(s, rev - Len(todo))' = After(s, rev - Len(todo))
      /\ \A n : After(getServiceName(log[n].key), n - 1)' = After(getServiceName(log[n].key), n - 1)
  BY <1>1 DEF After
<1>3. LogOK'
  BY <1>1, <1>2 DEF LogOK
<1>4. \A s \in Declared : /\ HostsInRotation(pools[s])' = HostsInRotation(pools[s])
                          /\ Exact(pools[s]) => Exact(pools[s])'
  BY DEF HostsInRotation, Exact
<1>5. Listing => Listing'
  <2>1. \A s : Joined(s)' = Joined(s)
    BY DEF Joined
  <2> QED BY <1>4, <2>1 DEF Listing
<1>6. Following => Following'
  BY <1>2, <1>4 DEF Following
<1>7. ViewOK'
  BY <1>4, <1>5, <1>6 DEF ViewOK
<1> QED BY <1>3, <1>7

\* The steps of a process.
LEMMA ProcessFollow ==
  ASSUME IInv, Orderly, FollowInv, NEW i \in Inst, Process(i)
  PROVE  FollowInv'
<1>0. LeasesOK /\ LogOK /\ ViewOK
  BY DEF FollowInv
<1>1. CASE start(i)
  <2>1. /\ CurrentLease(i) \notin leases
        /\ starts' = [starts EXCEPT ![i] = @ + 1]
        /\ UNCHANGED <<leases, kv, log, phase, todo, rev, pools>>
    BY <1>1 DEF start, Orderly, etcd, observer
  <2>2. ASSUME NEW l \in leases
        PROVE  l[2] = starts'[l[1]]
    <3>1. l[1] \in Inst /\ l = <<l[1], l[2]>> /\ l[2] = starts[l[1]]
      BY <1>0 DEF IInv, ProcsOK, LeasesOK, Lease
    <3>2. l[1] # i
      BY <2>1, <3>1 DEF CurrentLease
    <3> QED BY <2>1, <3>1, <3>2 DEF IInv, ProcsOK
  <2>3. LeasesOK'
    BY <2>1, <2>2 DEF LeasesOK
  <2> QED BY <1>0, <2>1, <2>3, FollowStays DEF FollowInv
<1>2. CASE grantLease(i)
  <2>1. /\ leases' = leases \cup {CurrentLease(i)}
        /\ UNCHANGED <<starts, kv, log, phase, todo, rev, pools>>
    BY <1>2 DEF grantLease, observer
  <2>2. LeasesOK'
    BY <1>0, <2>1 DEF LeasesOK, CurrentLease
  <2> QED BY <1>0, <2>1, <2>2, FollowStays DEF FollowInv
<1>3. CASE registry(i)
  <2>1. /\ At(i, "put") /\ log' = Append(log, Put(i)) /\ phase # "list"
        /\ UNCHANGED <<starts, leases>> /\ UNCHANGED observer
    BY <1>3 DEF registry, Quiet, Orderly
  <2>2. LeasesOK'
    BY <1>0, <2>1 DEF LeasesOK
  <2>3. /\ Put(i) \in Event /\ Put(i).put = TRUE /\ Put(i).key = KeyOf[i] /\ Put(i).host = HostOf[i]
    BY Instances DEF Put
  <2>4. \A s : Registered(s)' = IF getServiceName(KeyOf[i]) # s THEN Registered(s)
                                ELSE Registered(s) \cup {HostOf[i]}
    BY <1>0, <1>3, PutRegistered
  <2>5. HostOf[i] \notin Registered(getServiceName(KeyOf[i]))
    BY <1>0, <2>1, FreshKey
  <2>6. LogOK' /\ ViewOK'
    BY <1>0, <2>1, <2>3, <2>4, <2>5, LogGrows
  <2> QED BY <2>2, <2>6 DEF FollowInv
<1>4. CASE registryFailed(i) \/ listen(i) \/ crash(i)
  <2>1. UNCHANGED <<starts, leases, kv, log, phase, todo, rev, pools>>
    BY <1>4 DEF registryFailed, listen, crash, etcd, observer
  <2>2. LeasesOK'
    BY <1>0, <2>1 DEF LeasesOK
  <2> QED BY <1>0, <2>1, <2>2, FollowStays DEF FollowInv
<1> QED BY <1>1, <1>2, <1>3, <1>4 DEF Process

\* The end of a lease.
LEMMA expireFollow ==
  ASSUME IInv, Orderly, FollowInv, NEW l \in Lease, expire(l)
  PROVE  FollowInv'
<1>0. LeasesOK /\ LogOK /\ ViewOK
  BY DEF FollowInv
<1>1. /\ leases' = leases \ {l} /\ phase # "list" /\ UNCHANGED starts /\ UNCHANGED observer
      /\ UNCHANGED <<phase, todo, rev, pools>>
  BY DEF expire, Quiet, Orderly, procs, observer
<1>2. LeasesOK'
  BY <1>0, <1>1 DEF LeasesOK
<1>3. PICK i \in Inst : i = l[1]
  BY DEF Lease
<1>4. CASE kv' = kv /\ log' = log
  BY <1>0, <1>1, <1>2, <1>4, FollowStays DEF FollowInv
<1>5. CASE /\ KeyOf[i] \in DOMAIN kv /\ kv[KeyOf[i]].lease = l
           /\ kv' = [k \in DOMAIN kv \ {KeyOf[i]} |-> kv[k]]
           /\ log' = Append(log, [put |-> FALSE, key |-> KeyOf[i], host |-> HostOf[i]])
  <2>1. PICK e : e = [put |-> FALSE, key |-> KeyOf[i], host |-> HostOf[i]]
    OBVIOUS
  <2>2. e \in Event /\ e.put = FALSE /\ e.key = KeyOf[i] /\ e.host = HostOf[i]
    BY <2>1, Instances DEF Event
  <2>3. \A s : Registered(s)' = IF getServiceName(KeyOf[i]) # s THEN Registered(s)
                                ELSE Registered(s) \ {HostOf[i]}
    BY <1>3, <1>5, ExpiredRegistered
  <2>4. log' = Append(log, e)
    BY <1>5, <2>1
  <2>5. LogOK' /\ ViewOK'
    BY <1>0, <1>1, <2>2, <2>3, <2>4, LogGrows
  <2> QED BY <1>2, <2>5 DEF FollowInv
<1> QED BY <1>3, <1>4, <1>5, Expired

\* The hosts after one more of the changes there are.
LEMMA AfterNext ==
  ASSUME log \in Seq(Event), NEW n \in 0 .. Len(log) - 1, NEW s
  PROVE  After(s, n + 1) = IF getServiceName(log[n + 1].key) # s THEN After(s, n)
                           ELSE IF log[n + 1].put THEN After(s, n) \cup {log[n + 1].host}
                           ELSE After(s, n) \ {log[n + 1].host}
<1>1. PICK C : C = Changes
  OBVIOUS
<1>2. /\ C \in Seq(Directory!Change) /\ Len(C) = Len(log) /\ Len(log) \in Nat
      /\ \A k \in 1 .. Len(log) :
           /\ C[k].put = log[k].put
           /\ C[k].service = getServiceName(log[k].key)
           /\ C[k].host = log[k].host
  BY <1>1, ChangesOK
<1>3. \A k : After(s, k) = Directory!HostsAfter(C, s, k)
  BY <1>1 DEF After
<1>4. ASSUME NEW k \in 0 .. Len(C) - 1
      PROVE  Directory!HostsAfter(C, s, k + 1) =
               IF C[k + 1].service # s THEN Directory!HostsAfter(C, s, k)
               ELSE IF C[k + 1].put THEN Directory!HostsAfter(C, s, k) \cup {C[k + 1].host}
               ELSE Directory!HostsAfter(C, s, k) \ {C[k + 1].host}
  <2>1. C \in Seq(Directory!Change)
    BY <1>2
  <2> QED BY <2>1, OneChange, Zenon
<1>5. n \in 0 .. Len(C) - 1 /\ n + 1 \in 1 .. Len(log)
  BY <1>2, SMT
<1> QED BY <1>2, <1>3, <1>4, <1>5

\* ls: every key is to be handled.
LEMMA lsFollow ==
  ASSUME IInv, Orderly, ViewOK, ls
  PROVE  ViewOK'
<1>1. PICK f \in SetToSeqs(DOMAIN kv) :
        todo' = [n \in DOMAIN f |-> [put |-> TRUE, key |-> f[n], host |-> kv[f[n]].host]]
  BY DEF ls
<1>2. /\ phase = "build" /\ phase' = "list"
      /\ UNCHANGED <<kv, log, rev, pools>>
  BY DEF ls, etcd
<1>3. PICK N : N = Cardinality(DOMAIN kv)
  OBVIOUS
<1>4. /\ N \in Nat /\ f \in [1 .. N -> DOMAIN kv] /\ DOMAIN f = 1 .. N
      /\ \A m, n \in 1 .. N : f[m] = f[n] => m = n
      /\ \A x \in DOMAIN kv : \E n \in 1 .. N : f[n] = x
  <2>1. IsFiniteSet(DOMAIN kv)
    BY DEF IInv, RegistryOK
  <2> QED BY <1>3, <2>1, Listed
<1>5. /\ DOMAIN todo' = 1 .. N
      /\ \A n \in 1 .. N : /\ todo'[n].put = TRUE /\ todo'[n].key = f[n]
                           /\ todo'[n].host = kv[f[n]].host /\ f[n] \in DOMAIN kv
  BY <1>1, <1>4
<1>6. \A s \in Declared : /\ HostsInRotation(pools[s])' = HostsInRotation(pools[s])
                          /\ HostsInRotation(pools[s]) = {}
                          /\ Exact(pools[s])' <=> Exact(pools[s])
  BY <1>2 DEF HostsInRotation, Exact, ViewOK
<1>7. \A s \in Declared : Joined(s)' = {}
  BY <1>2, <1>4, <1>5 DEF Joined
<1>8. \A s \in Declared : Shows(HostsInRotation(pools[s])', Joined(s)')
  BY <1>6, <1>7 DEF Shows
<1>9. \A s \in Declared : Shows(HostsInRotation(pools[s]), Joined(s))'
  BY <1>8 DEF Shows
<1>10. Listing'
  BY <1>2, <1>4, <1>5, <1>9 DEF Listing
<1> QED BY <1>2, <1>6, <1>10 DEF ViewOK

\* A listing that failed: there is nothing to handle, and nothing in rotation.
LEMMA lsFailedFollow ==
  ASSUME ViewOK, lsFailed
  PROVE  ViewOK'
<1>1. /\ CallsFail /\ phase = "build" /\ phase' = "list" /\ todo = <<>>
      /\ UNCHANGED <<kv, log, todo, rev, pools>>
  BY DEF lsFailed, etcd, ViewOK
<1>2. \A s \in Declared : /\ HostsInRotation(pools[s])' = HostsInRotation(pools[s])
                          /\ HostsInRotation(pools[s]) = {}
                          /\ Exact(pools[s])' <=> Exact(pools[s])
  BY <1>1 DEF HostsInRotation, Exact, ViewOK
<1>3. DOMAIN todo' = {}
  BY <1>1
<1>4. \A s \in Declared : Shows(HostsInRotation(pools[s]), Joined(s))'
  BY <1>1, <1>2 DEF Shows, NothingFails
<1>5. Listing'
  BY <1>1, <1>3, <1>4 DEF Listing
<1> QED BY <1>1, <1>2, <1>5 DEF ViewOK

\* The stream ends: the pools stay what the registry was.
LEMMA streamErrorFollow ==
  ASSUME ViewOK, streamError
  PROVE  ViewOK'
<1>1. /\ phase = "watch" /\ phase' = "dead"
      /\ UNCHANGED <<kv, log, todo, rev, pools>>
  BY DEF streamError, etcd
<1>2. \A s \in Declared : /\ HostsInRotation(pools[s])' = HostsInRotation(pools[s])
                          /\ Exact(pools[s])' <=> Exact(pools[s])
  BY <1>1 DEF HostsInRotation, Exact
<1>3. \A s : After(s, rev - Len(todo))' = After(s, rev - Len(todo))
  BY <1>1 DEF After, Changes
<1>4. Following'
  BY <1>1, <1>2, <1>3 DEF ViewOK, Following
<1> QED BY <1>1, <1>2, <1>4 DEF ViewOK

\* The watch is created: everything listed was handled.
LEMMA watchFollow ==
  ASSUME IInv, LogOK, ViewOK, watch
  PROVE  /\ ViewOK'
         /\ todo = <<>> /\ rev' = Len(log)
         /\ \A s \in Declared : Shows(HostsInRotation(pools[s]), After(s, Len(log)))
<1>1. /\ phase = "list" /\ phase' = "watch" /\ todo = <<>> /\ rev' = Len(log)
      /\ UNCHANGED <<kv, log, todo, pools>>
  BY DEF watch, etcd
<1>2. DOMAIN todo = {} /\ Len(todo) = 0
  BY <1>1
<1>3. Len(log) \in Nat
  BY LenProperties DEF IInv, RegistryOK
<1>4. \A s \in Declared : Shows(HostsInRotation(pools[s]), Registered(s))
  <2>1. \A s : Registered(s) = Joined(s)
    BY <1>2 DEF Registered, Joined
  <2> QED BY <1>1, <2>1 DEF ViewOK, Listing
<1>5. \A s \in Declared : Shows(HostsInRotation(pools[s]), After(s, Len(log)))
  BY <1>4 DEF LogOK
<1>6. /\ Changes' = Changes
      /\ Len(log) - 0 = Len(log)
  BY <1>1, <1>3, SMT DEF Changes
<1>7. \A s : After(s, rev - Len(todo))' = After(s, Len(log))
  BY <1>1, <1>2, <1>6 DEF After
<1>8. \A s \in Declared : /\ HostsInRotation(pools[s])' = HostsInRotation(pools[s])
                          /\ Exact(pools[s]) => Exact(pools[s])'
  BY <1>1 DEF HostsInRotation, Exact
<1>9. Following'
  BY <1>1, <1>2, <1>3, <1>5, <1>7, <1>8, SMT DEF Following
<1>10. ViewOK'
  BY <1>1, <1>8, <1>9 DEF ViewOK
<1> QED BY <1>1, <1>5, <1>10

\* A response: the next changes are to be handled.
LEMMA respondFollow ==
  ASSUME IInv, ViewOK, respond
  PROVE  /\ ViewOK'
         /\ todo = <<>> /\ rev' - Len(todo') = rev
<1>1. /\ phase = "watch" /\ todo = <<>>
      /\ UNCHANGED <<kv, log, phase, pools>>
  BY DEF respond, etcd
<1>2. PICK n \in rev + 1 .. Len(log) : todo' = SubSeq(log, rev + 1, n) /\ rev' = n
  BY DEF respond
<1>3. /\ log \in Seq(Event) /\ Len(log) \in Nat /\ DOMAIN log = 1 .. Len(log)
      /\ rev \in 0 .. Len(log)
  BY LenProperties DEF IInv, RegistryOK, ObserverOK
<1>4. /\ n \in Nat /\ rev \in Nat /\ rev <= n
      /\ Len(todo') = n - rev /\ DOMAIN todo' = 1 .. n - rev
      /\ \A j \in 1 .. n - rev : todo'[j] = log[rev + j]
  BY <1>2, <1>3, SMT
<1>5. rev' - Len(todo') = rev /\ Len(todo') <= rev' /\ Len(todo) = 0 /\ rev - 0 = rev
  BY <1>1, <1>2, <1>4, SMT
<1>6. \A s : After(s, rev - Len(todo))' = After(s, rev)
  BY <1>1, <1>5 DEF After, Changes
<1>7. \A s \in Declared : Shows(HostsInRotation(pools[s]), After(s, rev))
  BY <1>1, <1>5 DEF ViewOK, Following
<1>8. \A s \in Declared : /\ HostsInRotation(pools[s])' = HostsInRotation(pools[s])
                          /\ Exact(pools[s]) => Exact(pools[s])'
  BY <1>1 DEF HostsInRotation, Exact
<1>9. \A j \in DOMAIN todo' : todo'[j] = log'[rev' - Len(todo') + j]
  BY <1>1, <1>4, <1>5
<1>10. Following'
  BY <1>5, <1>6, <1>7, <1>8, <1>9 DEF Following
<1>11. ViewOK'
  BY <1>1, <1>8, <1>10 DEF ViewOK
<1> QED BY <1>1, <1>5, <1>11

\* One callback: the rotation of its service gains or loses its host, no other
\* rotation changes.  A channel that cannot be initialised leaves it as it was.
LEMMA Turned ==
  ASSUME IInv, \A s \in Declared : Exact(pools[s]), callback,
         NEW e, e = Head(todo),
         e.put => \A s \in Declared : getServiceName(e.key) = s =>
                                        e.host \notin HostsInRotation(pools[s])
  PROVE  \A s \in Declared :
           /\ Exact(pools'[s])
           /\ \/ HostsInRotation(pools'[s]) =
                   IF getServiceName(e.key) # s THEN HostsInRotation(pools[s])
                   ELSE IF e.put THEN HostsInRotation(pools[s]) \cup {e.host}
                   ELSE HostsInRotation(pools[s]) \ {e.host}
              \/ /\ ~NothingFails /\ e.put /\ getServiceName(e.key) = s
                 /\ HostsInRotation(pools'[s]) = HostsInRotation(pools[s])
<1>0. todo \in Seq(Event) /\ todo # <<>>
  BY DEF IInv, ObserverOK, callback
<1>1. e \in Event /\ e.host \in Host
  <2>1. e \in Event
    BY <1>0, Rest
  <2> QED BY <2>1 DEF Event
<1>2. ASSUME NEW s \in Declared
      PROVE  /\ Exact(pools'[s])
             /\ \/ HostsInRotation(pools'[s]) =
                     IF getServiceName(e.key) # s THEN HostsInRotation(pools[s])
                     ELSE IF e.put THEN HostsInRotation(pools[s]) \cup {e.host}
                     ELSE HostsInRotation(pools[s]) \ {e.host}
                \/ /\ ~NothingFails /\ e.put /\ getServiceName(e.key) = s
                   /\ HostsInRotation(pools'[s]) = HostsInRotation(pools[s])
  <2>1. PoolInv(pools[s]) /\ Exact(pools[s])
    BY DEF IInv, ObserverOK
  <2>2. CASE /\ pools'[s] = pools[s]
             /\ \/ getServiceName(e.key) # s
                \/ ~e.put /\ e.host \notin DOMAIN pools[s].hosts
    <3>1. ~e.put /\ e.host \notin DOMAIN pools[s].hosts =>
            HostsInRotation(pools[s]) \ {e.host} = HostsInRotation(pools[s])
      BY <2>1 DEF Exact
    <3> QED BY <2>1, <2>2, <3>1
  <2>3. ASSUME getServiceName(e.key) = s, e.put,
               NEW id \in ChannelId \ LiveIds(pools[s]),
               pools'[s] = Appended(pools[s], [host |-> e.host, id |-> id])
        PROVE  /\ Exact(pools'[s])
               /\ HostsInRotation(pools'[s]) = HostsInRotation(pools[s]) \cup {e.host}
    BY <1>1, <2>1, <2>3, AppendedExact, AppendedRotation
  <2>4. CASE /\ getServiceName(e.key) = s /\ ~e.put
             /\ e.host \in DOMAIN pools[s].hosts /\ pools'[s] = Removed(pools[s], e.host)
    BY <2>1, <2>4, RemovedExact
  <2>5. CASE getServiceName(e.key) = s /\ e.put /\ e.host \in Flaky /\ pools'[s] = pools[s]
    BY <2>1, <2>5 DEF NothingFails
  <2> QED BY <2>2, <2>3, <2>4, <2>5, Handled
<1> QED BY <1>2

\* A callback of the listing.
LEMMA callbackLists ==
  ASSUME IInv, Orderly, ViewOK, callback, phase = "list"
  PROVE  ViewOK'
<1>1. /\ todo # <<>> /\ todo' = Tail(todo) /\ todo \in Seq(Event)
      /\ phase' = phase /\ kv' = kv
      /\ Listing /\ \A s \in Declared : Exact(pools[s])
  BY DEF callback, etcd, IInv, ObserverOK, ViewOK
<1>2. /\ Head(todo) = todo[1] /\ 1 \in DOMAIN todo
      /\ Len(todo) \in Nat \ {0} /\ Len(todo') = Len(todo) - 1
      /\ DOMAIN todo = 1 .. Len(todo) /\ DOMAIN todo' = 1 .. Len(todo')
      /\ \A n \in DOMAIN todo' : n + 1 \in DOMAIN todo /\ todo'[n] = todo[n + 1]
  BY <1>1, Rest
<1>3. PICK e : e = Head(todo)
  OBVIOUS
<1>4. /\ e.put /\ e.key \in DOMAIN kv /\ e.host = kv[e.key].host
      /\ \A m, n \in DOMAIN todo : todo[m].key = todo[n].key => m = n
      /\ \A n \in DOMAIN todo : todo[n].put /\ todo[n].key \in DOMAIN kv /\ todo[n].host = kv[todo[n].key].host
  BY <1>1, <1>2, <1>3 DEF Listing
<1> DEFINE Left(t) == {t[n].key : n \in DOMAIN t}
           Done(s, L) == {kv[k].host : k \in {x \in DOMAIN kv : getServiceName(x) = s /\ x \notin L}}
<1>5. ASSUME NEW s \in Declared
      PROVE  Shows(HostsInRotation(pools[s]), Done(s, Left(todo)))
  <2>1. Joined(s) = Done(s, Left(todo))
    BY DEF Joined
  <2> QED BY <1>1, <2>1 DEF Listing
<1>6. Left(todo) = Left(todo') \cup {e.key} /\ e.key \notin Left(todo')
  <2>1. ASSUME NEW n \in DOMAIN todo
        PROVE  todo[n].key \in Left(todo') \cup {e.key}
    <3>1. CASE n = 1
      BY <1>2, <1>3, <3>1
    <3>2. CASE n # 1
      <4>1. n - 1 \in DOMAIN todo' /\ n - 1 + 1 = n
        BY <1>2, <3>2, SMT
      <4> QED BY <1>2, <4>1
    <3> QED BY <3>1, <3>2
  <2>2. Left(todo') \subseteq Left(todo) /\ e.key \in Left(todo)
    BY <1>2, <1>3
  <2>3. ASSUME NEW n \in DOMAIN todo'
        PROVE  todo'[n].key # e.key
    <3>1. n + 1 \in DOMAIN todo /\ todo'[n] = todo[n + 1] /\ n + 1 # 1
      BY <1>2, SMT
    <3> QED BY <1>2, <1>3, <1>4, <3>1
  <2> QED BY <2>1, <2>2, <2>3
<1>7. ASSUME NEW k \in DOMAIN kv, kv[k].host = e.host, getServiceName(k) = getServiceName(e.key)
      PROVE  k = e.key
  <2>1. ASSUME NEW x \in DOMAIN kv
        PROVE  \E j \in Inst : x = KeyOf[j] /\ kv[x].host = HostOf[j]
    BY DEF IInv, RegistryOK, Lease
  <2> QED BY <1>4, <1>7, <2>1 DEF Orderly
<1> HIDE DEF Left
<1>8. \A s \in Declared : getServiceName(e.key) = s => e.host \notin HostsInRotation(pools[s])
  BY <1>5, <1>6, <1>7 DEF Shows
<1>9. \A s \in Declared :
        /\ Exact(pools'[s])
        /\ \/ HostsInRotation(pools'[s]) =
                IF getServiceName(e.key) # s THEN HostsInRotation(pools[s])
                ELSE HostsInRotation(pools[s]) \cup {e.host}
           \/ /\ ~NothingFails /\ getServiceName(e.key) = s
              /\ HostsInRotation(pools'[s]) = HostsInRotation(pools[s])
  BY <1>1, <1>3, <1>4, <1>8, Turned
<1>10. ASSUME NEW s \in Declared
       PROVE  Shows(HostsInRotation(pools'[s]), Done(s, Left(todo')))
  <2>1. CASE getServiceName(e.key) # s
    <3>1. Done(s, Left(todo')) = Done(s, Left(todo))
      BY <1>6, <2>1
    <3> QED BY <1>5, <1>9, <2>1, <3>1
  <2>2. CASE getServiceName(e.key) = s
    <3>1. Done(s, Left(todo')) = Done(s, Left(todo)) \cup {e.host}
      BY <1>4, <1>6, <2>2
    <3>2. Shows(HostsInRotation(pools[s]), Done(s, Left(todo)))
      BY <1>5
    <3> HIDE DEF Done
    <3> QED BY <1>9, <2>2, <3>1, <3>2 DEF Shows
  <2> QED BY <2>1, <2>2
<1>11. \A s \in Declared : Joined(s)' = Done(s, Left(todo'))
  BY <1>1 DEF Left, Joined
<1>12. \A m, n \in DOMAIN todo' : todo'[m].key = todo'[n].key => m = n
  BY <1>2, <1>4, SMT
<1> HIDE DEF Done
<1>13. \A s \in Declared : HostsInRotation(pools[s])' = HostsInRotation(pools'[s])
                           /\ (Exact(pools[s])' <=> Exact(pools'[s]))
  BY DEF HostsInRotation, Exact
<1>14. \A s \in Declared : Shows(HostsInRotation(pools[s]), Joined(s))'
  BY <1>10, <1>11, <1>13 DEF Shows
<1>15. Listing'
  BY <1>1, <1>2, <1>4, <1>12, <1>14 DEF Listing
<1> QED BY <1>1, <1>9, <1>13, <1>15 DEF ViewOK

\* A callback of a response: one more of the changes is in the pools.
LEMMA callbackFollows ==
  ASSUME IInv, Orderly, LogOK, ViewOK, callback, phase \in {"watch", "dead"},
         NEW n, n = rev - Len(todo)
  PROVE  /\ ViewOK'
         /\ n \in 0 .. Len(log) - 1 /\ rev' - Len(todo') = n + 1
         /\ Head(todo) = log[n + 1]
         /\ NothingFails => \A s \in Declared :
              HostsInRotation(pools'[s]) =
                IF getServiceName(log[n + 1].key) # s THEN HostsInRotation(pools[s])
                ELSE IF log[n + 1].put THEN HostsInRotation(pools[s]) \cup {log[n + 1].host}
                ELSE HostsInRotation(pools[s]) \ {log[n + 1].host}
<1>1. /\ todo # <<>> /\ todo' = Tail(todo) /\ todo \in Seq(Event)
      /\ phase' = phase /\ log' = log /\ rev' = rev
      /\ Following /\ \A s \in Declared : Exact(pools[s])
      /\ log \in Seq(Event) /\ rev \in 0 .. Len(log)
  BY DEF callback, etcd, IInv, RegistryOK, ObserverOK, ViewOK
<1>2. /\ Head(todo) = todo[1] /\ 1 \in DOMAIN todo
      /\ Len(todo) \in Nat \ {0} /\ Len(todo') = Len(todo) - 1
      /\ DOMAIN todo = 1 .. Len(todo) /\ DOMAIN todo' = 1 .. Len(todo')
      /\ \A j \in DOMAIN todo' : j + 1 \in DOMAIN todo /\ todo'[j] = todo[j + 1]
  BY <1>1, Rest
<1>3. /\ Len(todo) <= rev
      /\ \A j \in DOMAIN todo : todo[j] = log[n + j]
      /\ \A s \in Declared : Shows(HostsInRotation(pools[s]), After(s, n))
  BY <1>1 DEF Following
<1>4. Len(log) \in Nat /\ DOMAIN log = 1 .. Len(log)
  BY <1>1, LenProperties
<1>5. /\ n \in 0 .. Len(log) - 1 /\ rev' - Len(todo') = n + 1 /\ Len(todo') <= rev'
      /\ n + 1 \in DOMAIN log /\ n + 1 - 1 = n
  BY <1>1, <1>2, <1>3, <1>4, SMT
<1>6. PICK e : e = log[n + 1]
  OBVIOUS
<1>7. Head(todo) = e
  BY <1>2, <1>3, <1>6
<1>8. e.put => e.host \notin After(getServiceName(e.key), n)
  <2>1. PICK m : m = n + 1
    OBVIOUS
  <2>2. m \in DOMAIN log /\ m - 1 = n /\ log[m] = e
    BY <1>5, <1>6, <2>1
  <2> QED BY <2>2 DEF LogOK
<1>9. \A s \in Declared :
        /\ Exact(pools'[s])
        /\ \/ HostsInRotation(pools'[s]) =
                IF getServiceName(e.key) # s THEN HostsInRotation(pools[s])
                ELSE IF e.put THEN HostsInRotation(pools[s]) \cup {e.host}
                ELSE HostsInRotation(pools[s]) \ {e.host}
           \/ /\ ~NothingFails /\ e.put /\ getServiceName(e.key) = s
              /\ HostsInRotation(pools'[s]) = HostsInRotation(pools[s])
  <2>1. e.put => \A s \in Declared : getServiceName(e.key) = s => e.host \notin HostsInRotation(pools[s])
    BY <1>3, <1>8 DEF Shows
  <2> QED BY <1>1, <1>7, <2>1, Turned
<1>10. \A s : After(s, n + 1) = IF getServiceName(e.key) # s THEN After(s, n)
                                ELSE IF e.put THEN After(s, n) \cup {e.host}
                                ELSE After(s, n) \ {e.host}
  BY <1>1, <1>5, <1>6, AfterNext
<1>11. \A s \in Declared : Shows(HostsInRotation(pools'[s]), After(s, n + 1))
  BY <1>3, <1>9, <1>10 DEF Shows
<1>12. \A s : After(s, rev - Len(todo))' = After(s, n + 1)
  BY <1>1, <1>5 DEF After, Changes
<1>13. \A s \in Declared : HostsInRotation(pools[s])' = HostsInRotation(pools'[s])
                           /\ (Exact(pools[s])' <=> Exact(pools'[s]))
  BY DEF HostsInRotation, Exact
<1>14. ASSUME NEW j \in DOMAIN todo'
       PROVE  todo'[j] = log'[rev' - Len(todo') + j]
  <2>1. todo'[j] = log[n + (j + 1)]
    BY <1>2, <1>3
  <2>2. n + (j + 1) = (n + 1) + j
    BY <1>2, <1>5, SMT
  <2> QED BY <1>1, <1>5, <2>1, <2>2
<1>15. Following'
  BY <1>5, <1>11, <1>12, <1>13, <1>14 DEF Following
<1>16. ViewOK'
  BY <1>1, <1>9, <1>13, <1>15 DEF ViewOK
<1> QED BY <1>5, <1>6, <1>7, <1>9, <1>16

\* At the start nothing is registered and nothing in rotation.
LEMMA InitFollow == Init => FollowInv
<1> SUFFICES ASSUME Init
             PROVE  FollowInv
  OBVIOUS
<1>1. \A s \in Declared : pools[s] = EmptyPool
  BY DEF Init
<1>2. \A s \in Declared : HostsInRotation(pools[s]) = {} /\ Exact(pools[s])
  <2>1. EmptyPool.channels = <<>> /\ DOMAIN EmptyPool.channels = {} /\ DOMAIN EmptyPool.hosts = {}
    BY DEF EmptyPool
  <2> QED BY <1>1, <2>1 DEF HostsInRotation, Exact
<1>3. LeasesOK
  BY DEF Init, LeasesOK
<1>4. LogOK
  <2>1. Len(log) = 0 /\ DOMAIN log = {} /\ DOMAIN kv = {}
    BY DEF Init
  <2>2. \A s : After(s, 0) = {}
    BY NothingYet DEF After
  <2> QED BY <2>1, <2>2 DEF LogOK, Registered
<1>5. ViewOK
  BY <1>2 DEF Init, ViewOK
<1> QED BY <1>3, <1>4, <1>5 DEF FollowInv

\* The steps of the observer do not touch the registry.
LEMMA LogStays ==
  ASSUME LeasesOK, LogOK, UNCHANGED procs, UNCHANGED etcd
  PROVE  LeasesOK' /\ LogOK'
<1>1. UNCHANGED <<starts, leases, kv, log>>
  BY DEF procs, etcd
<1>2. /\ \A s : Registered(s)' = Registered(s)
      /\ \A s : After(s, Len(log))' = After(s, Len(log))
      /\ \A n : After(getServiceName(log[n].key), n - 1)' = After(getServiceName(log[n].key), n - 1)
  BY <1>1 DEF Registered, After, Changes
<1>3. LogOK'
  BY <1>1, <1>2 DEF LogOK
<1> QED BY <1>1, <1>3 DEF LeasesOK

LEMMA NextFollow ==
  ASSUME Orderly, IInv, FollowInv, [Next]_vars
  PROVE  FollowInv'
<1>0. LeasesOK /\ LogOK /\ ViewOK
  BY DEF FollowInv
<1>1. ASSUME NEW i \in Inst, Process(i)
      PROVE  FollowInv'
  BY <1>1, ProcessFollow
<1>2. ASSUME NEW l \in Lease, expire(l)
      PROVE  FollowInv'
  BY <1>2, expireFollow
<1>3. CASE Observer
  <2>2. ls \/ lsFailed \/ watch \/ respond \/ streamError \/ callback
    BY <1>3 DEF Observer
  <2>3. UNCHANGED procs /\ UNCHANGED etcd
    BY <2>2 DEF ls, lsFailed, watch, respond, streamError, callback
  <2>4. ViewOK'
    <3>1. CASE callback
      <4>1. phase # "build"
        BY <1>0, <3>1 DEF callback, ViewOK
      <4>2. phase = "list" \/ phase \in {"watch", "dead"}
        BY <4>1 DEF IInv, ObserverOK
      <4> QED BY <1>0, <3>1, <4>2, callbackLists, callbackFollows
    <3> QED BY <1>0, <2>2, <3>1, lsFollow, lsFailedFollow, watchFollow,
             respondFollow, streamErrorFollow
  <2> QED BY <1>0, <2>3, <2>4, LogStays DEF FollowInv
<1>4. CASE UNCHANGED vars
  <2>1. /\ UNCHANGED <<kv, log, phase, todo, rev, pools>>
        /\ UNCHANGED procs /\ UNCHANGED etcd
    BY <1>4 DEF vars, etcd, observer
  <2> QED BY <1>0, <2>1, FollowStays, LogStays DEF FollowInv
<1> QED BY <1>1, <1>2, <1>3, <1>4 DEF Next

LEMMA FollowInvariance ==
  ASSUME Orderly
  PROVE  Spec => [](IInv /\ FollowInv)
<1>1. Init => IInv /\ FollowInv
  BY InitIInv, InitFollow
<1>2. IInv /\ FollowInv /\ [Next]_vars => (IInv /\ FollowInv)'
  BY NextKeeps, NextFollow
<1> QED BY <1>1, <1>2, PTL DEF Spec

--------------------------------------------------------------------------------
(* Theorems                                                                   *)

\* With every change handled, the pools show the registry.
LEMMA Caught ==
  ASSUME IInv, FollowInv, CaughtUp, NEW s \in Declared
  PROVE  Shows(HostsInRotation(pools[s]), Registered(s))
<1>1. phase = "watch" /\ Len(todo) = 0 /\ rev = Len(log) /\ Len(log) \in Nat
  BY LenProperties DEF CaughtUp, IInv, RegistryOK
<1>2. rev - Len(todo) = Len(log)
  BY <1>1, SMT
<1>3. Shows(HostsInRotation(pools[s]), After(s, Len(log)))
  BY <1>1, <1>2 DEF FollowInv, ViewOK, Following
<1> QED BY <1>3 DEF FollowInv, LogOK

\* etcd.hpp:58-78, channel.hpp:39-57: listings, puts, channels and streams that fail
\* leave hosts out of the rotation, never one in it that is gone.
THEOREM RegisteredOnly ==
  ASSUME Orderly
  PROVE  Spec => []OnlyRegistered
<1>1. IInv /\ FollowInv => OnlyRegistered
  BY Caught DEF OnlyRegistered, Shows
<1> QED BY <1>1, FollowInvariance, PTL

\* etcd.hpp:57, 68: listing and watching together miss nothing.  With every change
\* handled, the hosts in rotation are the hosts registered.
THEOREM ViewAgrees ==
  ASSUME Undisturbed
  PROVE  Spec => []Agreement
<1>1. IInv /\ FollowInv => Agreement
  BY Caught DEF Agreement, Shows, Undisturbed
<1>2. Spec => [](IInv /\ FollowInv)
  BY FollowInvariance DEF Undisturbed
<1> QED BY <1>1, <1>2, PTL

\* channel.hpp:39-57: a host is in rotation once, so it gets the share of calls its
\* peers get, whatever failed before.
THEOREM TurnsAreFair ==
  ASSUME Orderly
  PROVE  Spec => []OneTurnEach
<1>1. FollowInv => OneTurnEach
  BY DEF FollowInv, ViewOK, Exact, OneTurnEach
<1> QED BY <1>1, FollowInvariance, PTL

--------------------------------------------------------------------------------
(* The abstract directory                                                     *)

Loaded == phase \in {"watch", "dead"}
Seen == IF Loaded THEN rev - Len(todo) ELSE 0
View == [s \in Declared |-> IF Loaded THEN HostsInRotation(pools[s]) ELSE {}]

\* The abstract steps in the terms of the mapping.
LEMMA DirectorySteps ==
  /\ Directory!vars = <<Changes, Loaded, Seen, View>>
  /\ Directory!Init <=> Changes = <<>> /\ Loaded = FALSE /\ Seen = 0 /\ View = [s \in Declared |-> {}]
  /\ Directory!Announce <=> /\ \E c \in Directory!Change : Changes' = Append(Changes, c)
                            /\ UNCHANGED <<Loaded, Seen, View>>
  /\ Directory!Load <=> /\ ~Loaded /\ Loaded' = TRUE
                        /\ Seen' = Len(Changes)
                        /\ View' = [s \in Declared |-> Directory!HostsAfter(Changes, s, Len(Changes))]
                        /\ UNCHANGED Changes
  /\ Directory!Follow <=> /\ Loaded /\ Seen < Len(Changes) /\ Seen' = Seen + 1
                          /\ View' = LET c == Changes[Seen + 1] IN
                               [s \in Declared |-> IF c.service # s THEN View[s]
                                                   ELSE IF c.put THEN View[s] \cup {c.host}
                                                   ELSE View[s] \ {c.host}]
                          /\ UNCHANGED <<Changes, Loaded>>
  /\ Directory!ViewIsPrefix <=>
       (Loaded => View = [s \in Declared |-> Directory!HostsAfter(Changes, s, Seen)])
<1>1. Directory!vars = <<Changes, Loaded, Seen, View>>
  BY DEF Directory!vars, Changes, Loaded, Seen, View
<1>2. Directory!Init <=>
        Changes = <<>> /\ Loaded = FALSE /\ Seen = 0 /\ View = [s \in Declared |-> {}]
  BY DEF Directory!Init, Changes, Loaded, Seen, View
<1>3. Directory!Announce <=> /\ \E c \in Directory!Change : Changes' = Append(Changes, c)
                             /\ UNCHANGED <<Loaded, Seen, View>>
  BY DEF Directory!Announce, Changes, Loaded, Seen, View
<1>4. Directory!Load <=> /\ ~Loaded /\ Loaded' = TRUE
                         /\ Seen' = Len(Changes)
                         /\ View' = [s \in Declared |-> Directory!HostsAfter(Changes, s, Len(Changes))]
                         /\ UNCHANGED Changes
  BY DEF Directory!Load, Changes, Loaded, Seen, View
<1>5. Directory!Follow <=> /\ Loaded /\ Seen < Len(Changes) /\ Seen' = Seen + 1
                           /\ View' = LET c == Changes[Seen + 1] IN
                                [s \in Declared |-> IF c.service # s THEN View[s]
                                                    ELSE IF c.put THEN View[s] \cup {c.host}
                                                    ELSE View[s] \ {c.host}]
                           /\ UNCHANGED <<Changes, Loaded>>
  BY DEF Directory!Follow, Changes, Loaded, Seen, View
<1>6. Directory!ViewIsPrefix <=>
        (Loaded => View = [s \in Declared |-> Directory!HostsAfter(Changes, s, Seen)])
  BY DEF Directory!ViewIsPrefix, Changes, Loaded, Seen, View
<1> QED BY <1>1, <1>2, <1>3, <1>4, <1>5, <1>6

\* The pools as they will be.
LEMMA NextView ==
  View' = [s \in Declared |-> IF Loaded' THEN HostsInRotation(pools'[s]) ELSE {}]
BY DEF View, HostsInRotation

LEMMA InitDirectory == Init => Directory!Init
<1> SUFFICES ASSUME Init
             PROVE  Directory!Init
  OBVIOUS
<1>1. ~Loaded /\ Loaded = FALSE
  BY DEF Init, Loaded
<1>2. Changes = <<>>
  <2>1. log \in Seq(Event) /\ Len(log) = 0
    BY DEF Init
  <2>2. Changes \in Seq(Directory!Change) /\ Len(Changes) = 0
    BY <2>1, ChangesOK
  <2> QED BY <2>2, EmptySeq
<1>3. Seen = 0 /\ View = [s \in Declared |-> {}]
  BY <1>1 DEF Seen, View
<1> QED BY <1>1, <1>2, <1>3, DirectorySteps

\* A change of the registry announces; the observer does not notice yet.
LEMMA RegistryAnnounces ==
  ASSUME IInv, UNCHANGED observer, NEW e \in Event, log' = Append(log, e)
  PROVE  Directory!Announce
<1>1. \E c \in Directory!Change : Changes' = Append(Changes, c)
  BY Announces DEF IInv, RegistryOK
<1>2. UNCHANGED <<Loaded, Seen, View>>
  BY DEF observer, Loaded, Seen, View, HostsInRotation
<1> QED BY <1>1, <1>2, DirectorySteps

\* A step of the processes is a change of the registry or none.
LEMMA ProcessDirectory ==
  ASSUME IInv, UNCHANGED observer, log' = log
  PROVE  UNCHANGED Directory!vars
<1>1. UNCHANGED <<Loaded, Seen, View>>
  BY DEF observer, Loaded, Seen, View, HostsInRotation
<1>2. UNCHANGED Changes
  BY DEF Changes
<1>3. UNCHANGED <<Changes, Loaded, Seen, View>>
  BY <1>1, <1>2
<1> QED BY <1>3 DEF Directory!vars, Changes, Loaded, Seen, View

\* The watch is created: the view is loaded.
LEMMA watchLoads ==
  ASSUME IInv, Undisturbed, LogOK, ViewOK, watch
  PROVE  Directory!Load
<1>1. /\ phase = "list" /\ phase' = "watch" /\ todo = <<>> /\ todo' = <<>>
      /\ UNCHANGED <<log, pools>>
  BY DEF watch, etcd
<1>2. /\ rev' = Len(log)
      /\ \A s \in Declared : HostsInRotation(pools[s]) = After(s, Len(log))
  BY watchFollow DEF Undisturbed, Shows
<1>3. Len(log) \in Nat /\ Len(Changes) = Len(log)
  BY ChangesOK DEF IInv, RegistryOK
<1>4. ~Loaded /\ Loaded' = TRUE
  BY <1>1 DEF Loaded
<1>5. Seen' = Len(Changes)
  BY <1>1, <1>2, <1>3, <1>4, SMT DEF Seen
<1>6. View' = [s \in Declared |-> Directory!HostsAfter(Changes, s, Len(Changes))]
  BY <1>1, <1>2, <1>3, <1>4, NextView DEF After
<1>7. UNCHANGED Changes
  BY <1>1 DEF Changes
<1> QED BY <1>4, <1>5, <1>6, <1>7, DirectorySteps

\* A callback follows by one change.
LEMMA callbackDirectory ==
  ASSUME IInv, Undisturbed, LogOK, ViewOK, callback, Loaded
  PROVE  Directory!Follow
<1>1. PICK n : n = rev - Len(todo)
  OBVIOUS
<1>2. phase \in {"watch", "dead"} /\ phase' = phase /\ log' = log
  BY DEF Loaded, callback, etcd
<1>3. /\ n \in 0 .. Len(log) - 1 /\ rev' - Len(todo') = n + 1
      /\ \A s \in Declared :
           HostsInRotation(pools'[s]) =
             IF getServiceName(log[n + 1].key) # s THEN HostsInRotation(pools[s])
             ELSE IF log[n + 1].put THEN HostsInRotation(pools[s]) \cup {log[n + 1].host}
             ELSE HostsInRotation(pools[s]) \ {log[n + 1].host}
  BY <1>1, <1>2, callbackFollows DEF Undisturbed
<1>4. log \in Seq(Event)
  BY DEF IInv, RegistryOK
<1>5. /\ Len(Changes) = Len(log) /\ Len(log) \in Nat
      /\ \A k \in 1 .. Len(log) : /\ Changes[k].put = log[k].put
                                  /\ Changes[k].service = getServiceName(log[k].key)
                                  /\ Changes[k].host = log[k].host
  BY <1>4, ChangesOK
<1>6. n < Len(log) /\ n + 1 \in 1 .. Len(log)
  BY <1>3, <1>5, SMT
<1>7. Loaded' /\ Seen = n /\ Seen' = n + 1
  BY <1>1, <1>2, <1>3 DEF Loaded, Seen
<1>8. PICK c : c = Changes[n + 1]
  OBVIOUS
<1>9. c.put = log[n + 1].put /\ c.service = getServiceName(log[n + 1].key) /\ c.host = log[n + 1].host
  BY <1>5, <1>6, <1>8
<1>10. ASSUME NEW s \in Declared
       PROVE  HostsInRotation(pools'[s]) =
                IF c.service # s THEN View[s]
                ELSE IF c.put THEN View[s] \cup {c.host}
                ELSE View[s] \ {c.host}
  <2>1. View[s] = HostsInRotation(pools[s])
    BY DEF View
  <2>2. HostsInRotation(pools'[s]) =
             IF getServiceName(log[n + 1].key) # s THEN HostsInRotation(pools[s])
             ELSE IF log[n + 1].put THEN HostsInRotation(pools[s]) \cup {log[n + 1].host}
             ELSE HostsInRotation(pools[s]) \ {log[n + 1].host}
    BY <1>3
  <2> QED BY <1>9, <2>1, <2>2
<1>11. View' = [s \in Declared |-> IF c.service # s THEN View[s]
                                   ELSE IF c.put THEN View[s] \cup {c.host}
                                   ELSE View[s] \ {c.host}]
  BY <1>7, <1>10, NextView
<1>12. UNCHANGED <<Changes, Loaded>>
  BY <1>2 DEF Changes, Loaded
<1>13. Seen < Len(Changes) /\ Seen' = Seen + 1 /\ c = Changes[Seen + 1]
  BY <1>5, <1>6, <1>7, <1>8
<1> QED BY <1>11, <1>12, <1>13, DirectorySteps

\* Before the watch, and with a response, the directory sees nothing.
LEMMA ObserverDirectory ==
  ASSUME IInv, ViewOK, ls \/ respond \/ (callback /\ ~Loaded)
  PROVE  UNCHANGED Directory!vars
<1>1. Changes' = Changes /\ log' = log
  BY DEF ls, respond, callback, etcd, Changes
<1>2. CASE ls \/ (callback /\ ~Loaded)
  <2>1. ~Loaded /\ ~Loaded'
    BY <1>2 DEF ls, callback, Loaded
  <2>2. UNCHANGED <<Loaded, Seen, View>>
    BY <2>1 DEF Seen, View, Loaded
  <2> QED BY <1>1, <2>2 DEF Directory!vars, Changes, Loaded, Seen, View
<1>3. CASE respond
  <2>1. phase = "watch" /\ phase' = phase /\ pools' = pools /\ todo = <<>>
    BY <1>3 DEF respond
  <2>2. Loaded /\ Loaded' /\ Loaded' = Loaded
    BY <2>1 DEF Loaded
  <2>3. rev' - Len(todo') = rev
    BY <1>3, respondFollow
  <2>4. Len(todo) = 0 /\ rev - 0 = rev
    BY <2>1, SMT DEF IInv, ObserverOK
  <2>5. Seen' = Seen
    BY <2>2, <2>3, <2>4 DEF Seen
  <2>6. View' = View
    BY <2>1, <2>2 DEF View, HostsInRotation
  <2> QED BY <1>1, <2>2, <2>5, <2>6 DEF Directory!vars, Changes, Loaded, Seen, View
<1> QED BY <1>2, <1>3

\* Every step is one of the directory's or invisible to it.
LEMMA NextDirectory ==
  ASSUME Undisturbed, IInv, FollowInv, [Next]_vars
  PROVE  [Directory!Next]_(Directory!vars)
<1>0. LogOK /\ ViewOK
  BY DEF FollowInv
<1>1. ASSUME NEW i \in Inst, Process(i)
      PROVE  Directory!Announce \/ UNCHANGED Directory!vars
  <2>1. UNCHANGED observer
    BY <1>1 DEF Process, start, grantLease, registry, registryFailed, listen, crash
  <2>2. CASE registry(i)
    <3>1. Put(i) \in Event /\ log' = Append(log, Put(i))
      BY <2>2, Instances DEF registry
    <3> QED BY <2>1, <3>1, RegistryAnnounces
  <2>3. CASE ~registry(i)
    <3>1. log' = log
      BY <1>1, <2>3 DEF Process, start, grantLease, registryFailed, listen, crash, etcd
    <3> QED BY <2>1, <3>1, ProcessDirectory
  <2> QED BY <2>2, <2>3
<1>2. ASSUME NEW l \in Lease, expire(l)
      PROVE  Directory!Announce \/ UNCHANGED Directory!vars
  <2>1. UNCHANGED observer
    BY <1>2 DEF expire
  <2>2. PICK i \in Inst : i = l[1]
    BY DEF Lease
  <2>3. log' = log \/ log' = Append(log, [put |-> FALSE, key |-> KeyOf[i], host |-> HostOf[i]])
    BY <1>2, <2>2, Expired
  <2>4. [put |-> FALSE, key |-> KeyOf[i], host |-> HostOf[i]] \in Event
    BY Instances DEF Event
  <2> QED BY <2>1, <2>3, <2>4, RegistryAnnounces, ProcessDirectory
<1>3. CASE Observer
  <2>1. ls \/ watch \/ respond \/ callback
    BY <1>3 DEF Observer, lsFailed, streamError, Undisturbed, NothingFails
  <2> QED BY <1>0, <2>1, watchLoads, callbackDirectory, ObserverDirectory DEF Directory!Next
<1>4. CASE UNCHANGED vars
  BY <1>4, ProcessDirectory DEF vars, etcd
<1> QED BY <1>1, <1>2, <1>3, <1>4 DEF Next, Directory!Next

\* What the handlers are shown of the registry is loaded once, from all there is,
\* and then follows it change by change, none skipped and none twice.
THEOREM DirectoryImplemented ==
  ASSUME Undisturbed
  PROVE  Spec => Directory!Init /\ [][Directory!Next]_(Directory!vars)
<1>1. Init => Directory!Init
  BY InitDirectory
<1>2. IInv /\ FollowInv /\ [Next]_vars => [Directory!Next]_(Directory!vars)
  BY NextDirectory
<1>3. Spec => [](IInv /\ FollowInv)
  BY FollowInvariance DEF Undisturbed
<1> QED BY <1>1, <1>2, <1>3, PTL DEF Spec

--------------------------------------------------------------------------------
(* What the abstract directory promises                                       *)

DirectoryInv ==
  /\ Changes \in Seq(Directory!Change)
  /\ Loaded \in BOOLEAN
  /\ Seen \in 0 .. Len(Changes)
  /\ View \in [Declared -> SUBSET Host]
  /\ Loaded => View = [s \in Declared |-> Directory!HostsAfter(Changes, s, Seen)]

LEMMA DirectoryInvStarts == Directory!Init => DirectoryInv
<1> SUFFICES ASSUME Directory!Init
             PROVE  DirectoryInv
  OBVIOUS
<1>1. Changes = <<>> /\ Loaded = FALSE /\ Seen = 0 /\ View = [s \in Declared |-> {}]
  BY DirectorySteps
<1>2. Changes \in Seq(Directory!Change) /\ Seen \in 0 .. Len(Changes)
  BY <1>1, EmptySeq, SMT
<1> QED BY <1>1, <1>2 DEF DirectoryInv

\* Applying the changes one at a time is the same as looking at the last change of
\* each host.
LEMMA DirectoryInvStays ==
  DirectoryInv /\ [Directory!Next]_(Directory!vars) => DirectoryInv'
<1> SUFFICES ASSUME DirectoryInv, [Directory!Next]_(Directory!vars)
             PROVE  DirectoryInv'
  OBVIOUS
<1> DEFINE Shown(l, n) == [s \in Declared |-> Directory!HostsAfter(l, s, n)]
<1>0. PICK l, m, n, v : l = Changes /\ m = Changes' /\ n = Seen /\ v = View
  OBVIOUS
<1>1. /\ l \in Seq(Directory!Change) /\ Loaded \in BOOLEAN /\ n \in 0 .. Len(l) /\ Len(l) \in Nat
      /\ v \in [Declared -> SUBSET Host] /\ (Loaded => v = Shown(l, n))
  BY <1>0, LenProperties DEF DirectoryInv
<1>2. SUFFICES /\ m \in Seq(Directory!Change) /\ Loaded' \in BOOLEAN
               /\ Seen' \in 0 .. Len(m) /\ View' \in [Declared -> SUBSET Host]
               /\ Loaded' => View' = Shown(m, Seen')
  BY <1>0 DEF DirectoryInv
<1>3. CASE Directory!Announce
  <2>1. (\E c \in Directory!Change : Changes' = Append(Changes, c)) /\ UNCHANGED <<Loaded, Seen, View>>
    BY <1>3, DirectorySteps
  <2>2. PICK c \in Directory!Change : m = Append(l, c)
    BY <1>0, <2>1
  <2>3. m \in Seq(Directory!Change) /\ n \in 0 .. Len(m)
    <3>1. m \in Seq(Directory!Change) /\ Len(m) = Len(l) + 1
      BY <1>1, <2>2, AppendProperties
    <3> QED BY <1>1, <3>1, SMT
  <2>4. \A s : Directory!HostsAfter(m, s, n) = Directory!HostsAfter(l, s, n)
    BY <1>1, <2>2, PastIsFixed
  <2>5. Shown(m, n) = Shown(l, n)
    BY <2>4
  <2> QED BY <1>0, <1>1, <2>1, <2>3, <2>5
<1>4. CASE Directory!Load
  <2>1. /\ Loaded' = TRUE /\ Seen' = Len(l) /\ View' = Shown(l, Len(l)) /\ m = l
    BY <1>0, <1>4, DirectorySteps
  <2>2. Shown(l, Len(l)) \in [Declared -> SUBSET Host]
    BY DEF Directory!HostsAfter
  <2> QED BY <1>1, <2>1, <2>2, SMT
<1>5. CASE Directory!Follow
  <2>1. /\ Loaded /\ Loaded' = Loaded /\ n < Len(l) /\ Seen' = n + 1 /\ m = l
        /\ View' = LET c == l[n + 1] IN
             [s \in Declared |-> IF c.service # s THEN v[s]
                                 ELSE IF c.put THEN v[s] \cup {c.host}
                                 ELSE v[s] \ {c.host}]
    BY <1>0, <1>5, DirectorySteps
  <2>2. n \in 0 .. Len(l) - 1 /\ n + 1 \in 0 .. Len(l)
    BY <1>1, <2>1, SMT
  <2>3. ASSUME NEW s \in Declared, NEW k \in 0 .. Len(l) - 1
        PROVE  Directory!HostsAfter(l, s, k + 1) =
                 IF l[k + 1].service # s THEN Directory!HostsAfter(l, s, k)
                 ELSE IF l[k + 1].put THEN Directory!HostsAfter(l, s, k) \cup {l[k + 1].host}
                 ELSE Directory!HostsAfter(l, s, k) \ {l[k + 1].host}
    <3>1. l \in Seq(Directory!Change)
      BY <1>1
    <3> QED BY <3>1, OneChange, Zenon
  <2>4. ASSUME NEW s \in Declared
        PROVE  v[s] = Directory!HostsAfter(l, s, n)
    BY <1>1, <2>1
  <2>5. ASSUME NEW s \in Declared
        PROVE  (IF l[n + 1].service # s THEN v[s]
                ELSE IF l[n + 1].put THEN v[s] \cup {l[n + 1].host}
                ELSE v[s] \ {l[n + 1].host}) = Directory!HostsAfter(l, s, n + 1)
    <3>1. Directory!HostsAfter(l, s, n + 1) =
            IF l[n + 1].service # s THEN Directory!HostsAfter(l, s, n)
            ELSE IF l[n + 1].put THEN Directory!HostsAfter(l, s, n) \cup {l[n + 1].host}
            ELSE Directory!HostsAfter(l, s, n) \ {l[n + 1].host}
      BY <2>2, <2>3, Zenon
    <3>2. v[s] = Directory!HostsAfter(l, s, n)
      BY <2>4, Zenon
    <3> QED BY <3>1, <3>2, Zenon
  <2>6. View' = Shown(l, n + 1)
    BY <2>1, <2>5
  <2>7. Shown(l, n + 1) \in [Declared -> SUBSET Host]
    BY DEF Directory!HostsAfter
  <2> QED BY <1>1, <2>1, <2>2, <2>6, <2>7
<1>6. CASE UNCHANGED Directory!vars
  <2>1. UNCHANGED <<Changes, Loaded, Seen, View>>
    BY <1>6 DEF Directory!vars, Changes, Loaded, Seen, View
  <2> QED BY <1>0, <1>1, <2>1
<1> QED BY <1>3, <1>4, <1>5, <1>6 DEF Directory!Next

\* The hosts shown for all declared services are the registry's after the same
\* number of changes.
THEOREM ViewIsPast ==
  Directory!Init /\ [][Directory!Next]_(Directory!vars) => []Directory!ViewIsPrefix
<1>1. DirectoryInv => Directory!ViewIsPrefix
  BY DirectorySteps DEF DirectoryInv
<1> QED BY <1>1, DirectoryInvStarts, DirectoryInvStays, PTL

\* etcd.hpp:57-80: so do the pools of the server that discovers.
THEOREM PoolsAreThePast ==
  ASSUME Undisturbed
  PROVE  Spec => []Directory!ViewIsPrefix
BY DirectoryImplemented, ViewIsPast, PTL

================================================================================
