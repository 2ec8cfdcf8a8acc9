---------------------------- MODULE ServiceChannel -----------------------------
(******************************************************************************)
(* One ServiceChannel object: the pool of RPC channels to the nodes of one    *)
(* service.  Every method runs its body under _mutex, so each is one step.    *)
(* ServiceManager.tla takes the bodies apart and shows that the locks make    *)
(* them the steps of this module.                                             *)
(******************************************************************************)
EXTENDS ChannelPool

CONSTANTS
  Flaky,      \* hosts for which brpc::Channel::Init may fail (name resolution)
  Reannounce  \* hosts that may be appended again while they are in the pool

ASSUME FlakyAssumption == Flaky \subseteq Host
ASSUME ReannounceAssumption == Reannounce \subseteq Host

VARIABLES
  pool,    \* _hosts, _channels and _index
  chosen   \* what the last choose returned: the channel its caller holds

vars == <<pool, chosen>>

Init ==
  /\ pool = EmptyPool
  /\ chosen = NoChannel

\* The new channel object lives at an address nobody points to.
append(h) ==
  /\ h \in Reannounce \/ h \notin DOMAIN pool.hosts
  /\ \E id \in ChannelId \ LiveIds(pool) :
        pool' = Appended(pool, [host |-> h, id |-> id])
  /\ UNCHANGED chosen

\* channel->Init returned -1: the method returns before it takes the lock.
appendFailed(h) ==
  /\ h \in Flaky
  /\ UNCHANGED vars

remove(h) ==
  /\ pool' = Removed(pool, h)
  /\ UNCHANGED chosen

choose ==
  /\ chosen' = Chosen(pool)
  /\ pool' = IF pool.channels = <<>> THEN pool ELSE Advanced(pool)

Next ==
  \/ \E h \in Host : append(h) \/ appendFailed(h) \/ remove(h)
  \/ choose

Spec == Init /\ [][Next]_vars

(* The callers of choose are the RPC handlers: that some handler calls it     *)
(* again and again is the assumption under which fairness of the rotation is  *)
(* a question at all.                                                         *)
FairSpec == Spec /\ WF_vars(choose)

--------------------------------------------------------------------------------
(* Properties                                                                 *)

\* The pool is a pool, and callers hold a channel or null.
TypeOK ==
  /\ IsPool(pool)
  /\ chosen \in Channel \cup {NoChannel}

\* Every host of the map _hosts is served by exactly one entry of the vector
\* equal to the channel the map holds, and it was made for that host: so remove
\* always finds what it has to erase, and erases all of it.
OneEntryPerHost ==
  \A h \in DOMAIN pool.hosts :
    /\ pool.hosts[h].host = h
    /\ \E i \in DOMAIN pool.channels :
         /\ pool.channels[i] = pool.hosts[h]
         /\ \A j \in DOMAIN pool.channels :
              pool.channels[j] = pool.hosts[h] => j = i

\* No channel object is in the vector twice, whatever was appended or removed:
\* erasing one entry of remove's loop (it breaks after the first) is enough.
NoChannelTwice == IsInjective(pool.channels)

\* "服务器下线了一个节点, 则调用 remove 释放信道" (channel.hpp:45): after remove(h)
\* no channel to h is left in the rotation.  Stated of the states: a channel of
\* the vector is a channel remove can find, the one _hosts holds for its host;
\* what the announcements of other hosts did to the pool does not matter.
NoStaleChannel ==
  \A i \in DOMAIN pool.channels : pool.channels[i].host \notin Reannounce =>
    /\ pool.channels[i].host \in DOMAIN pool.hosts
    /\ pool.hosts[pool.channels[i].host] = pool.channels[i]

\* The same as an action property: the step that takes h out of the map takes
\* every channel to h out of the rotation, and disturbs no other host's.
RemoveReleases ==
  [][\A h \in (DOMAIN pool.hosts \ DOMAIN pool'.hosts) \ Reannounce :
        HostsInRotation(pool') = HostsInRotation(pool) \ {h}]_vars

\* Once nodes stop coming and going, every channel of the rotation is handed out
\* again and again, wherever the removals left the counter and although it wraps:
\* no node starves.  (channel.hpp:65 "RR 轮转策略")
Settled == <>[][pool'.channels = pool.channels]_vars

NoStarvation ==
  Settled =>
    \A c \in Channel :
      <>[](\E i \in DOMAIN pool.channels : pool.channels[i] = c) => []<>(chosen = c)

================================================================================
