------------------------------ MODULE ChannelPool ------------------------------
(******************************************************************************)
(* The data of one ServiceChannel object (common/channel.hpp): the map        *)
(* _hosts, the vector _channels and the counter _index, as one record, and    *)
(* what append, remove and choose compute from it.  The modules about         *)
(* concurrency (ServiceChannel, ServiceManager, Discovery) decide when these  *)
(* operators are applied; this one only says what they do.                    *)
(*                                                                            *)
(* A channel is the object behind a shared_ptr<brpc::Channel>: the host it    *)
(* was initialised for, and an id that stands for its address.  An address is *)
(* free again once nothing points to the object, so ids come from a finite    *)
(* set and may be used again.                                                 *)
(******************************************************************************)
EXTENDS Integers, Sequences, SequencesExt

CONSTANTS
  Host,       \* host strings "ip:port" found in the registry
  ChannelId,  \* addresses of brpc::Channel objects; their number bounds a pool
  NoChannel,  \* the null Channelptr
  HalfRange,  \* 2^31 in the code: _index is an int32_t
  SizeRange   \* 2^64 in the code: vector::size() is a 64-bit size_t

Channel == [host : Host, id : ChannelId]

ASSUME NoChannelAssumption == NoChannel \notin Channel
ASSUME RangeAssumption ==
  /\ HalfRange \in Nat \ {0}
  /\ SizeRange \in Nat
  /\ SizeRange >= 2 * HalfRange

Index == -HalfRange .. HalfRange - 1

\* The members ServiceChannel() leaves behind.
EmptyPool == [hosts |-> <<>>, channels |-> <<>>, index |-> 0]

IsPool(p) ==
  /\ p = [hosts |-> p.hosts, channels |-> p.channels, index |-> p.index]
  /\ DOMAIN p.hosts \subseteq Host
  /\ p.hosts \in [DOMAIN p.hosts -> Channel]
  /\ p.channels \in Seq(Channel)
  /\ p.index \in Index

\* The channels some part of the pool points to: their ids are taken.
LiveIds(p) ==
  {p.hosts[h].id : h \in DOMAIN p.hosts} \cup
  {p.channels[i].id : i \in DOMAIN p.channels}

HostsInRotation(p) == {p.channels[i].host : i \in DOMAIN p.channels}

--------------------------------------------------------------------------------
(* append: unordered_map::insert keeps the entry of a host that is already    *)
(* there, vector::push_back adds the new channel in either case.              *)

InsertHost(p, c) ==
  IF c.host \in DOMAIN p.hosts
  THEN p
  ELSE [p EXCEPT !.hosts = [h \in DOMAIN p.hosts \cup {c.host} |->
                              IF h = c.host THEN c ELSE p.hosts[h]]]

\* Faulty: pushes the channel the map holds, not the new one.
PushMappedChannel(p, c) == [p EXCEPT !.channels = Append(p.channels, p.hosts[c.host])]

PushChannel(p, c) == [p EXCEPT !.channels = Append(p.channels, c)]

Appended(p, c) == PushChannel(InsertHost(p, c), c)

--------------------------------------------------------------------------------
(* remove: the first vector entry equal to the channel the map holds for the  *)
(* host goes, then the map entry.  A host the map does not hold is ignored.   *)

Position(p, c) ==
  CHOOSE i \in DOMAIN p.channels :
    /\ p.channels[i] = c
    /\ \A j \in DOMAIN p.channels : p.channels[j] = c => i <= j

\* Faulty: erases begin() instead of the entry the search found.
EraseFirstChannel(p, h) ==
  IF p.channels = <<>> THEN p ELSE [p EXCEPT !.channels = Tail(p.channels)]

\* Faulty: only the map entry goes.
EraseNoChannel(p, h) == p

EraseChannel(p, h) ==
  IF \E i \in DOMAIN p.channels : p.channels[i] = p.hosts[h]
  THEN [p EXCEPT !.channels = RemoveAt(p.channels, Position(p, p.hosts[h]))]
  ELSE p

EraseHost(p, h) ==
  [p EXCEPT !.hosts = [g \in DOMAIN p.hosts \ {h} |-> p.hosts[g]]]

Removed(p, h) ==
  IF h \in DOMAIN p.hosts THEN EraseHost(EraseChannel(p, h), h) ELSE p

--------------------------------------------------------------------------------
(* choose: `_index++ % _channels.size()'.  The int32_t operand is converted   *)
(* to size_t before the division, so a negative index counts from 2^64, and   *)
(* ++ wraps from INT32_MAX to INT32_MIN.                                      *)

\* Faulty: the counter leaves the range of its type.
BumpUnbounded(i) == i + 1

Bump(i) == IF i = HalfRange - 1 THEN -HalfRange ELSE i + 1

AsSize(i) == IF i < 0 THEN i + SizeRange ELSE i

\* Faulty: a counter past the end starts over at the first entry.
SlotClamped(p, i) == IF AsSize(i) >= Len(p.channels) THEN 1 ELSE AsSize(i) + 1

\* The position in the vector (1-based) of the old value i of the counter.
Slot(p, i) == (AsSize(i) % Len(p.channels)) + 1

\* Faulty: `_index' instead of `_index++'.
NotAdvanced(p) == p

Advanced(p) == [p EXCEPT !.index = Bump(p.index)]

Chosen(p) == IF p.channels = <<>> THEN NoChannel ELSE p.channels[Slot(p, p.index)]

================================================================================
