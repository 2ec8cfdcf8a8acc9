-------------------------- MODULE ServiceChannelProofs -------------------------
(******************************************************************************)
(* What one ServiceChannel keeps true for every set of hosts, every supply of *)
(* channel objects and every width of its counter.                            *)
(******************************************************************************)
EXTENDS RoundRobin, ChannelPoolProofs, TLAPS

--------------------------------------------------------------------------------
(* The invariants of the specification                                        *)

IInv ==
  /\ PoolInv(pool)
  /\ chosen \in Channel \cup {NoChannel}

\* The map and the vector stay consistent: every host of the map has its channel
\* in the vector, made for that host, and no channel is in the vector twice.
THEOREM PoolConsistent == Spec => []IInv
<1>1. Init => IInv
  <2> SUFFICES ASSUME Init
               PROVE  IInv
    OBVIOUS
  <2>1. pool = [hosts |-> <<>>, channels |-> <<>>, index |-> 0]
    BY DEF Init, EmptyPool
  <2>2. /\ pool.hosts = <<>>
        /\ pool.channels = <<>>
        /\ pool.index = 0
    BY <2>1
  <2>3. 0 \in Index
    BY RangeAssumption, SMT DEF Index
  <2>4. /\ DOMAIN pool.hosts = {}
        /\ DOMAIN pool.channels = {}
        /\ pool.hosts \in [DOMAIN pool.hosts -> Channel]
        /\ pool.channels \in Seq(Channel)
    BY <2>2, SMT
  <2> QED BY <2>1, <2>2, <2>3, <2>4
          DEF Init, IInv, PoolInv, IsPool, MapInRotation, IsInjective
<1>2. IInv /\ [Next]_vars => IInv'
  <2> SUFFICES ASSUME IInv, [Next]_vars
               PROVE  IInv'
    OBVIOUS
  <2> USE DEF IInv
  <2>1. ASSUME NEW h \in Host, append(h)
        PROVE  IInv'
    BY <2>1, AppendedKeepsPool DEF append
  <2>2. ASSUME NEW h \in Host, appendFailed(h)
        PROVE  IInv'
    BY <2>2 DEF appendFailed, vars
  <2>3. ASSUME NEW h \in Host, remove(h)
        PROVE  IInv'
    BY <2>3, RemovedKeepsPool DEF remove, Removed
  <2>4. CASE choose
    <3>1. PoolInv(pool')
      BY <2>4, AdvancedKeepsPool DEF choose
    <3>2. Chosen(pool) \in Channel \cup {NoChannel}
      <4>1. CASE pool.channels = <<>>
        BY <4>1 DEF Chosen
      <4>2. CASE pool.channels # <<>>
        BY <4>2, SlotInVector, LenProperties DEF Chosen, PoolInv, IsPool
      <4> QED BY <4>1, <4>2
    <3> QED BY <2>4, <3>1, <3>2 DEF choose
  <2>5. CASE UNCHANGED vars
    BY <2>5 DEF vars
  <2> QED BY <2>1, <2>2, <2>3, <2>4, <2>5 DEF Next
<1> QED BY <1>1, <1>2, PTL DEF Spec

\* The pool is well typed and a caller of choose gets a channel or null.
THEOREM TypeCorrect == Spec => []TypeOK
<1>1. IInv => TypeOK
  BY DEF IInv, PoolInv, TypeOK
<1> QED BY <1>1, PoolConsistent, PTL

\* No channel object is in the vector twice.
THEOREM ChannelsDistinct == Spec => []NoChannelTwice
<1>1. IInv => NoChannelTwice
  BY DEF IInv, PoolInv, NoChannelTwice
<1> QED BY <1>1, PoolConsistent, PTL

\* Every host of the map has exactly one entry in the vector.
THEOREM HostsServed == Spec => []OneEntryPerHost
<1>1. IInv => OneEntryPerHost
  BY SMT DEF IInv, PoolInv, MapInRotation, IsInjective, OneEntryPerHost
<1> QED BY <1>1, PoolConsistent, PTL

--------------------------------------------------------------------------------
(* Hosts that are never announced while they are in the pool: not Reannounce  *)

\* Every channel in rotation is one remove can find, but for the hosts that are
\* announced a second time.
THEOREM NothingStale == Spec => []NoStaleChannel
<1>1. Init => ChannelsKnown(pool, Reannounce)
  BY SMT DEF Init, EmptyPool, ChannelsKnown
<1>2. ChannelsKnown(pool, Reannounce) /\ IInv /\ [Next]_vars => ChannelsKnown(pool, Reannounce)'
  <2> SUFFICES ASSUME ChannelsKnown(pool, Reannounce), IInv, [Next]_vars
               PROVE  ChannelsKnown(pool', Reannounce)
    BY DEF ChannelsKnown
  <2> USE DEF IInv
  <2>1. ASSUME NEW h \in Host, append(h)
        PROVE  ChannelsKnown(pool', Reannounce)
    BY <2>1, AppendedKnown DEF append
  <2>2. ASSUME NEW h \in Host, remove(h)
        PROVE  ChannelsKnown(pool', Reannounce)
    BY <2>2, RemovedReleases DEF remove, Removed
  <2>3. CASE choose
    BY <2>3, AdvancedKeepsPool DEF choose, ChannelsKnown
  <2> QED BY <2>1, <2>2, <2>3 DEF Next, appendFailed, vars
<1>3. ChannelsKnown(pool, Reannounce) <=> NoStaleChannel
  BY DEF ChannelsKnown, NoStaleChannel
<1> QED BY <1>1, <1>2, <1>3, PoolConsistent, PTL DEF Spec

\* For a host that is not announced a second time remove(h) leaves no channel to h
\* in the rotation, and every channel to another host where it was.
THEOREM RemoveReleasesAll == Spec => RemoveReleases
<1> DEFINE Release ==
      \A h \in (DOMAIN pool.hosts \ DOMAIN pool'.hosts) \ Reannounce :
        HostsInRotation(pool') = HostsInRotation(pool) \ {h}
<1>1. IInv /\ NoStaleChannel /\ [Next]_vars => [Release]_vars
  <2> SUFFICES ASSUME IInv, NoStaleChannel, Next,
                      NEW h \in (DOMAIN pool.hosts \ DOMAIN pool'.hosts) \ Reannounce
               PROVE  HostsInRotation(pool') = HostsInRotation(pool) \ {h}
    OBVIOUS
  <2>1. PoolInv(pool) /\ ChannelsKnown(pool, Reannounce)
    BY DEF IInv, NoStaleChannel, ChannelsKnown
  <2>2. PICK g \in Host : append(g) \/ appendFailed(g) \/ remove(g) \/ choose
    <3>1. CASE choose
      BY <2>1, <3>1, AdvancedKeepsPool DEF choose
    <3> QED BY <3>1 DEF Next
  <2>3. ~choose /\ ~appendFailed(g)
    BY <2>1, AdvancedKeepsPool DEF choose, appendFailed, vars
  <2>4. ~append(g)
    <3>1. ASSUME NEW id \in ChannelId
          PROVE  DOMAIN pool.hosts \subseteq
                   DOMAIN Appended(pool, [host |-> g, id |-> id]).hosts
      <4>1. pool = [hosts |-> pool.hosts, channels |-> pool.channels, index |-> pool.index]
        BY <2>1 DEF PoolInv, IsPool
      <4> QED BY <4>1 DEF Appended, PushChannel, InsertHost
    <3> QED BY <3>1 DEF append
  <2>5. remove(g)
    BY <2>2, <2>3, <2>4
  <2>6. g \in DOMAIN pool.hosts /\ g = h
    BY <2>1, <2>5, RemovedKeepsPool DEF remove, Removed
  <2> QED BY <2>1, <2>5, <2>6, RemovedReleases DEF remove
<1> QED BY <1>1, PoolConsistent, NothingStale, PTL DEF Spec, RemoveReleases

--------------------------------------------------------------------------------
(* The rotation: RoundRobin's history                                         *)

\* Numbers less than m apart have different remainders.
LEMMA ModDistinct ==
  ASSUME NEW m \in Nat \ {0}, NEW a \in Nat, NEW b \in Nat, a < b, b - a < m
  PROVE  a % m # b % m
<1>1. ASSUME NEW n \in Nat
      PROVE  /\ n \div m \in Int
             /\ n % m \in 0 .. m - 1
             /\ n = m * (n \div m) + (n % m)
  <2>1. n \div m \in Int
    OBVIOUS
  <2>2. n % m \in 0 .. m - 1
    BY SMT
  <2>3. n = m * (n \div m) + (n % m)
    BY SMT
  <2> QED BY <2>1, <2>2, <2>3
<1>2. PICK q \in Int, r \in 0 .. m - 1 : a = m * q + r /\ r = a % m
  BY <1>1
<1>3. PICK t \in Int, s \in 0 .. m - 1 : b = m * t + s /\ s = b % m
  BY <1>1
<1>4. ASSUME r = s
      PROVE  FALSE
  <2>1. b - a = m * t - m * q
    BY <1>2, <1>3, <1>4, SMT
  <2>2. m * t - m * q = m * (t - q)
    BY SMT
  <2>3. t - q > 0
    BY <2>1, <2>2, SMT
  <2>4. m * (t - q) >= m
    BY <2>3, SMT
  <2> QED BY <2>1, <2>2, <2>4, SMT
<1> QED BY <1>2, <1>3, <1>4

\* The counter went from i - n to i without a change of sign or a wrap.
Straight(i, n) == i >= n \/ (i < 0 /\ i - n >= -HalfRange)

\* The channel returned n calls ago is the one at the counter's value then.
History ==
  /\ recent \in Seq(Channel)
  /\ Len(recent) <= Len(pool.channels)
  /\ \A k \in 1 .. Len(recent) :
       Straight(pool.index, Len(recent) - k + 1) =>
         recent[k] = pool.channels[Slot(pool, pool.index - (Len(recent) - k + 1))]

\* The history only watches: what holds of the pool holds beside it.
LEMMA HSpecIsSpec == HSpec => Spec
<1>1. HInit => Init
  BY DEF HInit
<1>2. [HNext]_hvars => [Next]_vars
  BY DEF HNext, Next, hvars
<1> QED BY <1>1, <1>2, PTL DEF HSpec, Spec

\* One call of choose.
LEMMA ChooseHistory ==
  ASSUME IInv, History, choose,
         recent' = IF pool.channels = <<>> THEN recent
                   ELSE LastRound(Append(recent, chosen'), Len(pool.channels))
  PROVE  History'
<1>1. CASE pool.channels = <<>>
  BY <1>1 DEF choose, History
<1>2. CASE pool.channels # <<>>
  <2>1. PICK p, i, c, m, l :
          /\ p = pool /\ i = pool.index /\ c = chosen'
          /\ m = Len(pool.channels) /\ l = Len(recent)
    OBVIOUS
  <2>2. /\ p = [hosts |-> p.hosts, channels |-> p.channels, index |-> p.index]
        /\ p.channels \in Seq(Channel)
        /\ i \in Index
        /\ m \in Nat \ {0}
        /\ DOMAIN p.channels = 1 .. m
        /\ recent \in Seq(Channel)
        /\ l \in 0 .. m
    BY <1>2, <2>1, LenProperties, EmptySeq DEF IInv, PoolInv, IsPool, History
  <2>3. /\ pool'.channels = p.channels
        /\ pool'.index = Bump(i)
    BY <1>2, <2>1, <2>2 DEF choose, Advanced
  <2>4. c = p.channels[Slot(p, i)] /\ c \in Channel
    BY <1>2, <2>1, <2>2, SlotInVector DEF choose, Chosen
  <2>5. PICK R : R = Append(recent, c)
    OBVIOUS
  <2>6. /\ R \in Seq(Channel)
        /\ Len(R) = l + 1
        /\ R[l + 1] = c
        /\ \A k \in 1 .. l : R[k] = recent[k]
    BY <2>1, <2>2, <2>4, <2>5, AppendProperties
  <2>7. ASSUME NEW n \in 1 .. l + 1, Straight(Bump(i), n)
        PROVE  R[l + 2 - n] = p.channels[Slot(p, Bump(i) - n)]
    <3>1. Bump(i) = i + 1
      BY <2>2, <2>7, RangeAssumption, SMT DEF Bump, Straight, Index
    <3>2. CASE n = 1
      BY <2>2, <2>4, <2>6, <3>1, <3>2 DEF Index
    <3>3. CASE n # 1
      <4>1. Straight(i, n - 1)
        BY <2>2, <2>7, <3>1, <3>3, RangeAssumption, SMT DEF Straight, Index
      <4>2. l + 2 - n \in 1 .. l /\ l - (l + 2 - n) + 1 = n - 1
        BY <2>2, <3>3, SMT
      <4>3. recent[l + 2 - n] = p.channels[Slot(p, i - (n - 1))]
        BY <2>1, <4>1, <4>2 DEF History
      <4>4. Bump(i) - n = i - (n - 1)
        BY <2>2, <3>1, SMT DEF Index
      <4>5. R[l + 2 - n] = recent[l + 2 - n]
        BY <2>6, <4>2
      <4> QED BY <4>3, <4>4, <4>5
    <3> QED BY <3>2, <3>3
  <2>8. PICK S : S = LastRound(R, m)
    OBVIOUS
  <2>9. PICK d \in Nat : /\ S \in Seq(Channel)
                         /\ Len(S) = l + 1 - d
                         /\ Len(S) \in 0 .. m
                         /\ \A k \in 1 .. Len(S) : S[k] = R[k + d]
    <3>1. CASE l + 1 > m
      <4>0. l = m /\ Len(R) > m /\ Len(R) - m + 1 = 2 /\ Len(R) = m + 1
        BY <2>2, <2>6, <3>1, SMT
      <4>1. S = SubSeq(R, 2, m + 1)
        BY <2>8, <4>0 DEF LastRound
      <4>2. /\ SubSeq(R, 2, m + 1) \in Seq(Channel)
            /\ Len(SubSeq(R, 2, m + 1)) = m
            /\ \A k \in 1 .. m : SubSeq(R, 2, m + 1)[k] = R[k + 1]
        BY <2>2, <2>6, <4>0, SMT
      <4>3. 1 \in Nat /\ m = l + 1 - 1 /\ m \in 0 .. m
        BY <2>2, <4>0, SMT
      <4> QED BY <4>1, <4>2, <4>3
    <3>2. CASE ~(l + 1 > m)
      <4>1. S = R
        BY <2>6, <2>8, <3>2 DEF LastRound
      <4>2. 0 \in Nat /\ l + 1 = l + 1 - 0 /\ l + 1 \in 0 .. m
        BY <2>2, <3>2, SMT
      <4>3. \A k \in 1 .. l + 1 : R[k] = R[k + 0]
        BY <2>2, SMT
      <4> QED BY <2>6, <4>1, <4>2, <4>3
    <3> QED BY <3>1, <3>2
  <2>10. recent' = S
    BY <1>2, <2>1, <2>5, <2>8
  <2>11. ASSUME NEW k \in 1 .. Len(S), Straight(Bump(i), Len(S) - k + 1)
         PROVE  S[k] = p.channels[Slot(p, Bump(i) - (Len(S) - k + 1))]
    <3>1. /\ Len(S) - k + 1 \in 1 .. l + 1
          /\ l + 2 - (Len(S) - k + 1) = k + d
      <4>1. PICK z : z = Len(S)
        OBVIOUS
      <4>2. z \in Nat /\ z = l + 1 - d /\ l \in Nat /\ k \in 1 .. z
        BY <2>2, <2>9, <4>1, SMT
      <4>3. z - k + 1 \in 1 .. l + 1 /\ l + 2 - (z - k + 1) = k + d
        BY <4>2, SMT
      <4> QED BY <4>1, <4>3
    <3> QED BY <2>7, <2>9, <2>11, <3>1
  <2>12. \A x : Slot(pool', x) = Slot(p, x)
    BY <2>3 DEF Slot
  <2>13. Len(S) <= m
    BY <2>2, <2>9, SMT
  <2>14. /\ recent' \in Seq(Channel)
         /\ Len(recent') <= Len(pool'.channels)
    BY <2>1, <2>3, <2>9, <2>10, <2>13
  <2>15. ASSUME NEW k \in 1 .. Len(recent'), Straight(pool'.index, Len(recent') - k + 1)
         PROVE  recent'[k] =
                  pool'.channels[Slot(pool', pool'.index - (Len(recent') - k + 1))]
    BY <2>3, <2>10, <2>11, <2>12, <2>15
  <2> QED BY <2>14, <2>15 DEF History
<1> QED BY <1>1, <1>2

\* The history lists the channels behind the counter, in their order.
LEMMA HistoryKept == HSpec => []History
<1>1. HInit => History
  <2>1. <<>> \in Seq(Channel) /\ Len(<<>>) = 0 /\ EmptyPool.channels = <<>>
    BY DEF EmptyPool
  <2> QED BY <2>1 DEF HInit, Init, History
<1>2. IInv /\ History /\ [HNext]_hvars => History'
  <2> SUFFICES ASSUME IInv, History, [HNext]_hvars
               PROVE  History'
    OBVIOUS
  <2>1. ASSUME NEW h \in Host, append(h) \/ appendFailed(h) \/ remove(h),
               recent' = IF pool'.channels = pool.channels THEN recent ELSE <<>>
        PROVE  History'
    <3>1. pool'.index = pool.index /\ PoolInv(pool')
      <4>1. CASE append(h)
        BY <4>1, AppendedKeepsPool DEF append, IInv
      <4>2. CASE appendFailed(h)
        BY <4>2 DEF appendFailed, vars, IInv
      <4>3. CASE remove(h)
        BY <4>3, RemovedKeepsPool DEF remove, Removed, IInv
      <4> QED BY <2>1, <4>1, <4>2, <4>3
    <3>2. CASE pool'.channels = pool.channels
      BY <2>1, <3>1, <3>2 DEF History, Slot
    <3>3. CASE pool'.channels # pool.channels
      <4>1. recent' = <<>>
        BY <2>1, <3>3
      <4>2. pool'.channels \in Seq(Channel)
        BY <3>1 DEF PoolInv, IsPool
      <4>3. Len(pool'.channels) \in Nat /\ <<>> \in Seq(Channel) /\ Len(<<>>) = 0
        BY <4>2, LenProperties
      <4> QED BY <4>1, <4>3 DEF History
    <3> QED BY <3>2, <3>3
  <2>2. ASSUME choose,
               recent' = IF pool.channels = <<>> THEN recent
                         ELSE LastRound(Append(recent, chosen'), Len(pool.channels))
        PROVE  History'
    BY <2>2, ChooseHistory
  <2>3. CASE UNCHANGED hvars
    BY <2>3 DEF hvars, vars, History, Slot
  <2> QED BY <2>1, <2>2, <2>3 DEF HNext
<1> QED BY <1>1, <1>2, HSpecIsSpec, PoolConsistent, PTL DEF HSpec

\* Between two changes of the pool a round of calls visits no channel twice, as
\* long as the counter does not wrap or change its sign inside the round.
THEOREM RotationBetweenWraps == HSpec => []RoundRobinBetweenWraps
<1>1. IInv /\ History => RoundRobinBetweenWraps
  <2> SUFFICES ASSUME IInv, History, NoWrapInRound,
                      NEW k \in DOMAIN recent, NEW j \in DOMAIN recent,
                      recent[k] = recent[j], k < j
               PROVE  FALSE
    <3>1. DOMAIN recent = 1 .. Len(recent) /\ Len(recent) \in Nat
      BY LenProperties DEF History
    <3>2. \A k, j \in DOMAIN recent : ~(k < j) /\ ~(j < k) => k = j
      BY <3>1, SMT
    <3> QED BY <3>2 DEF RoundRobinBetweenWraps, RoundRobinOrder, IsInjective
  <2>1. PICK i, m, l, C :
          /\ i = pool.index /\ m = Len(pool.channels) /\ l = Len(recent)
          /\ C = pool.channels
    OBVIOUS
  <2>2. /\ i \in Index
        /\ C \in Seq(Channel)
        /\ DOMAIN C = 1 .. m
        /\ m \in Nat
        /\ l \in 0 .. m
        /\ k \in 1 .. l
        /\ j \in 1 .. l
        /\ i >= l \/ (i < 0 /\ i - l >= -HalfRange)
    BY <2>1, LenProperties DEF IInv, PoolInv, IsPool, History, NoWrapInRound
  <2>3. m \in Nat \ {0}
    BY <2>2, SMT
  <2>4. /\ recent[k] = C[Slot(pool, i - (l - k + 1))]
        /\ recent[j] = C[Slot(pool, i - (l - j + 1))]
    <3>1. Straight(i, l - k + 1) /\ Straight(i, l - j + 1)
      BY <2>2, RangeAssumption, SMT DEF Straight, Index
    <3> QED BY <2>1, <2>2, <3>1 DEF History
  <2>5. PICK a, b : a = AsSize(i - (l - k + 1)) /\ b = AsSize(i - (l - j + 1))
    OBVIOUS
  <2>6. /\ a \in Nat /\ b \in Nat
        /\ b - a = j - k
    <3>1. CASE i >= l
      BY <2>2, <2>5, <3>1, SMT DEF AsSize, Index
    <3>2. CASE i < 0 /\ i - l >= -HalfRange
      <4>1. i - (l - k + 1) < 0 /\ i - (l - j + 1) < 0
        BY <2>2, <3>2, RangeAssumption, SMT DEF Index
      <4>2. a = i - (l - k + 1) + SizeRange /\ b = i - (l - j + 1) + SizeRange
        BY <2>5, <4>1 DEF AsSize
      <4> QED BY <2>2, <3>2, <4>2, RangeAssumption, SMT DEF Index
    <3> QED BY <2>2, <3>1, <3>2
  <2>7. a < b /\ b - a < m
    BY <2>2, <2>6, SMT
  <2>8. a % m # b % m
    BY <2>3, <2>6, <2>7, ModDistinct
  <2>9. /\ a % m \in 0 .. m - 1
        /\ b % m \in 0 .. m - 1
    BY <2>3, <2>6, SMT
  <2>10. /\ Slot(pool, i - (l - k + 1)) = (a % m) + 1
         /\ Slot(pool, i - (l - j + 1)) = (b % m) + 1
    BY <2>1, <2>5 DEF Slot
  <2>11. /\ (a % m) + 1 \in DOMAIN C
         /\ (b % m) + 1 \in DOMAIN C
         /\ (a % m) + 1 # (b % m) + 1
    BY <2>2, <2>8, <2>9, SMT
  <2> QED BY <2>1, <2>4, <2>10, <2>11 DEF IInv, PoolInv, IsInjective
<1> QED BY <1>1, HistoryKept, HSpecIsSpec, PoolConsistent, PTL

================================================================================
