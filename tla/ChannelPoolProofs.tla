--------------------------- MODULE ChannelPoolProofs ---------------------------
(******************************************************************************)
(* Lemmas about the operators of ChannelPool: what append, remove and choose  *)
(* keep true of a pool for every set of hosts, every supply of channel        *)
(* objects and every width of the counter.                                    *)
(******************************************************************************)
EXTENDS ChannelPool, SequenceTheorems, TLAPS

--------------------------------------------------------------------------------
(* Vectors                                                                    *)

\* Erasing position i shifts the rest of the vector down by one.
LEMMA RemoveAtElements ==
  ASSUME NEW S, NEW s \in Seq(S), NEW i \in 1 .. Len(s)
  PROVE  /\ RemoveAt(s, i) \in Seq(S)
         /\ Len(RemoveAt(s, i)) = Len(s) - 1
         /\ \A k \in 1 .. Len(s) - 1 :
              RemoveAt(s, i)[k] = IF k < i THEN s[k] ELSE s[k + 1]
<1> DEFINE a == SubSeq(s, 1, i - 1)
           b == SubSeq(s, i + 1, Len(s))
<1>1. /\ a \in Seq(S)
      /\ Len(a) = i - 1
      /\ \A k \in 1 .. i - 1 : a[k] = s[k]
  BY SMT
<1>2. /\ b \in Seq(S)
      /\ Len(b) = Len(s) - i
      /\ \A k \in 1 .. Len(s) - i : b[k] = s[i + k]
  BY SMT
<1>3. RemoveAt(s, i) = a \o b
  BY DEF RemoveAt
<1> HIDE DEF a, b
<1>4. /\ a \o b \in Seq(S)
      /\ Len(a \o b) = Len(s) - 1
      /\ \A k \in 1 .. Len(s) - 1 :
           (a \o b)[k] = IF k < i THEN a[k] ELSE b[k - (i - 1)]
  <2>1. /\ a \o b \in Seq(S)
        /\ Len(a \o b) = Len(a) + Len(b)
        /\ \A k \in 1 .. Len(a) + Len(b) :
             (a \o b)[k] = IF k <= Len(a) THEN a[k] ELSE b[k - Len(a)]
    BY <1>1, <1>2, ConcatProperties
  <2> QED BY <2>1, <1>1, <1>2, SMT
<1>5. ASSUME NEW k \in 1 .. Len(s) - 1
      PROVE  (a \o b)[k] = IF k < i THEN s[k] ELSE s[k + 1]
  BY <1>1, <1>2, <1>4, SMT
<1> QED BY <1>3, <1>4, <1>5

\* The search of remove's loop finds the entry equal to the channel.
LEMMA PositionFound ==
  ASSUME NEW p, IsInjective(p.channels),
         DOMAIN p.channels \subseteq Int,
         NEW i \in DOMAIN p.channels
  PROVE  Position(p, p.channels[i]) = i
BY SMT DEF Position, IsInjective

--------------------------------------------------------------------------------
(* A pool between two calls: every host of the map has its channel in the     *)
(* vector, made for that host, and no channel is in the vector twice.         *)

MapInRotation(p) ==
  \A h \in DOMAIN p.hosts :
    /\ p.hosts[h].host = h
    /\ \E i \in DOMAIN p.channels : p.channels[i] = p.hosts[h]

PoolInv(p) ==
  /\ IsPool(p)
  /\ MapInRotation(p)
  /\ IsInjective(p.channels)

\* append: the new channel is not in the vector, the map and the vector get it
\* (or, for a host that is there already, the vector alone).
LEMMA AppendedKeepsPool ==
  ASSUME NEW p, PoolInv(p), NEW h \in Host, NEW id \in ChannelId \ LiveIds(p)
  PROVE  /\ PoolInv(Appended(p, [host |-> h, id |-> id]))
         /\ Appended(p, [host |-> h, id |-> id]).index = p.index
<1> DEFINE c == [host |-> h, id |-> id]
           q == Appended(p, c)
           H == IF h \in DOMAIN p.hosts THEN p.hosts
                ELSE [g \in DOMAIN p.hosts \cup {h} |->
                        IF g = h THEN c ELSE p.hosts[g]]
           C == Append(p.channels, c)
<1>1. /\ c \in Channel
      /\ c.host = h
      /\ c.id = id
  BY DEF Channel
<1>2. q = [hosts |-> H, channels |-> C, index |-> p.index]
  <2>1. p = [hosts |-> p.hosts, channels |-> p.channels, index |-> p.index]
    BY DEF PoolInv, IsPool
  <2>2. InsertHost(p, c) =
          [hosts |-> H, channels |-> p.channels, index |-> p.index]
    BY <2>1, <1>1 DEF InsertHost
  <2>3. q = [InsertHost(p, c) EXCEPT !.channels = Append(InsertHost(p, c).channels, c)]
    BY DEF Appended, PushChannel
  <2>4. ASSUME NEW r, r = [hosts |-> H, channels |-> p.channels, index |-> p.index]
        PROVE  [r EXCEPT !.channels = Append(r.channels, c)] =
                 [hosts |-> H, channels |-> Append(p.channels, c), index |-> p.index]
    <3> HIDE DEF H, c
    <3> QED BY <2>4
  <2> QED BY <2>2, <2>3, <2>4
<1>3. /\ q.hosts = H
      /\ q.channels = C
      /\ q.index = p.index
  BY <1>2
<1>4. /\ p.channels \in Seq(Channel)
      /\ p.hosts \in [DOMAIN p.hosts -> Channel]
      /\ DOMAIN p.hosts \subseteq Host
      /\ p.index \in Index
  BY DEF PoolInv, IsPool
<1>5. /\ C \in Seq(Channel)
      /\ Len(C) = Len(p.channels) + 1
      /\ DOMAIN C = 1 .. Len(C)
      /\ DOMAIN p.channels = 1 .. Len(p.channels)
      /\ Len(p.channels) \in Nat
      /\ \A i \in 1 .. Len(p.channels) : C[i] = p.channels[i]
      /\ C[Len(p.channels) + 1] = c
  BY <1>1, <1>4, AppendProperties, LenProperties
<1>6. \A i \in DOMAIN p.channels : p.channels[i] # c
  BY <1>1 DEF LiveIds
<1>7. /\ DOMAIN H \subseteq Host
      /\ H \in [DOMAIN H -> Channel]
  BY <1>1, <1>4
<1> HIDE DEF C, H, q, c
<1>8. IsPool(q)
  BY <1>2, <1>3, <1>4, <1>5, <1>7 DEF IsPool
<1>9. MapInRotation(q)
  <2> SUFFICES ASSUME NEW g \in DOMAIN H
               PROVE  /\ H[g].host = g
                      /\ \E i \in DOMAIN C : C[i] = H[g]
    BY <1>3 DEF MapInRotation
  <2>1. CASE g \in DOMAIN p.hosts
    <3>1. H[g] = p.hosts[g]
      BY <2>1 DEF H
    <3>2. /\ p.hosts[g].host = g
          /\ \E i \in DOMAIN p.channels : p.channels[i] = p.hosts[g]
      BY <2>1 DEF PoolInv, MapInRotation
    <3> QED BY <3>1, <3>2, <1>5, SMT
  <2>2. CASE g \notin DOMAIN p.hosts
    <3>1. g = h /\ H[g] = c
      BY <2>2 DEF H
    <3> QED BY <3>1, <1>1, <1>5, SMT
  <2> QED BY <2>1, <2>2
<1>10. IsInjective(q.channels)
  <2> SUFFICES ASSUME NEW i \in DOMAIN C, NEW j \in DOMAIN C, C[i] = C[j]
               PROVE  i = j
    BY <1>3 DEF IsInjective
  <2>1. \A k, l \in DOMAIN p.channels : p.channels[k] = p.channels[l] => k = l
    BY DEF PoolInv, IsInjective
  <2> QED BY <2>1, <1>5, <1>6, SMT
<1> QED BY <1>3, <1>8, <1>9, <1>10 DEF PoolInv, q, c

\* remove: the vector loses the one entry equal to the channel of the host, so
\* the channels of the other hosts stay in it.
LEMMA RemovedKeepsPool ==
  ASSUME NEW p, PoolInv(p), NEW h \in DOMAIN p.hosts
  PROVE  /\ PoolInv(Removed(p, h))
         /\ Removed(p, h).index = p.index
         /\ \E i \in DOMAIN p.channels :
              /\ p.channels[i] = p.hosts[h]
              /\ Removed(p, h).channels = RemoveAt(p.channels, i)
         /\ DOMAIN Removed(p, h).hosts = DOMAIN p.hosts \ {h}
         /\ \A g \in DOMAIN p.hosts \ {h} : Removed(p, h).hosts[g] = p.hosts[g]
<1>1. /\ p.channels \in Seq(Channel)
      /\ DOMAIN p.channels = 1 .. Len(p.channels)
      /\ Len(p.channels) \in Nat
      /\ p.hosts \in [DOMAIN p.hosts -> Channel]
      /\ DOMAIN p.hosts \subseteq Host
      /\ p.index \in Index
      /\ p = [hosts |-> p.hosts, channels |-> p.channels, index |-> p.index]
  BY LenProperties DEF PoolInv, IsPool
<1>2. \A k, l \in DOMAIN p.channels : p.channels[k] = p.channels[l] => k = l
  BY DEF PoolInv, IsInjective
<1>3. \A g \in DOMAIN p.hosts :
        /\ p.hosts[g].host = g
        /\ \E i \in DOMAIN p.channels : p.channels[i] = p.hosts[g]
  BY DEF PoolInv, MapInRotation
<1>4. PICK i \in DOMAIN p.channels : p.channels[i] = p.hosts[h]
  BY <1>3
<1> DEFINE H == [g \in DOMAIN p.hosts \ {h} |-> p.hosts[g]]
           C == RemoveAt(p.channels, i)
           q == Removed(p, h)
<1>5. Position(p, p.hosts[h]) = i
  BY <1>1, <1>4, PositionFound DEF PoolInv
<1>6. q = [hosts |-> H, channels |-> C, index |-> p.index]
  <2>1. EraseChannel(p, h) = [p EXCEPT !.channels = C]
    BY <1>4, <1>5 DEF EraseChannel
  <2>2. EraseChannel(p, h) =
          [hosts |-> p.hosts, channels |-> C, index |-> p.index]
    BY <2>1, <1>1
  <2>3. EraseHost(EraseChannel(p, h), h) =
          [EraseChannel(p, h) EXCEPT !.hosts =
             [g \in DOMAIN EraseChannel(p, h).hosts \ {h} |->
                EraseChannel(p, h).hosts[g]]]
    BY DEF EraseHost
  <2>4. q = EraseHost(EraseChannel(p, h), h)
    BY DEF Removed
  <2> HIDE DEF C, q
  <2> QED BY <2>2, <2>3, <2>4
<1>7. /\ q.hosts = H
      /\ q.channels = C
      /\ q.index = p.index
  BY <1>6
<1>8. /\ C \in Seq(Channel)
      /\ Len(C) = Len(p.channels) - 1
      /\ \A k \in 1 .. Len(p.channels) - 1 :
           C[k] = IF k < i THEN p.channels[k] ELSE p.channels[k + 1]
  BY <1>1, RemoveAtElements
<1>9. DOMAIN C = 1 .. Len(p.channels) - 1
  BY <1>8, LenProperties
<1> HIDE DEF C, q
<1>10. IsPool(q)
  BY <1>1, <1>6, <1>7, <1>8 DEF IsPool
<1>11. MapInRotation(q)
  <2> SUFFICES ASSUME NEW g \in DOMAIN p.hosts \ {h}
               PROVE  /\ p.hosts[g].host = g
                      /\ \E k \in DOMAIN C : C[k] = p.hosts[g]
    BY <1>7 DEF MapInRotation
  <2>1. PICK j \in DOMAIN p.channels : p.channels[j] = p.hosts[g]
    BY <1>3
  <2>2. j # i
    BY <2>1, <1>3, <1>4
  <2>3. CASE j < i
    BY <2>1, <2>3, <1>1, <1>3, <1>8, <1>9, SMT
  <2>4. CASE i < j
    <3>1. /\ j - 1 \in DOMAIN C
          /\ C[j - 1] = p.channels[j]
      BY <2>4, <1>1, <1>8, <1>9, SMT
    <3> QED BY <3>1, <2>1, <1>3
  <2> QED BY <2>2, <2>3, <2>4, <1>1, SMT
<1>12. IsInjective(q.channels)
  <2> SUFFICES ASSUME NEW k \in DOMAIN C, NEW l \in DOMAIN C, C[k] = C[l]
               PROVE  k = l
    BY <1>7 DEF IsInjective
  <2> DEFINE F(m) == IF m < i THEN m ELSE m + 1
  <2>1. \A m \in DOMAIN C :
          /\ F(m) \in DOMAIN p.channels
          /\ C[m] = p.channels[F(m)]
    BY <1>1, <1>8, <1>9, SMT
  <2>2. F(k) = F(l)
    <3> HIDE DEF F
    <3> QED BY <2>1, <1>2
  <2> QED BY <2>2, <1>1, <1>9, SMT
<1>13. PoolInv(q)
  BY <1>10, <1>11, <1>12 DEF PoolInv
<1> QED BY <1>4, <1>7, <1>13 DEF C, q

\* choose: the counter stays an int32_t when it is incremented.
LEMMA AdvancedKeepsPool ==
  ASSUME NEW p, PoolInv(p)
  PROVE  /\ PoolInv(Advanced(p))
         /\ Advanced(p).channels = p.channels
         /\ Advanced(p).hosts = p.hosts
<1>1. /\ p = [hosts |-> p.hosts, channels |-> p.channels, index |-> p.index]
      /\ p.index \in Index
  BY DEF PoolInv, IsPool
<1>2. Bump(p.index) \in Index
  BY <1>1, RangeAssumption, SMT DEF Bump, Index
<1>3. Advanced(p) =
        [hosts |-> p.hosts, channels |-> p.channels, index |-> Bump(p.index)]
  BY <1>1 DEF Advanced
<1>4. /\ Advanced(p).hosts = p.hosts
      /\ Advanced(p).channels = p.channels
      /\ Advanced(p).index = Bump(p.index)
  BY <1>3
<1> QED BY <1>2, <1>3, <1>4 DEF PoolInv, IsPool, MapInRotation

\* choose: the position it reads exists, whatever the sign of the counter.
LEMMA SlotInVector ==
  ASSUME NEW p, p.channels \in Seq(Channel), p.channels # <<>>, NEW i \in Index
  PROVE  Slot(p, i) \in DOMAIN p.channels
<1>1. /\ Len(p.channels) \in Nat \ {0}
      /\ DOMAIN p.channels = 1 .. Len(p.channels)
  BY LenProperties, EmptySeq
<1>2. AsSize(i) \in Nat
  BY RangeAssumption, SMT DEF AsSize, Index
<1>3. AsSize(i) % Len(p.channels) \in 0 .. Len(p.channels) - 1
  BY <1>1, <1>2, SMT
<1> QED BY <1>1, <1>3, SMT DEF Slot

--------------------------------------------------------------------------------
(* The other direction, for hosts that are never announced while they are in  *)
(* the pool (those outside R): every channel of the vector is the map's.      *)

ChannelsKnown(p, R) ==
  \A i \in DOMAIN p.channels : p.channels[i].host \notin R =>
    /\ p.channels[i].host \in DOMAIN p.hosts
    /\ p.hosts[p.channels[i].host] = p.channels[i]

\* remove leaves the channels of the other hosts, and nothing else, when the host
\* was not announced twice.
LEMMA RemovedReleases ==
  ASSUME NEW R, NEW p, PoolInv(p), ChannelsKnown(p, R), NEW h \in DOMAIN p.hosts
  PROVE  /\ ChannelsKnown(Removed(p, h), R)
         /\ h \notin R =>
              HostsInRotation(Removed(p, h)) = HostsInRotation(p) \ {h}
<1> DEFINE q == Removed(p, h)
<1>1. PICK i \in DOMAIN p.channels :
        /\ p.channels[i] = p.hosts[h]
        /\ q.channels = RemoveAt(p.channels, i)
  BY RemovedKeepsPool
<1>2. /\ DOMAIN q.hosts = DOMAIN p.hosts \ {h}
      /\ \A g \in DOMAIN p.hosts \ {h} : q.hosts[g] = p.hosts[g]
  BY RemovedKeepsPool
<1>3. /\ p.channels \in Seq(Channel)
      /\ DOMAIN p.channels = 1 .. Len(p.channels)
      /\ Len(p.channels) \in Nat
  BY LenProperties DEF PoolInv, IsPool
<1>4. /\ q.channels \in Seq(Channel)
      /\ Len(q.channels) = Len(p.channels) - 1
      /\ \A k \in 1 .. Len(p.channels) - 1 :
           q.channels[k] = IF k < i THEN p.channels[k] ELSE p.channels[k + 1]
  <2>1. /\ RemoveAt(p.channels, i) \in Seq(Channel)
        /\ Len(RemoveAt(p.channels, i)) = Len(p.channels) - 1
        /\ \A k \in 1 .. Len(p.channels) - 1 :
             RemoveAt(p.channels, i)[k] =
               IF k < i THEN p.channels[k] ELSE p.channels[k + 1]
    BY <1>3, RemoveAtElements
  <2> HIDE DEF q
  <2> QED BY <2>1, <1>1
<1>5. DOMAIN q.channels = 1 .. Len(p.channels) - 1
  BY <1>4, LenProperties
<1> HIDE DEF q
<1>6. \A k, l \in DOMAIN p.channels : p.channels[k] = p.channels[l] => k = l
  BY DEF PoolInv, IsInjective
<1>7. p.channels[i].host = h
  BY <1>1 DEF PoolInv, MapInRotation
<1>8. h \notin R =>
        \A k \in DOMAIN p.channels : k # i => p.channels[k].host # h
  BY <1>1, <1>6 DEF ChannelsKnown
<1>9. \A k \in DOMAIN q.channels : \E l \in DOMAIN p.channels :
        l # i /\ q.channels[k] = p.channels[l]
  <2> SUFFICES ASSUME NEW k \in DOMAIN q.channels
               PROVE  \E l \in DOMAIN p.channels : l # i /\ q.channels[k] = p.channels[l]
    OBVIOUS
  <2>1. CASE k < i
    BY <2>1, <1>3, <1>4, <1>5, SMT
  <2>2. CASE ~(k < i)
    <3>1. /\ k + 1 \in DOMAIN p.channels
          /\ k + 1 # i
          /\ q.channels[k] = p.channels[k + 1]
      BY <2>2, <1>3, <1>4, <1>5, SMT
    <3> QED BY <3>1
  <2> QED BY <2>1, <2>2
<1>10. \A l \in DOMAIN p.channels : l # i =>
         \E k \in DOMAIN q.channels : q.channels[k] = p.channels[l]
  <2> SUFFICES ASSUME NEW l \in DOMAIN p.channels, l # i
               PROVE  \E k \in DOMAIN q.channels : q.channels[k] = p.channels[l]
    OBVIOUS
  <2>1. CASE l < i
    BY <2>1, <1>3, <1>4, <1>5, SMT
  <2>2. CASE i < l
    <3>1. /\ l - 1 \in DOMAIN q.channels
          /\ q.channels[l - 1] = p.channels[l]
      BY <2>2, <1>3, <1>4, <1>5, SMT
    <3> QED BY <3>1
  <2> QED BY <2>1, <2>2, <1>3, SMT
<1>11. ChannelsKnown(q, R)
  BY <1>2, <1>8, <1>9 DEF ChannelsKnown
<1>12. h \notin R => HostsInRotation(q) = HostsInRotation(p) \ {h}
  BY <1>7, <1>8, <1>9, <1>10 DEF HostsInRotation
<1> QED BY <1>11, <1>12 DEF q

\* A new host gets one channel, which the map knows; a second one goes to hosts
\* that may be announced again only.
LEMMA AppendedKnown ==
  ASSUME NEW R, NEW p, PoolInv(p), ChannelsKnown(p, R),
         NEW h \in Host, h \in R \/ h \notin DOMAIN p.hosts,
         NEW id \in ChannelId
  PROVE  ChannelsKnown(Appended(p, [host |-> h, id |-> id]), R)
<1> DEFINE c == [host |-> h, id |-> id]
           q == Appended(p, c)
           H == IF h \in DOMAIN p.hosts THEN p.hosts
                ELSE [g \in DOMAIN p.hosts \cup {h} |->
                        IF g = h THEN c ELSE p.hosts[g]]
<1>1. /\ c \in Channel
      /\ c.host = h
  BY DEF Channel
<1>2. p = [hosts |-> p.hosts, channels |-> p.channels, index |-> p.index]
  BY DEF PoolInv, IsPool
<1>3. InsertHost(p, c) = [hosts |-> H, channels |-> p.channels, index |-> p.index]
  BY <1>1, <1>2 DEF InsertHost
<1>4. q = [InsertHost(p, c) EXCEPT !.channels = Append(InsertHost(p, c).channels, c)]
  BY DEF Appended, PushChannel
<1>5. q = [hosts |-> H, channels |-> Append(p.channels, c), index |-> p.index]
  <2>1. ASSUME NEW r, r = [hosts |-> H, channels |-> p.channels, index |-> p.index]
        PROVE  [r EXCEPT !.channels = Append(r.channels, c)] =
                 [hosts |-> H, channels |-> Append(p.channels, c), index |-> p.index]
    <3> HIDE DEF H, c
    <3> QED BY <2>1
  <2> QED BY <1>3, <1>4, <2>1
<1>6. /\ q.hosts = H
      /\ q.channels = Append(p.channels, c)
  BY <1>5
<1> HIDE DEF q, c
<1>7. /\ p.channels \in Seq(Channel)
      /\ DOMAIN p.channels = 1 .. Len(p.channels)
      /\ Len(p.channels) \in Nat
  BY LenProperties DEF PoolInv, IsPool
<1>8. \A i \in DOMAIN q.channels :
        q.channels[i] = c \/ \E k \in DOMAIN p.channels : q.channels[i] = p.channels[k]
  BY <1>1, <1>6, <1>7, AppendProperties, LenProperties, SMT
<1>9. /\ h \notin DOMAIN p.hosts => H[h] = c
      /\ \A g \in DOMAIN p.hosts : H[g] = p.hosts[g]
  OBVIOUS
<1>10. DOMAIN H = DOMAIN p.hosts \cup {h}
  OBVIOUS
<1> HIDE DEF H
<1> QED BY <1>1, <1>6, <1>8, <1>9, <1>10 DEF ChannelsKnown, q, c

================================================================================
