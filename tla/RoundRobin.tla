------------------------------- MODULE RoundRobin ------------------------------
(******************************************************************************)
(* What choose promises its callers as a sequence of calls (channel.hpp:65,   *)
(* "RR 轮转策略"): ServiceChannel with a history variable that remembers the   *)
(* channels handed out since the vector last changed, one round at most.      *)
(******************************************************************************)
EXTENDS ServiceChannel

VARIABLE recent

hvars == <<vars, recent>>

HInit == Init /\ recent = <<>>

\* The last n channels of s, or all of them.
LastRound(s, n) == IF Len(s) > n THEN SubSeq(s, Len(s) - n + 1, Len(s)) ELSE s

HNext ==
  \/ /\ \E h \in Host : append(h) \/ appendFailed(h) \/ remove(h)
     /\ recent' = IF pool'.channels = pool.channels THEN recent ELSE <<>>
  \/ /\ choose
     /\ recent' = IF pool.channels = <<>> THEN recent
                  ELSE LastRound(Append(recent, chosen'), Len(pool.channels))

HSpec == HInit /\ [][HNext]_hvars

HFairSpec == HSpec /\ WF_vars(choose)

\* Between two changes of the pool, one round of calls never gets the same
\* channel twice.  (channel.hpp:65)
RoundRobinOrder == IsInjective(recent)

\* The counter values the calls in recent used are consecutive integers.
NoWrapInRound ==
  \/ pool.index >= Len(recent)
  \/ pool.index < 0 /\ pool.index - Len(recent) >= -HalfRange

\* The rotation is exact as long as the counter does not wrap inside the round.
RoundRobinBetweenWraps == NoWrapInRound => RoundRobinOrder

================================================================================
