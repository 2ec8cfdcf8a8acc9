----------------------------- MODULE ManagedService ----------------------------
(******************************************************************************)
(* One service of the ServiceManager as its callers see it: the halves of     *)
(* append, remove and choose under the locks are the atomic methods of a      *)
(* ServiceChannel.                                                            *)
(******************************************************************************)
EXTENDS ServiceManager

CONSTANT Watched  \* any service

ASSUME WatchedAssumption == Watched \in Service

\* The atomic pool the service shows: an append or remove under way is invisible
\* until its last step, a choose until it reads the vector.
VisiblePool ==
  LET p == IF Watched \in DOMAIN services THEN services[Watched] ELSE EmptyPool
      old == {call[w].old :
                w \in {v \in Worker : pc[v] = "read" /\ call[v].svc = Watched}}
      counted == IF old = {} THEN p ELSE [p EXCEPT !.index = CHOOSE i \in old : TRUE]
      inserted == pc[Updater] = "push" /\ p.hosts[arg.host] = arg.chan
      erasing == pc[Updater] = "forget"
  IN  IF arg.svc = Watched /\ (inserted \/ erasing)
      THEN EraseHost(counted, arg.host)
      ELSE counted

Atomic == INSTANCE ServiceChannel
            WITH pool <- VisiblePool, chosen <- picked[Watched]

\* The two levels of locks make every append, remove and choose one atomic step
\* on the pool of its service.
ImplementsServiceChannel == Atomic!Spec

================================================================================
