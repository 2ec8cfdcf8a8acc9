---------------------------- MODULE ServiceDirectory ---------------------------
(******************************************************************************)
(* What Discovery and ServiceManager together promise the RPC handlers of a   *)
(* server: after start-up, the nodes they see of a declared service are the   *)
(* nodes the registry had at some moment, the moments advance one change at a *)
(* time, none is skipped, and in the end the view is up to date.              *)
(******************************************************************************)
EXTENDS Integers, Sequences

CONSTANTS Service, Declared, Host

VARIABLES
  log,     \* the changes of the registry: [put, service, host]
  loaded,  \* has the view been started from a listing of the registry?
  seen,    \* how many of the changes the view reflects
  view     \* for each declared service, the hosts the handlers may be given

vars == <<log, loaded, seen, view>>

Change == [put : BOOLEAN, service : Service, host : Host]

\* The hosts of s after the first n changes of l: their last change is a put.
HostsAfter(l, s, n) ==
  {h \in Host : \E i \in 1 .. n :
     /\ l[i] = [put |-> TRUE, service |-> s, host |-> h]
     /\ \A j \in i + 1 .. n : ~(l[j].service = s /\ l[j].host = h)}

Init ==
  /\ log = <<>>
  /\ loaded = FALSE
  /\ seen = 0
  /\ view = [s \in Declared |-> {}]

Announce ==
  /\ \E c \in Change : log' = Append(log, c)
  /\ UNCHANGED <<loaded, seen, view>>

Load ==
  /\ ~loaded
  /\ loaded' = TRUE
  /\ seen' = Len(log)
  /\ view' = [s \in Declared |-> HostsAfter(log, s, Len(log))]
  /\ UNCHANGED log

Follow ==
  /\ loaded
  /\ seen < Len(log)
  /\ seen' = seen + 1
  /\ view' = LET c == log[seen + 1] IN
       [s \in Declared |-> IF c.service # s THEN view[s]
                           ELSE IF c.put THEN view[s] \cup {c.host}
                           ELSE view[s] \ {c.host}]
  /\ UNCHANGED <<log, loaded>>

Next == Announce \/ Load \/ Follow

Spec == Init /\ [][Next]_vars /\ WF_vars(Load) /\ WF_vars(Follow)

\* The view is a past state of the registry, and all its services are shown at
\* the same moment.
ViewIsPrefix ==
  loaded => view = [s \in Declared |-> HostsAfter(log, s, seen)]

================================================================================
