-------------------------------- MODULE MQClient --------------------------------
(******************************************************************************)
(* The RabbitMQ client (rabbitmq.hpp) as its two example programs use it: a   *)
(* producer that declares, publishes, sleeps and ends, and consumers that     *)
(* declare, consume, sleep and end.  In each process the main thread calls    *)
(* MQClient while the thread the constructor made runs the event loop:        *)
(* answers and deliveries are handled there, between any two calls of main.   *)
(* The broker is external: it takes a connection's commands in order, gives   *)
(* each queued message to one subscriber, and queues again what was not       *)
(* acknowledged when the connection is gone.  Every call into the AMQP        *)
(* library is taken to be one step: main and the loop thread share it without *)
(* a lock.                                                                    *)
(******************************************************************************)
EXTENDS Naturals, Sequences, FiniteSets

CONSTANTS
  Producer, Consumer,  \* processes
  Messages,            \* bound: messages the producer publishes, 10 in publish.cc
  MaxStarts,           \* bound: how often a consumer is started
  MaxFaults            \* bound: crashes and connections cut

ASSUME BoundsAssumption == Messages \in Nat /\ MaxStarts \in Nat /\ MaxFaults \in Nat

Client == {Producer} \cup Consumer
Msg == 1 .. Messages

VARIABLES
  proc,        \* of each process: the main thread (main), the loop thread (loop), the
               \* message loop is at (cur), _async_watcher (wake), and the calls whose
               \* onError and onReceived callbacks are set (attached)
  link,        \* of each process: the connection (net: none, opening, open, cut, or shut,
               \* its channel closed), commands (out) to and frames (in) from the broker
  sent,        \* how many messages the producer has published
  queued,      \* the broker's queue
  unacked,     \* what it has delivered on each connection and not seen acked
  subscribed,
  taken,       \* history: every message the broker took
  handled,     \* history: messages a callback returned from
  missed,      \* history: deliveries no callback was there for
  starts, faults

broker == <<queued, unacked, subscribed, taken>>
histories == <<handled, missed>>
bounds == <<starts, faults>>
vars == <<proc, link, sent, broker, histories, bounds>>

Gone == [main |-> "off", loop |-> "ended", cur |-> 0, wake |-> FALSE, attached |-> {}]
NoLink == [net |-> "none", out |-> <<>>, in |-> <<>>]

Init ==
  /\ proc = [c \in Client |-> Gone]
  /\ link = [c \in Client |-> NoLink]
  /\ sent = 0
  /\ queued = {} /\ subscribed = {} /\ taken = {} /\ handled = {} /\ missed = {}
  /\ unacked = [c \in Client |-> {}]
  /\ starts = [c \in Client |-> 0]
  /\ faults = 0

Frame(op, m) == [op |-> op, m |-> m]

Main(c, at) == proc[c].main = at
Loop(c, at) == proc[c].loop = at
Net(c, nets) == link[c].net \in nets

\* What is sent on a connection that is gone is nowhere.
Send(c, f) ==
  link' = IF Net(c, {"opening", "open"}) THEN [link EXCEPT ![c].out = Append(@, f)] ELSE link

--------------------------------------------------------------------------------
(* The main thread                                                            *)

\* The constructor, in a process that was just started.
Construct(c) ==
  /\ Main(c, "off") /\ Net(c, {"none"})
  /\ starts[c] < IF c = Producer THEN 1 ELSE MaxStarts
  /\ starts' = [starts EXCEPT ![c] = @ + 1]
  /\ proc' = [proc EXCEPT ![c] = [Gone EXCEPT !.main = "declare", !.loop = "created"]]
  /\ link' = [link EXCEPT ![c].net = "opening"]
  /\ UNCHANGED <<sent, broker, histories, faults>>

\* A call that has an answer: it is sent, then its callbacks are set one by one.
Call(c, from, op) ==
  /\ Main(c, from)
  /\ proc' = [proc EXCEPT ![c].main = op]
  /\ Send(c, Frame(op, 0))
  /\ UNCHANGED <<sent, broker, histories, bounds>>

\* The process is gone; what it had handed to the network is still on its way.
Die(c) == proc' = [proc EXCEPT ![c] = Gone]

Set(c, from, cb, to) ==
  /\ Main(c, from)
  /\ proc' = [proc EXCEPT ![c].main = to, ![c].attached = @ \cup {cb}]

\* The loop thread has read a refusal, or seen the connection go.
Refused(c) == Net(c, {"shut"}) /\ \A i \in DOMAIN link[c].in : link[c].in[i].op = "deliver"
Failed(c) == Refused(c) \/ (Net(c, {"cut"}) /\ Loop(c, "ended"))

\* onError of a call that has failed already fires at once, and ends the process
\* with exit(0).  A lost connection fails the calls it left unanswered only.
SetOnError(c, from, op, to) ==
  /\ \/ ~Refused(c) /\ Set(c, from, op, to)
     \/ Main(c, from) /\ Failed(c) /\ Die(c)
  /\ UNCHANGED <<link, sent, broker, histories, bounds>>

\* Exchange, queue and binding are declared one way; here they are one command.
declareComponents(c) == Call(c, "declare", "declaring")
declareOnError(c) ==
  SetOnError(c, "declaring", "declaring", IF c = Producer THEN "publish" ELSE "consume")

Publish(c) ==
  /\ Main(c, "publish")
  /\ sent' = sent + 1
  /\ Send(c, Frame("publish", sent + 1))
  /\ UNCHANGED <<proc, broker, histories, bounds>>

\* Faulty: the loop is left one message late.
publishTooMany(c) == sent <= Messages /\ Publish(c)

\* Nobody looks at the result but to print it.
publish(c) == sent < Messages /\ Publish(c)

consume(c) == Call(c, "consume", "consuming")

onReceived(c) ==
  /\ Set(c, "consuming", "received", "subscribing")
  /\ UNCHANGED <<link, sent, broker, histories, bounds>>

consumeOnError(c) == SetOnError(c, "subscribing", "consuming", "sleep")

\* The last call is made: main sleeps for its 3 or 60 seconds.
lastPublished(c) ==
  /\ Main(c, "publish") /\ sent = Messages
  /\ proc' = [proc EXCEPT ![c].main = "sleep"]
  /\ UNCHANGED <<link, sent, broker, histories, bounds>>

\* Faulty: the destructor breaks the loop itself, a loop not yet entered forgets it.
destructorBreaks(c) ==
  /\ Main(c, "sleep")
  /\ proc' = [proc EXCEPT ![c].main = "join", ![c].loop = IF @ = "running" THEN "ended" ELSE @]
  /\ UNCHANGED <<link, sent, broker, histories, bounds>>

\* ~MQClient: the watcher is started and sent.
Destructor(c) ==
  /\ Main(c, "sleep")
  /\ proc' = [proc EXCEPT ![c].main = "join", ![c].wake = TRUE]
  /\ UNCHANGED <<link, sent, broker, histories, bounds>>

join(c) ==
  /\ Main(c, "join") /\ Loop(c, "ended")
  /\ Die(c)
  /\ UNCHANGED <<link, sent, broker, histories, bounds>>

MainThread(c) ==
  \/ declareComponents(c) \/ declareOnError(c) \/ publish(c) \/ lastPublished(c)
  \/ consume(c) \/ onReceived(c) \/ consumeOnError(c) \/ join(c)

--------------------------------------------------------------------------------
(* The loop thread                                                            *)

Turn(c, from, to) == Loop(c, from) /\ proc' = [proc EXCEPT ![c].loop = to]

ev_run(c) ==
  /\ Turn(c, "created", "running")
  /\ UNCHANGED <<link, sent, broker, histories, bounds>>

\* ev_break
watcher_callback(c) ==
  /\ proc[c].wake
  /\ Turn(c, "running", "ended")
  /\ UNCHANGED <<link, sent, broker, histories, bounds>>

connected(c) ==
  /\ Loop(c, "running") /\ Net(c, {"opening"})
  /\ link' = [link EXCEPT ![c].net = "open"]
  /\ UNCHANGED <<proc, sent, broker, histories, bounds>>

\* Nobody connects again: a call left unanswered ends the process by its onError;
\* else the loop has nothing left to watch and ev_run returns.
disconnected(c) ==
  /\ Net(c, {"cut"}) /\ Loop(c, "running")
  /\ \/ Turn(c, "running", "ended")
     \/ proc[c].attached \cap {"declaring", "consuming"} # {} /\ Die(c)
  /\ UNCHANGED <<link, sent, broker, histories, bounds>>

Reads(c, ops) == Loop(c, "running") /\ link[c].in # <<>> /\ Head(link[c].in).op \in ops
Drop(c) == link' = [link EXCEPT ![c].in = Tail(@)]

\* The callback of a refused call ends the process with exit(0), now or, when it
\* is not set yet, as soon as it is.
onError(c) ==
  /\ Reads(c, {"declaring", "consuming"})
  /\ Drop(c)
  /\ IF Head(link[c].in).op \in proc[c].attached THEN Die(c) ELSE UNCHANGED proc
  /\ UNCHANGED <<sent, broker, histories, bounds>>

Receive(c) ==
  /\ Reads(c, {"deliver"}) /\ "received" \in proc[c].attached
  /\ proc' = [proc EXCEPT ![c].loop = "callback", ![c].cur = Head(link[c].in).m]
  /\ UNCHANGED <<sent, broker, histories, bounds>>

\* Faulty: the message is acknowledged before the callback has seen it.
receivedAckFirst(c) ==
  /\ Receive(c)
  /\ link' = [link EXCEPT ![c].in = Tail(@), ![c].out = Append(@, Frame("ack", Head(link[c].in).m))]

received(c) == Receive(c) /\ Drop(c)

\* A delivery that overtook onReceived has no callback and is dropped, not acked.
receivedTooEarly(c) ==
  /\ Reads(c, {"deliver"}) /\ "received" \notin proc[c].attached
  /\ Drop(c)
  /\ missed' = missed \cup {Head(link[c].in).m}
  /\ UNCHANGED <<proc, sent, broker, handled, bounds>>

\* The user's callback returns.
callback(c) ==
  /\ Turn(c, "callback", "ack")
  /\ handled' = handled \cup {proc[c].cur}
  /\ UNCHANGED <<link, sent, broker, missed, bounds>>

Ack(c, next) ==
  /\ Loop(c, "ack")
  /\ proc' = [proc EXCEPT ![c].loop = next, ![c].cur = 0]
  /\ Send(c, Frame("ack", proc[c].cur))
  /\ UNCHANGED <<sent, broker, histories, bounds>>

\* Faulty: the loop is run for one event only.
ackAndLeave(c) == Ack(c, "ended")

ack(c) == Ack(c, "running")

LoopThread(c) ==
  \/ ev_run(c) \/ watcher_callback(c) \/ connected(c) \/ disconnected(c)
  \/ onError(c) \/ received(c) \/ receivedTooEarly(c) \/ callback(c) \/ ack(c)

--------------------------------------------------------------------------------
(* The broker and the network                                                 *)

Takes(c, ops) == Net(c, {"open"}) /\ link[c].out # <<>> /\ Head(link[c].out).op \in ops
Took(c) == link' = [link EXCEPT ![c].out = Tail(@)]

takeDeclare(c) ==
  /\ Takes(c, {"declaring"})
  /\ Took(c)
  /\ UNCHANGED <<proc, sent, broker, histories, bounds>>

takeConsume(c) ==
  /\ Takes(c, {"consuming"})
  /\ Took(c)
  /\ subscribed' = subscribed \cup {c}
  /\ UNCHANGED <<proc, sent, queued, unacked, taken, histories, bounds>>

takePublish(c) ==
  /\ Takes(c, {"publish"})
  /\ Took(c)
  /\ queued' = queued \cup {Head(link[c].out).m}
  /\ taken' = taken \cup {Head(link[c].out).m}
  /\ UNCHANGED <<proc, sent, unacked, subscribed, histories, bounds>>

takeAck(c) ==
  /\ Takes(c, {"ack"})
  /\ Took(c)
  /\ unacked' = [unacked EXCEPT ![c] = @ \ {Head(link[c].out).m}]
  /\ UNCHANGED <<proc, sent, queued, subscribed, taken, histories, bounds>>

\* A refusal closes the channel; the commands behind it are dropped.
refuse(c) ==
  /\ Takes(c, {"declaring", "consuming"})
  /\ link' = [link EXCEPT ![c] = [net |-> "shut", out |-> <<>>,
                                  in |-> Append(@.in, Frame(Head(@.out).op, 0))]]
  /\ UNCHANGED <<proc, sent, broker, histories, bounds>>

deliver(c, m) ==
  /\ Net(c, {"open"}) /\ c \in subscribed /\ m \in queued
  /\ queued' = queued \ {m}
  /\ unacked' = [unacked EXCEPT ![c] = @ \cup {m}]
  /\ link' = [link EXCEPT ![c].in = Append(@, Frame("deliver", m))]
  /\ UNCHANGED <<proc, sent, subscribed, taken, histories, bounds>>

\* The broker sees that the process or the connection is gone.
requeue(c) ==
  /\ Net(c, {"cut"}) \/ (Main(c, "off") /\ ~Net(c, {"none"}))
  /\ queued' = queued \cup unacked[c]
  /\ unacked' = [unacked EXCEPT ![c] = {}]
  /\ subscribed' = subscribed \ {c}
  /\ link' = [link EXCEPT ![c] = [NoLink EXCEPT !.net = IF Main(c, "off") THEN "none" ELSE "cut"]]
  /\ UNCHANGED <<proc, sent, taken, histories, bounds>>

Broker(c) ==
  \/ takeDeclare(c) \/ takeConsume(c) \/ takePublish(c) \/ takeAck(c)
  \/ (\E m \in Msg : deliver(c, m))
  \/ requeue(c)

crash(c) ==
  /\ ~Main(c, "off") /\ faults < MaxFaults
  /\ faults' = faults + 1
  /\ Die(c)
  /\ UNCHANGED <<link, sent, broker, histories, starts>>

cut(c) ==
  /\ Net(c, {"opening", "open"}) /\ ~Main(c, "off") /\ faults < MaxFaults
  /\ faults' = faults + 1
  /\ link' = [link EXCEPT ![c] = [NoLink EXCEPT !.net = "cut"]]
  /\ UNCHANGED <<proc, sent, broker, histories, starts>>

Next ==
  \E c \in Client :
    \/ Construct(c) \/ MainThread(c) \/ Destructor(c) \/ LoopThread(c)
    \/ Broker(c) \/ refuse(c) \/ crash(c) \/ cut(c)

Spec == Init /\ [][Next]_vars

\* Both threads and the broker go on; that a process is started, sleeps to its
\* end, is refused or fails is never counted on.  The user's callback returns.
Fairness ==
  \A c \in Client : WF_vars(MainThread(c)) /\ WF_vars(LoopThread(c)) /\ WF_vars(Broker(c))

FairSpec == Spec /\ Fairness

--------------------------------------------------------------------------------
(* Properties                                                                 *)

TypeOK ==
  /\ \A c \in Client :
       /\ proc[c].main = "off" => proc[c] = Gone
       /\ (proc[c].cur # 0) = (proc[c].loop \in {"callback", "ack"})
       /\ proc[c].cur \in {0} \cup taken
       /\ \A i \in DOMAIN link[c].in :
            LET f == link[c].in[i] IN f.op = "deliver" => f.m \in unacked[c]
       /\ c \in subscribed => link[c].net # "none"
  /\ sent \in 0 .. Messages
  /\ queued \cup handled \cup missed \subseteq taken
  /\ taken \subseteq 1 .. sent

\* consume acknowledges a message when its callback has returned
\* (rabbitmq.hpp:97-98): whatever crashes, is cut or is refused in between, a
\* message the broker took is in its queue, with a consumer it still waits for,
\* or has been through a callback.
NothingLost == taken \subseteq queued \cup handled \cup UNION {unacked[c] : c \in Client}

Serving(c) == c \in subscribed /\ Net(c, {"open"}) /\ Main(c, "sleep")

\* While some consumer stays subscribed every message the broker took is handled
\* in the end, over crashes and cut connections of the others; all but those
\* delivered before consume had set its callback.
AtLeastOnce ==
  <>[](\E c \in Consumer : Serving(c)) => \A m \in Msg : m \in taken ~> m \in handled \cup missed

\* The destructor gets the loop thread out of ev_run and joins it, wherever the
\* loop is: not entered yet, in a callback, or ended by a lost connection.
DestructorReturns == \A c \in Client : Main(c, "join") ~> Main(c, "off")

================================================================================
