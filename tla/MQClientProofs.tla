---------------------------- MODULE MQClientProofs -----------------------------
(******************************************************************************)
(* No message the broker took is lost, for any number of consumers, messages, *)
(* starts, crashes and cut connections.                                       *)
(******************************************************************************)
EXTENDS MQClient, SequenceTheorems, TLAPS

--------------------------------------------------------------------------------
(* The inductive invariant                                                    *)

MainPlace == {"off", "declare", "declaring", "publish", "consume", "consuming", "subscribing",
              "sleep", "join"}
LoopPlace == {"created", "running", "callback", "ack", "ended"}
Calls == {"declaring", "consuming"}

Process == [main : MainPlace, loop : LoopPlace, cur : Nat, wake : BOOLEAN, attached : SUBSET (Calls \cup {"received"})]
Command == [op : Calls \cup {"publish", "ack"}, m : Nat]
Answer == [op : Calls \cup {"deliver"}, m : Nat]
Link == [net : {"none", "opening", "open", "cut", "shut"}, out : Seq(Command), in : Seq(Answer)]

ProcOK(c) ==
  LET p == proc[c] IN
  /\ p.main = "off" => p = Gone
  /\ p.main = "publish" => c = Producer
  /\ (p.cur # 0) = (p.loop \in {"callback", "ack"})
  /\ p.cur # 0 => p.cur \in taken /\ (link[c].net # "cut" => p.cur \in unacked[c])
  /\ p.loop = "ack" => p.cur \in handled

\* Two frames of one kind on a wire are not about one message.
Distinct(s, op) == \A i, j \in DOMAIN s : s[i].op = op /\ s[j].op = op /\ s[i].m = s[j].m => i = j

\* On its way to a consumer: a message it has not acknowledged and not seen.
InOK(c) ==
  LET s == link[c].in IN
  /\ Distinct(s, "deliver")
  /\ \A i \in DOMAIN s : s[i].op = "deliver" => s[i].m \in unacked[c] /\ s[i].m # proc[c].cur

\* On its way to the broker: acks of what was handled, messages it does not have.
OutOK(c) ==
  LET s == link[c].out IN
  /\ Distinct(s, "ack") /\ Distinct(s, "publish")
  /\ \A i \in DOMAIN s : s[i].op = "ack" => /\ s[i].m \in unacked[c] \cap handled
                                            /\ s[i].m # proc[c].cur
  /\ \A i \in DOMAIN s : s[i].op = "publish" => c = Producer /\ s[i].m \in (1 .. sent) \ taken

\* What is still to be seen is not acknowledged.
Apart(c) ==
  \A i \in DOMAIN link[c].in, j \in DOMAIN link[c].out :
    link[c].in[i].op = "deliver" /\ link[c].out[j].op = "ack" => link[c].in[i].m # link[c].out[j].m

LinkOK(c) ==
  /\ link[c].net \in {"none", "cut"} => link[c].in = <<>> /\ link[c].out = <<>>
  /\ c \in subscribed => link[c].net # "none"
  /\ InOK(c) /\ OutOK(c) /\ Apart(c)

\* A message is in the queue or with one consumer.
BrokerOK ==
  /\ sent \in 0 .. Messages
  /\ taken \subseteq 1 .. sent
  /\ queued \cup handled \cup missed \subseteq taken
  /\ \A c \in Client : unacked[c] \subseteq taken \ queued
  /\ \A c, d \in Client : c # d => unacked[c] \cap unacked[d] = {}

Types ==
  /\ proc \in [Client -> Process]
  /\ link \in [Client -> Link]
  /\ unacked \in [Client -> SUBSET Nat]

IInv ==
  /\ Types
  /\ \A c \in Client : ProcOK(c) /\ LinkOK(c)
  /\ BrokerOK
  /\ NothingLost

--------------------------------------------------------------------------------
(* Wires                                                                      *)

\* A frame more.
LEMMA AppendAt ==
  ASSUME NEW S, NEW s \in Seq(S), NEW e \in S
  PROVE  /\ Append(s, e) \in Seq(S)
         /\ \A i \in DOMAIN Append(s, e) :
              \/ i \in DOMAIN s /\ Append(s, e)[i] = s[i]
              \/ i = Len(s) + 1 /\ Append(s, e)[i] = e
OBVIOUS

\* A frame less.
LEMMA TailAt ==
  ASSUME NEW S, NEW s \in Seq(S), s # <<>>
  PROVE  /\ Tail(s) \in Seq(S)
         /\ 1 \in DOMAIN s /\ Head(s) = s[1] /\ Head(s) \in S
         /\ \A i \in DOMAIN Tail(s) : i \in Nat /\ i + 1 \in DOMAIN s /\ i + 1 # 1 /\ Tail(s)[i] = s[i + 1]
OBVIOUS

\* A new frame about a message no frame of its kind is about.
LEMMA DistinctAppend ==
  ASSUME NEW S, NEW s \in Seq(S), NEW e \in S, NEW op, Distinct(s, op),
         e.op = op => \A i \in DOMAIN s : s[i].op = op => s[i].m # e.m
  PROVE  Distinct(Append(s, e), op)
BY AppendAt DEF Distinct

\* The frame taken off the wire was the only one about its message.
LEMMA DistinctTail ==
  ASSUME NEW S, NEW s \in Seq(S), s # <<>>, NEW op, Distinct(s, op)
  PROVE  /\ Distinct(Tail(s), op)
         /\ Head(s).op = op => \A i \in DOMAIN Tail(s) : Tail(s)[i].op = op => Tail(s)[i].m # Head(s).m
<1>1. /\ 1 \in DOMAIN s /\ Head(s) = s[1]
      /\ \A i \in DOMAIN Tail(s) : i \in Nat /\ i + 1 \in DOMAIN s /\ i + 1 # 1 /\ Tail(s)[i] = s[i + 1]
  BY TailAt
<1> QED
  BY <1>1 DEF Distinct

--------------------------------------------------------------------------------
(* What a step of one process leaves to the others                            *)

Others(c) ==
  /\ \A d \in Client \ {c} : /\ proc'[d] = proc[d] /\ link'[d] = link[d]
                             /\ unacked'[d] = unacked[d]
                             /\ d \in subscribed' => d \in subscribed
  /\ sent' \in Nat /\ sent' >= sent
  /\ handled \subseteq handled' /\ taken \subseteq taken'
  /\ taken' = taken \/ c = Producer

\* The other clients keep their part of the invariant.
LEMMA OthersKeep ==
  ASSUME IInv, NEW c \in Client, Others(c), NEW d \in Client, d # c
  PROVE  ProcOK(d)' /\ LinkOK(d)'
<1>1. ProcOK(d) /\ LinkOK(d) /\ sent \in Nat
  BY DEF IInv, BrokerOK
<1>2. /\ proc'[d] = proc[d] /\ link'[d] = link[d] /\ unacked'[d] = unacked[d]
      /\ d \in subscribed' => d \in subscribed
      /\ sent' \in Nat /\ sent' >= sent /\ handled \subseteq handled' /\ taken \subseteq taken'
  BY DEF Others
<1>3. ProcOK(d)'
  BY <1>1, <1>2 DEF ProcOK
<1>4. InOK(d)' /\ Apart(d)'
  BY <1>1, <1>2 DEF LinkOK, InOK, Apart
<1>5. OutOK(d)'
  <2>1. \A i \in DOMAIN link[d].out : link[d].out[i].op = "publish" =>
          d = Producer /\ link[d].out[i].m \in (1 .. sent') \ taken'
    BY <1>1, <1>2 DEF LinkOK, OutOK, Others
  <2> QED
    BY <1>1, <1>2, <2>1 DEF LinkOK, OutOK
<1> QED
  BY <1>1, <1>2, <1>3, <1>4, <1>5 DEF LinkOK

\* What a step must keep, put together.
LEMMA StepKeeps ==
  ASSUME IInv, NEW c \in Client, Others(c), Types', ProcOK(c)', LinkOK(c)', BrokerOK', NothingLost'
  PROVE  IInv'
BY OthersKeep DEF IInv

\* The broker's part of the invariant needs the broker only.
LEMMA BrokerSame ==
  ASSUME IInv, UNCHANGED <<broker, histories, sent>>
  PROVE  BrokerOK' /\ NothingLost' /\ sent \in Nat
BY DEF IInv, BrokerOK, NothingLost, broker, histories

--------------------------------------------------------------------------------
(* Steps inside a process                                                     *)

\* A thread goes on, or the process is gone.
LEMMA ProcStep ==
  ASSUME IInv, NEW c \in Client, proc' \in [Client -> Process],
         \A d \in Client \ {c} : proc'[d] = proc[d],
         UNCHANGED <<link, sent, broker, histories>>,
         proc'[c].main = "off" => proc'[c] = Gone,
         proc'[c].main = "publish" => c = Producer,
         (proc'[c].cur # 0) = (proc'[c].loop \in {"callback", "ack"}),
         proc'[c].cur \in {0, proc[c].cur},
         proc'[c].loop = "ack" => proc[c].loop = "ack"
  PROVE  IInv'
<1>1. ProcOK(c) /\ LinkOK(c)
  BY DEF IInv, Types
<1>2. Others(c)
  BY BrokerSame DEF IInv, Types, Others, broker, histories
<1>3. Types'
  BY DEF IInv, Types, broker
<1>4. ProcOK(c)'
  BY <1>1 DEF ProcOK, broker, histories
<1>5. InOK(c)'
  <2>1. \A i \in DOMAIN link[c].in : link[c].in[i].op = "deliver" => link[c].in[i].m # 0
    BY <1>1 DEF LinkOK, InOK, IInv, BrokerOK
  <2> QED
    BY <1>1, <2>1 DEF LinkOK, InOK, broker
<1>6. OutOK(c)'
  <2>1. \A i \in DOMAIN link[c].out : link[c].out[i].op = "ack" => link[c].out[i].m # 0
    BY <1>1 DEF LinkOK, OutOK, IInv, BrokerOK
  <2> QED
    BY <1>1, <2>1 DEF LinkOK, OutOK, broker, histories
<1>7. LinkOK(c)'
  BY <1>1, <1>5, <1>6 DEF LinkOK, Apart, broker
<1> QED
  BY <1>2, <1>3, <1>4, <1>7, BrokerSame, StepKeeps

\* The state of a process that ended.
LEMMA GoneIsProcess == /\ Gone \in Process /\ Gone.main = "off" /\ Gone.cur = 0
                       /\ Gone.loop \notin {"callback", "ack", "running", "created"}
BY DEF Gone, Process, MainPlace, LoopPlace

\* A process that dies takes its threads and its connection along, the broker goes on.
LEMMA DieKeeps ==
  ASSUME IInv, NEW c \in Client, Die(c), UNCHANGED <<link, sent, broker, histories>>
  PROVE  IInv'
<1>1. proc' \in [Client -> Process] /\ proc'[c] = Gone /\ \A d \in Client \ {c} : proc'[d] = proc[d]
  BY GoneIsProcess DEF Die, IInv, Types
<1>2. (Gone.cur # 0) = (Gone.loop \in {"callback", "ack"})
  BY GoneIsProcess
<1> QED
  BY <1>1, <1>2, GoneIsProcess, ProcStep

\* Calls of main that send nothing.
LEMMA MainKeeps ==
  ASSUME IInv, NEW c \in Client,
         Set(c, "declaring", "declaring", IF c = Producer THEN "publish" ELSE "consume")
           \/ Set(c, "subscribing", "consuming", "sleep") \/ onReceived(c)
           \/ lastPublished(c) \/ Destructor(c),
         UNCHANGED <<link, sent, broker, histories>>
  PROVE  IInv'
<1>1. proc \in [Client -> Process] /\ proc[c] \in Process /\ ProcOK(c)
  BY DEF IInv, Types
<1>2. UNCHANGED <<link, sent, broker, histories>>
  OBVIOUS
<1>3. /\ proc[c].main # "off" /\ proc'[c].main # "off" /\ (proc'[c].main = "publish" => c = Producer)
      /\ proc'[c].cur = proc[c].cur /\ proc'[c].loop = proc[c].loop
      /\ proc' \in [Client -> Process] /\ \A d \in Client \ {c} : proc'[d] = proc[d]
  <2>1. ASSUME NEW from \in {"declaring", "consuming", "subscribing"},
               NEW cb \in Calls \cup {"received"},
               NEW to \in {"publish", "consume", "subscribing", "sleep"},
               to = "publish" => c = Producer, Set(c, from, cb, to)
        PROVE  /\ proc[c].main # "off" /\ proc'[c].main # "off" /\ (proc'[c].main = "publish" => c = Producer)
               /\ proc'[c].cur = proc[c].cur /\ proc'[c].loop = proc[c].loop
               /\ proc' \in [Client -> Process] /\ \A d \in Client \ {c} : proc'[d] = proc[d]
    BY <1>1, <2>1 DEF Set, Main, Process, MainPlace
  <2>2. CASE Set(c, "declaring", "declaring", IF c = Producer THEN "publish" ELSE "consume")
    BY <2>1, <2>2 DEF Calls
  <2>5. CASE Set(c, "subscribing", "consuming", "sleep")
    BY <2>1, <2>5 DEF Calls
  <2>6. CASE onReceived(c)
    BY <2>1, <2>6 DEF onReceived
  <2>3. CASE lastPublished(c)
    BY <1>1, <2>3 DEF lastPublished, Main, Process, MainPlace
  <2>4. CASE Destructor(c)
    BY <1>1, <2>4 DEF Destructor, Main, Process, MainPlace
  <2> QED
    BY <2>2, <2>3, <2>4, <2>5, <2>6
<1>4. (proc[c].cur # 0) = (proc[c].loop \in {"callback", "ack"})
  BY <1>1 DEF ProcOK
<1>5. (proc'[c].cur # 0) = (proc'[c].loop \in {"callback", "ack"})
  BY <1>3, <1>4
<1> QED
  BY <1>2, <1>3, <1>5, ProcStep

\* Setting an onError: it is set, or fires at once.
LEMMA SetOnErrorKeeps ==
  ASSUME IInv, NEW c \in Client, declareOnError(c) \/ consumeOnError(c)
  PROVE  IInv'
<1>1. /\ \/ Set(c, "declaring", "declaring", IF c = Producer THEN "publish" ELSE "consume")
         \/ Set(c, "subscribing", "consuming", "sleep")
         \/ Die(c)
      /\ UNCHANGED <<link, sent, broker, histories>>
  BY DEF declareOnError, consumeOnError, SetOnError
<1> QED
  BY <1>1, MainKeeps, DieKeeps

\* Turns of the loop that send and receive nothing.
LEMMA LoopKeeps ==
  ASSUME IInv, NEW c \in Client, ev_run(c) \/ watcher_callback(c) \/ Turn(c, "running", "ended"),
         UNCHANGED <<link, sent, broker, histories>>
  PROVE  IInv'
<1>1. proc \in [Client -> Process] /\ proc[c] \in Process /\ ProcOK(c)
  BY DEF IInv, Types
<1>2. UNCHANGED <<link, sent, broker, histories>>
  OBVIOUS
<1>3. \E loop \in {"running", "ended"} :
        proc[c].loop \in {"created", "running"} /\ proc' = [proc EXCEPT ![c].loop = loop]
  BY DEF ev_run, watcher_callback, Turn, Loop
<1>4. /\ proc[c].loop \in {"created", "running"} /\ proc'[c].loop \in {"running", "ended"}
      /\ proc'[c].main = proc[c].main /\ proc'[c].cur = proc[c].cur
      /\ proc' \in [Client -> Process] /\ \A d \in Client \ {c} : proc'[d] = proc[d]
  BY <1>1, <1>3 DEF Process, LoopPlace
<1>5. proc[c].main # "off" /\ proc[c].cur = 0
  BY <1>1, <1>4, GoneIsProcess DEF ProcOK
<1>6. (proc'[c].cur # 0) = (proc'[c].loop \in {"callback", "ack"})
  BY <1>4, <1>5
<1>7. proc'[c].main = "publish" => c = Producer
  BY <1>1, <1>4 DEF ProcOK
<1> QED
  BY <1>2, <1>4, <1>5, <1>6, <1>7, ProcStep

--------------------------------------------------------------------------------
(* Commands                                                                   *)

\* What sending does to the wire, on a connection that is there and on one that
\* is gone.
LEMMA SendFrame ==
  ASSUME IInv, NEW c \in Client, NEW f \in Command, Send(c, f)
  PROVE  /\ link' \in [Client -> Link] /\ \A d \in Client \ {c} : link'[d] = link[d]
         /\ link'[c].net = link[c].net /\ link'[c].in = link[c].in
         /\ link[c].net \in {"none", "cut", "shut"} => link'[c].out = link[c].out
         /\ \A i \in DOMAIN link'[c].out :
              \/ i \in DOMAIN link[c].out /\ link'[c].out[i] = link[c].out[i]
              \/ link'[c].out[i] = f
         /\ \A op : /\ Distinct(link[c].out, op)
                    /\ f.op = op => \A i \in DOMAIN link[c].out :
                                      link[c].out[i].op = op => link[c].out[i].m # f.m
                    => Distinct(link'[c].out, op)
<1>1. link \in [Client -> Link] /\ link[c] \in Link /\ link[c].out \in Seq(Command)
  BY DEF IInv, Types, Link
<1>2. CASE Net(c, {"opening", "open"})
  <2>1. link' = [link EXCEPT ![c].out = Append(link[c].out, f)]
    BY <1>1, <1>2 DEF Send
  <2>2. Append(link[c].out, f) \in Seq(Command)
    BY <1>1, AppendAt
  <2>3. /\ link' \in [Client -> Link] /\ \A d \in Client \ {c} : link'[d] = link[d]
        /\ link'[c].net = link[c].net /\ link'[c].in = link[c].in
        /\ link'[c].out = Append(link[c].out, f)
    BY <1>1, <2>1, <2>2 DEF Link
  <2>4. link[c].net \notin {"none", "cut", "shut"}
    BY <1>2 DEF Net
  <2> QED
    BY <1>1, <2>3, <2>4, AppendAt, DistinctAppend
<1>3. CASE ~Net(c, {"opening", "open"})
  BY <1>1, <1>3 DEF Send
<1> QED
  BY <1>2, <1>3

\* A declaration or a subscription is sent.
LEMMA CallKeeps ==
  ASSUME IInv, NEW c \in Client, declareComponents(c) \/ consume(c)
  PROVE  IInv'
<1>1. PICK op \in Calls :
        /\ proc[c].main \in {"declare", "consume"} /\ proc' = [proc EXCEPT ![c].main = op]
        /\ Send(c, Frame(op, 0)) /\ UNCHANGED <<sent, broker, histories, bounds>>
  BY DEF declareComponents, consume, Call, Main, Calls
<1>2. /\ Frame(op, 0) \in Command /\ Frame(op, 0).op \notin {"ack", "publish"}
  BY DEF Frame, Command, Calls
<1>3. /\ link' \in [Client -> Link] /\ \A d \in Client \ {c} : link'[d] = link[d]
      /\ link'[c].net = link[c].net /\ link'[c].in = link[c].in
      /\ link[c].net \in {"none", "cut"} => link'[c].out = link[c].out
      /\ \A i \in DOMAIN link'[c].out : link'[c].out[i].op \in {"ack", "publish"} =>
           i \in DOMAIN link[c].out /\ link'[c].out[i] = link[c].out[i]
      /\ Distinct(link[c].out, "ack") => Distinct(link'[c].out, "ack")
      /\ Distinct(link[c].out, "publish") => Distinct(link'[c].out, "publish")
  BY <1>1, <1>2, SendFrame
<1>4. proc \in [Client -> Process] /\ proc[c] \in Process /\ ProcOK(c) /\ LinkOK(c)
  BY DEF IInv, Types
<1>5. /\ proc' \in [Client -> Process] /\ \A d \in Client \ {c} : proc'[d] = proc[d]
      /\ proc'[c].main = op /\ proc'[c].cur = proc[c].cur /\ proc'[c].loop = proc[c].loop
  BY <1>1, <1>4 DEF Process, MainPlace, Calls
<1>6. UNCHANGED <<broker, histories, sent>>
  BY <1>1
<1>7. Types' /\ Others(c)
  BY <1>3, <1>5, <1>6, BrokerSame DEF IInv, Types, Others, broker, histories
<1>8. ProcOK(c)'
  BY <1>1, <1>3, <1>4, <1>5, <1>6 DEF ProcOK, broker, histories, Calls
<1>9. LinkOK(c)'
  BY <1>3, <1>4, <1>5, <1>6 DEF LinkOK, InOK, OutOK, Apart, broker, histories
<1> QED
  BY <1>6, <1>7, <1>8, <1>9, BrokerSame, StepKeeps

\* A message is published under a number of its own.
LEMMA publishKeeps ==
  ASSUME IInv, NEW c \in Client, publish(c)
  PROVE  IInv'
<1>1. /\ sent < Messages /\ proc[c].main = "publish" /\ sent' = sent + 1
      /\ Send(c, Frame("publish", sent + 1)) /\ UNCHANGED <<proc, broker, histories>>
  BY DEF publish, Publish, Main
<1>2. sent \in Nat /\ sent <= Messages /\ taken \subseteq 1 .. sent /\ Messages \in Nat
  BY BoundsAssumption DEF IInv, BrokerOK
<1>3. /\ Frame("publish", sent + 1) \in Command /\ Frame("publish", sent + 1).op = "publish"
      /\ Frame("publish", sent + 1).m = sent + 1
  BY <1>2 DEF Frame, Command, Calls
<1>4. proc[c] \in Process /\ ProcOK(c) /\ LinkOK(c) /\ c = Producer
  BY <1>1 DEF IInv, Types, ProcOK
<1>5. \A i \in DOMAIN link[c].out : link[c].out[i].op = "publish" => link[c].out[i].m # sent + 1
  BY <1>2, <1>4 DEF LinkOK, OutOK
<1>6. /\ link' \in [Client -> Link] /\ \A d \in Client \ {c} : link'[d] = link[d]
      /\ link'[c].net = link[c].net /\ link'[c].in = link[c].in
      /\ link[c].net \in {"none", "cut"} => link'[c].out = link[c].out
      /\ \A i \in DOMAIN link'[c].out :
           \/ i \in DOMAIN link[c].out /\ link'[c].out[i] = link[c].out[i]
           \/ link'[c].out[i].op = "publish" /\ link'[c].out[i].m = sent + 1
      /\ Distinct(link[c].out, "ack") => Distinct(link'[c].out, "ack")
      /\ Distinct(link[c].out, "publish") => Distinct(link'[c].out, "publish")
  <2> DEFINE f == Frame("publish", sent + 1)
  <2> HIDE DEF f
  <2> QED
    BY <1>1, <1>3, <1>5, SendFrame DEF f
<1>7. Types' /\ Others(c)
  BY <1>1, <1>2, <1>6 DEF IInv, Types, Others, broker, histories
<1>8. ProcOK(c)'
  BY <1>1, <1>4, <1>6 DEF ProcOK, broker, histories
<1>9. OutOK(c)'
  <2>1. \A i \in DOMAIN link'[c].out : link'[c].out[i].op = "publish" =>
          link'[c].out[i].m \in (1 .. sent') \ taken'
    BY <1>1, <1>2, <1>4, <1>6 DEF LinkOK, OutOK, broker
  <2> QED
    BY <1>1, <1>4, <1>6, <2>1 DEF LinkOK, OutOK, broker, histories
<1>10. LinkOK(c)'
  BY <1>1, <1>4, <1>6, <1>9 DEF LinkOK, InOK, Apart, broker, histories
<1>11. BrokerOK' /\ NothingLost'
  BY <1>1, <1>2 DEF IInv, BrokerOK, NothingLost, broker, histories
<1> QED
  BY <1>7, <1>8, <1>10, <1>11, StepKeeps

\* What is acknowledged has been through the callback.
LEMMA ackKeeps ==
  ASSUME IInv, NEW c \in Client, ack(c)
  PROVE  IInv'
<1> DEFINE m == proc[c].cur
<1>1. /\ proc[c].loop = "ack" /\ proc' = [proc EXCEPT ![c].loop = "running", ![c].cur = 0]
      /\ Send(c, Frame("ack", m)) /\ UNCHANGED <<sent, broker, histories>>
  BY DEF ack, Ack, Loop
<1>2. proc \in [Client -> Process] /\ proc[c] \in Process /\ ProcOK(c) /\ LinkOK(c)
  BY DEF IInv, Types
<1>3. m \in Nat /\ m # 0 /\ m \in handled /\ (link[c].net # "cut" => m \in unacked[c])
  BY <1>1, <1>2 DEF ProcOK, Process
<1>4. Frame("ack", m) \in Command /\ Frame("ack", m).op = "ack" /\ Frame("ack", m).m = m
  BY <1>3 DEF Frame, Command, Calls
<1>5. \A i \in DOMAIN link[c].out : link[c].out[i].op = "ack" => link[c].out[i].m # m
  BY <1>2 DEF LinkOK, OutOK
<1>6. /\ link' \in [Client -> Link] /\ \A d \in Client \ {c} : link'[d] = link[d]
      /\ link'[c].net = link[c].net /\ link'[c].in = link[c].in
      /\ link[c].net \in {"none", "cut"} => link'[c].out = link[c].out
      /\ \A i \in DOMAIN link'[c].out :
           \/ i \in DOMAIN link[c].out /\ link'[c].out[i] = link[c].out[i]
           \/ link'[c].out[i].op = "ack" /\ link'[c].out[i].m = m
      /\ Distinct(link[c].out, "ack") => Distinct(link'[c].out, "ack")
      /\ Distinct(link[c].out, "publish") => Distinct(link'[c].out, "publish")
  <2> DEFINE f == Frame("ack", m)
  <2> HIDE DEF f
  <2> QED
    BY <1>1, <1>4, <1>5, SendFrame DEF f
<1>7. /\ proc' \in [Client -> Process] /\ \A d \in Client \ {c} : proc'[d] = proc[d]
      /\ proc'[c].main = proc[c].main /\ proc'[c].cur = 0 /\ proc'[c].loop = "running"
  BY <1>1, <1>2 DEF Process, LoopPlace
<1>8. proc[c].main # "off"
  BY <1>1, <1>2, GoneIsProcess DEF ProcOK
<1>9. UNCHANGED <<broker, histories, sent>>
  BY <1>1
<1>10. Types' /\ Others(c)
  BY <1>6, <1>7, <1>9, BrokerSame DEF IInv, Types, Others, broker, histories
<1>11. ProcOK(c)'
  BY <1>2, <1>7, <1>8 DEF ProcOK
<1>12. \A n \in unacked[c] : n # 0
  BY DEF IInv, BrokerOK
<1>13. InOK(c)'
  BY <1>2, <1>6, <1>7, <1>9, <1>12 DEF LinkOK, InOK, broker
<1>14. link[c].net = "cut" => link'[c].out = link[c].out
  BY <1>6
<1>15. OutOK(c)'
  <2>1. \A i \in DOMAIN link'[c].out : link'[c].out[i].op = "ack" =>
          link'[c].out[i].m \in unacked[c] \cap handled
    BY <1>2, <1>3, <1>6, <1>14 DEF LinkOK, OutOK
  <2> QED
    BY <1>2, <1>6, <1>7, <1>9, <1>12, <2>1 DEF LinkOK, OutOK, broker, histories
<1>16. Apart(c)'
  BY <1>2, <1>6 DEF LinkOK, InOK, Apart
<1>17. LinkOK(c)'
  BY <1>2, <1>6, <1>9, <1>13, <1>15, <1>16 DEF LinkOK, broker
<1> QED
  BY <1>9, <1>10, <1>11, <1>17, BrokerSame, StepKeeps

--------------------------------------------------------------------------------
(* Connections                                                                *)

\* A connection is made, once the process is started.
LEMMA ConnectKeeps ==
  ASSUME IInv, NEW c \in Client, Construct(c) \/ connected(c)
  PROVE  IInv'
<1>1. /\ proc \in [Client -> Process] /\ proc[c] \in Process /\ ProcOK(c) /\ LinkOK(c)
      /\ link \in [Client -> Link] /\ link[c] \in Link
  BY DEF IInv, Types
<1>2. UNCHANGED <<broker, histories, sent>>
  BY DEF Construct, connected
<1>3. /\ proc' \in [Client -> Process] /\ \A d \in Client \ {c} : proc'[d] = proc[d]
      /\ \/ proc'[c] = proc[c]
         \/ proc'[c].main = "declare" /\ proc'[c].cur = 0 /\ proc'[c].loop = "created"
  <2>1. CASE Construct(c)
    <3> DEFINE p == [Gone EXCEPT !.main = "declare", !.loop = "created"]
    <3>1. p \in Process /\ p.main = "declare" /\ p.cur = 0 /\ p.loop = "created"
      BY GoneIsProcess DEF Process, MainPlace, LoopPlace
    <3>2. proc' = [proc EXCEPT ![c] = p]
      BY <2>1 DEF Construct
    <3> HIDE DEF p
    <3> QED
      BY <1>1, <3>1, <3>2
  <2>2. CASE connected(c)
    BY <1>1, <2>2 DEF connected
  <2> QED
    BY <2>1, <2>2
<1>4. /\ link' \in [Client -> Link] /\ \A d \in Client \ {c} : link'[d] = link[d]
      /\ link[c].net \in {"none", "opening"} /\ link'[c].net \in {"opening", "open"}
      /\ link'[c].in = link[c].in /\ link'[c].out = link[c].out
  <2>1. CASE Construct(c)
    BY <1>1, <2>1 DEF Construct, Net, Link
  <2>2. CASE connected(c)
    BY <1>1, <2>2 DEF connected, Net, Link
  <2> QED
    BY <2>1, <2>2
<1>5. Types' /\ Others(c)
  BY <1>2, <1>3, <1>4, BrokerSame DEF IInv, Types, Others, broker, histories
<1>6. ProcOK(c)'
  BY <1>1, <1>2, <1>3, <1>4 DEF ProcOK, broker, histories
<1>7. \A n \in unacked[c] : n # 0
  BY DEF IInv, BrokerOK
<1>8. LinkOK(c)'
  BY <1>1, <1>2, <1>3, <1>4, <1>7 DEF LinkOK, InOK, OutOK, Apart, broker, histories
<1> QED
  BY <1>2, <1>5, <1>6, <1>8, BrokerSame, StepKeeps

\* A wire with nothing on it.
LEMMA NoFrames == Distinct(<<>>, "ack") /\ Distinct(<<>>, "publish") /\ Distinct(<<>>, "deliver")
<1>1. DOMAIN <<>> = {}
  OBVIOUS
<1> QED
  BY <1>1 DEF Distinct

\* A connection that is cut, and the broker that hears of it: what is not
\* acknowledged is queued again.
LEMMA cutKeeps ==
  ASSUME IInv, NEW c \in Client, cut(c)
  PROVE  IInv'
<1>0. DOMAIN <<>> = {} /\ \A S : <<>> \in Seq(S)
  OBVIOUS
<1>1. UNCHANGED <<proc, broker, histories, sent>> /\ link' = [link EXCEPT ![c] = [NoLink EXCEPT !.net = "cut"]]
  BY DEF cut
<1>2. /\ link' \in [Client -> Link] /\ \A d \in Client \ {c} : link'[d] = link[d]
      /\ link'[c].net = "cut" /\ link'[c].in = <<>> /\ link'[c].out = <<>>
  BY <1>0, <1>1 DEF IInv, Types, Link, NoLink
<1>3. ProcOK(c) /\ LinkOK(c)
  BY DEF IInv
<1>4. Types' /\ Others(c)
  BY <1>1, <1>2, BrokerSame DEF IInv, Types, Others, broker, histories
<1>5. ProcOK(c)'
  BY <1>1, <1>2, <1>3 DEF ProcOK, broker, histories
<1>6. LinkOK(c)'
  BY <1>0, <1>1, <1>2, <1>3, NoFrames DEF LinkOK, InOK, OutOK, Apart, broker
<1> QED
  BY <1>1, <1>4, <1>5, <1>6, BrokerSame, StepKeeps

\* The broker notices the cut and queues what was not acknowledged.
LEMMA requeueKeeps ==
  ASSUME IInv, NEW c \in Client, requeue(c)
  PROVE  IInv'
<1>0. DOMAIN <<>> = {} /\ \A S : <<>> \in Seq(S)
  OBVIOUS
<1> DEFINE net == IF proc[c].main = "off" THEN "none" ELSE "cut"
<1>1. /\ link[c].net = "cut" \/ proc[c].main = "off"
      /\ queued' = queued \cup unacked[c] /\ unacked' = [unacked EXCEPT ![c] = {}]
      /\ subscribed' = subscribed \ {c}
      /\ link' = [link EXCEPT ![c] = [NoLink EXCEPT !.net = net]]
      /\ UNCHANGED <<proc, sent, taken, histories>>
  BY DEF requeue, Net, Main
<1>2. /\ link' \in [Client -> Link] /\ \A d \in Client \ {c} : link'[d] = link[d]
      /\ link'[c].net = net /\ link'[c].in = <<>> /\ link'[c].out = <<>>
  BY <1>0, <1>1 DEF IInv, Types, Link, NoLink
<1>3. ProcOK(c) /\ LinkOK(c) /\ BrokerOK /\ sent \in Nat
  BY DEF IInv, BrokerOK
<1>4. unacked' \in [Client -> SUBSET Nat] /\ unacked'[c] = {} /\ \A d \in Client \ {c} : unacked'[d] = unacked[d]
  BY <1>1 DEF IInv, Types
<1>5. Types' /\ Others(c)
  BY <1>1, <1>2, <1>3, <1>4 DEF IInv, Types, Others, histories
<1>6. ProcOK(c)'
  BY <1>1, <1>2, <1>3, GoneIsProcess DEF ProcOK, histories
<1>7. LinkOK(c)'
  BY <1>0, <1>1, <1>2, <1>3, NoFrames DEF LinkOK, InOK, OutOK, Apart
<1>8. BrokerOK'
  BY <1>1, <1>3, <1>4 DEF BrokerOK, histories
<1>9. NothingLost'
  BY <1>1, <1>4 DEF IInv, NothingLost, histories
<1> QED
  BY <1>5, <1>6, <1>7, <1>8, <1>9, StepKeeps

--------------------------------------------------------------------------------
(* Answers and deliveries                                                     *)

\* What reading does to the wire.
LEMMA DropFrame ==
  ASSUME IInv, NEW c \in Client, link[c].in # <<>>, Drop(c)
  PROVE  /\ link' \in [Client -> Link] /\ \A d \in Client \ {c} : link'[d] = link[d]
         /\ link'[c].net = link[c].net /\ link'[c].out = link[c].out
         /\ link[c].net \notin {"none", "cut"}
         /\ 1 \in DOMAIN link[c].in /\ Head(link[c].in) = link[c].in[1]
         /\ \A i \in DOMAIN link'[c].in : \E j \in DOMAIN link[c].in : link'[c].in[i] = link[c].in[j]
         /\ InOK(c) => Distinct(link'[c].in, "deliver")
         /\ InOK(c) /\ Head(link[c].in).op = "deliver" =>
              \A i \in DOMAIN link'[c].in : link'[c].in[i].op = "deliver" =>
                link'[c].in[i].m # Head(link[c].in).m
<1>1. link \in [Client -> Link] /\ link[c] \in Link /\ link[c].in \in Seq(Answer) /\ LinkOK(c)
  BY DEF IInv, Types, Link
<1>2. Tail(link[c].in) \in Seq(Answer)
  BY <1>1, TailAt
<1>3. /\ link' \in [Client -> Link] /\ \A d \in Client \ {c} : link'[d] = link[d]
      /\ link'[c].net = link[c].net /\ link'[c].out = link[c].out
      /\ link'[c].in = Tail(link[c].in)
  BY <1>1, <1>2 DEF Link, Drop
<1>4. /\ 1 \in DOMAIN link[c].in /\ Head(link[c].in) = link[c].in[1]
      /\ \A i \in DOMAIN Tail(link[c].in) : i + 1 \in DOMAIN link[c].in /\ Tail(link[c].in)[i] = link[c].in[i + 1]
  BY <1>1, TailAt
<1>5. link[c].net \notin {"none", "cut"}
  BY <1>1 DEF LinkOK
<1>6. InOK(c) => /\ Distinct(Tail(link[c].in), "deliver")
                 /\ Head(link[c].in).op = "deliver" =>
                      \A i \in DOMAIN Tail(link[c].in) : Tail(link[c].in)[i].op = "deliver" =>
                        Tail(link[c].in)[i].m # Head(link[c].in).m
  BY <1>1, DistinctTail DEF InOK
<1> QED
  BY <1>3, <1>4, <1>5, <1>6

\* A frame that is read: a delivery, or an answer that ends the process or not.
LEMMA ReadKeeps ==
  ASSUME IInv, NEW c \in Client, link[c].in # <<>>, Drop(c),
         proc' \in [Client -> Process], \A d \in Client \ {c} : proc'[d] = proc[d],
         UNCHANGED <<sent, broker, handled>>, missed \subseteq missed', missed' \subseteq taken,
         \/ proc'[c] = proc[c]
         \/ proc'[c] = Gone
         \/ /\ proc'[c].main = proc[c].main /\ proc[c].main # "off" /\ proc'[c].loop = "callback"
            /\ proc'[c].cur = Head(link[c].in).m /\ Head(link[c].in).op = "deliver"
  PROVE  IInv'
<1> DEFINE f == Head(link[c].in)
<1>1. ProcOK(c) /\ LinkOK(c) /\ InOK(c)
  BY DEF IInv, LinkOK
<1>2. /\ link' \in [Client -> Link] /\ \A d \in Client \ {c} : link'[d] = link[d]
      /\ link'[c].net = link[c].net /\ link'[c].out = link[c].out
      /\ link[c].net \notin {"none", "cut"}
      /\ 1 \in DOMAIN link[c].in /\ f = link[c].in[1]
      /\ \A i \in DOMAIN link'[c].in : \E j \in DOMAIN link[c].in : link'[c].in[i] = link[c].in[j]
      /\ Distinct(link'[c].in, "deliver")
      /\ f.op = "deliver" => \A i \in DOMAIN link'[c].in : link'[c].in[i].op = "deliver" => link'[c].in[i].m # f.m
  BY <1>1, DropFrame
<1>3. f.op = "deliver" => f.m \in unacked[c] /\ f.m \in taken /\ f.m # 0
  BY <1>1, <1>2 DEF InOK, IInv, BrokerOK
<1>4. \A n \in unacked[c] : n # 0
  BY DEF IInv, BrokerOK
<1> HIDE DEF f
<1>5. \/ proc'[c] = proc[c]
      \/ proc'[c] = Gone
      \/ /\ proc'[c].main = proc[c].main /\ proc[c].main # "off" /\ proc'[c].loop = "callback"
         /\ proc'[c].cur = f.m /\ f.op = "deliver"
  BY DEF f
<1>6. ProcOK(c)'
  BY <1>1, <1>2, <1>3, <1>5, GoneIsProcess DEF ProcOK, broker
<1>7. InOK(c)'
  BY <1>1, <1>2, <1>4, <1>5, GoneIsProcess DEF InOK, broker
<1>8. OutOK(c)'
  <2>1. f.op = "deliver" => \A j \in DOMAIN link[c].out : link[c].out[j].op = "ack" => link[c].out[j].m # f.m
    BY <1>1, <1>2 DEF LinkOK, Apart
  <2> QED
    BY <1>1, <1>2, <1>4, <1>5, <2>1, GoneIsProcess DEF LinkOK, OutOK, broker
<1>9. Apart(c)'
  BY <1>1, <1>2 DEF LinkOK, Apart
<1>10. LinkOK(c)'
  BY <1>1, <1>2, <1>7, <1>8, <1>9 DEF LinkOK, broker
<1>11. sent \in Nat
  BY DEF IInv, BrokerOK
<1>12. Types' /\ Others(c)
  BY <1>2, <1>11 DEF IInv, Types, Others, broker
<1>13. BrokerOK' /\ NothingLost'
  BY DEF IInv, BrokerOK, NothingLost, broker
<1> QED
  BY <1>6, <1>10, <1>12, <1>13, StepKeeps

\* The loop thread takes an answer or a delivery off the wire.
LEMMA ReceiveKeeps ==
  ASSUME IInv, NEW c \in Client, onError(c) \/ received(c) \/ receivedTooEarly(c)
  PROVE  IInv'
<1>1. proc \in [Client -> Process] /\ proc[c] \in Process /\ ProcOK(c) /\ LinkOK(c)
  BY DEF IInv, Types
<1>2. link[c].in # <<>> /\ Drop(c) /\ proc[c].loop = "running" /\ UNCHANGED <<sent, broker, handled>>
  BY DEF onError, received, Receive, receivedTooEarly, Reads, Loop, histories
<1>3. link[c].in \in Seq(Answer)
  BY DEF IInv, Types, Link
<1>4. Head(link[c].in) \in Answer /\ 1 \in DOMAIN link[c].in /\ Head(link[c].in) = link[c].in[1]
  BY <1>2, <1>3, TailAt
<1>5. Head(link[c].in).m \in Nat
  BY <1>4 DEF Answer
<1>6. CASE onError(c)
  <2>1. proc' = [proc EXCEPT ![c] = Gone] \/ proc' = proc
    BY <1>6 DEF onError, Die
  <2>2. proc' \in [Client -> Process] /\ (proc'[c] = Gone \/ proc'[c] = proc[c])
        /\ \A d \in Client \ {c} : proc'[d] = proc[d]
    BY <1>1, <2>1, GoneIsProcess
  <2>3. missed \subseteq missed' /\ missed' \subseteq taken
    BY <1>6 DEF onError, histories, IInv, BrokerOK
  <2> QED
    BY <1>2, <2>2, <2>3, ReadKeeps
<1>7. CASE received(c)
  <2>1. /\ Head(link[c].in).op = "deliver"
        /\ proc' = [proc EXCEPT ![c].loop = "callback", ![c].cur = Head(link[c].in).m]
        /\ missed' = missed
    BY <1>7 DEF received, Receive, Reads, histories
  <2>2. /\ proc' \in [Client -> Process] /\ \A d \in Client \ {c} : proc'[d] = proc[d]
        /\ proc'[c].main = proc[c].main /\ proc'[c].loop = "callback"
        /\ proc'[c].cur = Head(link[c].in).m
    BY <1>1, <1>5, <2>1 DEF Process, LoopPlace
  <2>3. proc[c].main # "off"
    BY <1>1, <1>2, GoneIsProcess DEF ProcOK
  <2>4. missed \subseteq missed' /\ missed' \subseteq taken
    BY <2>1 DEF IInv, BrokerOK
  <2> QED
    BY <1>2, <2>1, <2>2, <2>3, <2>4, ReadKeeps
<1>8. CASE receivedTooEarly(c)
  <2>1. /\ Head(link[c].in).op = "deliver" /\ proc' = proc
        /\ missed' = missed \cup {Head(link[c].in).m}
    BY <1>8 DEF receivedTooEarly, Reads
  <2>2. Head(link[c].in).m \in taken
    BY <1>1, <1>4, <2>1 DEF LinkOK, InOK, IInv, BrokerOK
  <2>3. missed \subseteq missed' /\ missed' \subseteq taken
    BY <2>1, <2>2 DEF IInv, BrokerOK
  <2> QED
    BY <1>1, <1>2, <2>1, <2>3, ReadKeeps
<1> QED
  BY <1>6, <1>7, <1>8

\* The callback returns: from here on the message may be acknowledged.
LEMMA callbackKeeps ==
  ASSUME IInv, NEW c \in Client, callback(c)
  PROVE  IInv'
<1>1. proc \in [Client -> Process] /\ proc[c] \in Process /\ ProcOK(c) /\ LinkOK(c)
  BY DEF IInv, Types
<1>2. /\ proc[c].loop = "callback" /\ proc' = [proc EXCEPT ![c].loop = "ack"]
      /\ handled' = handled \cup {proc[c].cur} /\ UNCHANGED <<link, sent, broker, missed>>
  BY DEF callback, Turn, Loop
<1>3. /\ proc' \in [Client -> Process] /\ \A d \in Client \ {c} : proc'[d] = proc[d]
      /\ proc'[c].main = proc[c].main /\ proc'[c].loop = "ack" /\ proc'[c].cur = proc[c].cur
  BY <1>1, <1>2 DEF Process, LoopPlace
<1>4. proc[c].cur # 0 /\ proc[c].cur \in taken /\ proc[c].main # "off"
  BY <1>1, <1>2, GoneIsProcess DEF ProcOK
<1>5. sent \in Nat
  BY DEF IInv, BrokerOK
<1>6. Types' /\ Others(c)
  BY <1>2, <1>3, <1>5 DEF IInv, Types, Others, broker
<1>7. ProcOK(c)'
  BY <1>1, <1>2, <1>3, <1>4 DEF ProcOK, broker
<1>8. LinkOK(c)'
  BY <1>1, <1>2, <1>3 DEF LinkOK, InOK, OutOK, Apart, broker
<1>9. BrokerOK' /\ NothingLost'
  BY <1>2, <1>4 DEF IInv, BrokerOK, NothingLost, broker
<1> QED
  BY <1>6, <1>7, <1>8, <1>9, StepKeeps

--------------------------------------------------------------------------------
(* The broker                                                                 *)

\* What taking a command does to the wire.
LEMMA TakeFrame ==
  ASSUME IInv, NEW c \in Client, NEW ops, Takes(c, ops), Took(c)
  PROVE  /\ link' \in [Client -> Link] /\ \A d \in Client \ {c} : link'[d] = link[d]
         /\ link'[c].net = "open" /\ link[c].net = "open" /\ link'[c].in = link[c].in
         /\ Head(link[c].out).op \in ops
         /\ 1 \in DOMAIN link[c].out /\ Head(link[c].out) = link[c].out[1]
         /\ Head(link[c].out) \in Command
         /\ \A i \in DOMAIN link'[c].out : \E j \in DOMAIN link[c].out : link'[c].out[i] = link[c].out[j]
         /\ \A op : Distinct(link[c].out, op) =>
              /\ Distinct(link'[c].out, op)
              /\ Head(link[c].out).op = op =>
                   \A i \in DOMAIN link'[c].out : link'[c].out[i].op = op =>
                     link'[c].out[i].m # Head(link[c].out).m
<1>1. link \in [Client -> Link] /\ link[c] \in Link /\ link[c].out \in Seq(Command)
  BY DEF IInv, Types, Link
<1>2. link[c].net = "open" /\ link[c].out # <<>> /\ Head(link[c].out).op \in ops
      /\ link' = [link EXCEPT ![c].out = Tail(link[c].out)]
  BY <1>1 DEF Takes, Took, Net
<1>3. Tail(link[c].out) \in Seq(Command)
  BY <1>1, <1>2, TailAt
<1>4. /\ link' \in [Client -> Link] /\ \A d \in Client \ {c} : link'[d] = link[d]
      /\ link'[c].net = "open" /\ link'[c].in = link[c].in
      /\ link'[c].out = Tail(link[c].out)
  BY <1>1, <1>2, <1>3 DEF Link
<1>5. /\ 1 \in DOMAIN link[c].out /\ Head(link[c].out) = link[c].out[1] /\ Head(link[c].out) \in Command
      /\ \A i \in DOMAIN Tail(link[c].out) : i + 1 \in DOMAIN link[c].out /\ Tail(link[c].out)[i] = link[c].out[i + 1]
  BY <1>1, <1>2, TailAt
<1>6. \A op : Distinct(link[c].out, op) =>
        /\ Distinct(Tail(link[c].out), op)
        /\ Head(link[c].out).op = op =>
             \A i \in DOMAIN Tail(link[c].out) : Tail(link[c].out)[i].op = op =>
               Tail(link[c].out)[i].m # Head(link[c].out).m
  BY <1>1, <1>2, DistinctTail
<1> QED
  BY <1>2, <1>4, <1>5, <1>6

\* A command about no message.
LEMMA takeCallKeeps ==
  ASSUME IInv, NEW c \in Client, takeDeclare(c) \/ takeConsume(c)
  PROVE  IInv'
<1>1. Takes(c, Calls) /\ Took(c) /\ subscribed' \subseteq subscribed \cup {c}
      /\ UNCHANGED <<proc, sent, queued, unacked, taken, histories>>
  BY DEF takeDeclare, takeConsume, Takes, Calls, broker
<1>2. /\ link' \in [Client -> Link] /\ \A d \in Client \ {c} : link'[d] = link[d]
      /\ link'[c].net = "open" /\ link[c].net = "open" /\ link'[c].in = link[c].in
      /\ \A i \in DOMAIN link'[c].out : \E j \in DOMAIN link[c].out : link'[c].out[i] = link[c].out[j]
      /\ Distinct(link[c].out, "ack") => Distinct(link'[c].out, "ack")
      /\ Distinct(link[c].out, "publish") => Distinct(link'[c].out, "publish")
  BY <1>1, TakeFrame
<1>3. ProcOK(c) /\ LinkOK(c) /\ sent \in Nat
  BY DEF IInv, BrokerOK
<1>4. Types' /\ Others(c)
  BY <1>1, <1>2, <1>3 DEF IInv, Types, Others, histories
<1>5. ProcOK(c)'
  BY <1>1, <1>2, <1>3 DEF ProcOK, histories
<1>6. InOK(c)' /\ Apart(c)' /\ OutOK(c)'
  BY <1>1, <1>2, <1>3 DEF LinkOK, InOK, OutOK, Apart, histories
<1>7. LinkOK(c)'
  BY <1>2, <1>6 DEF LinkOK
<1>8. BrokerOK' /\ NothingLost'
  BY <1>1 DEF IInv, BrokerOK, NothingLost, histories
<1> QED
  BY <1>4, <1>5, <1>7, <1>8, StepKeeps

\* A message comes to the queue once.
LEMMA takePublishKeeps ==
  ASSUME IInv, NEW c \in Client, takePublish(c)
  PROVE  IInv'
<1> DEFINE m == Head(link[c].out).m
<1>1. /\ Takes(c, {"publish"}) /\ Took(c) /\ queued' = queued \cup {m} /\ taken' = taken \cup {m}
      /\ UNCHANGED <<proc, sent, unacked, subscribed, histories>>
  BY DEF takePublish
<1>2. ProcOK(c) /\ LinkOK(c) /\ OutOK(c) /\ sent \in Nat
  BY DEF IInv, BrokerOK, LinkOK
<1>3. /\ link' \in [Client -> Link] /\ \A d \in Client \ {c} : link'[d] = link[d]
      /\ link'[c].net = "open" /\ link[c].net = "open" /\ link'[c].in = link[c].in
      /\ Head(link[c].out).op = "publish" /\ 1 \in DOMAIN link[c].out /\ Head(link[c].out) = link[c].out[1]
      /\ \A i \in DOMAIN link'[c].out : \E j \in DOMAIN link[c].out : link'[c].out[i] = link[c].out[j]
      /\ Distinct(link'[c].out, "ack") /\ Distinct(link'[c].out, "publish")
      /\ \A i \in DOMAIN link'[c].out : link'[c].out[i].op = "publish" => link'[c].out[i].m # m
  BY <1>1, <1>2, TakeFrame DEF OutOK
<1>4. c = Producer /\ m \in (1 .. sent) \ taken
  BY <1>2, <1>3 DEF OutOK
<1> HIDE DEF m
<1>5. Types' /\ Others(c)
  BY <1>1, <1>2, <1>3, <1>4 DEF IInv, Types, Others, histories
<1>6. ProcOK(c)'
  BY <1>1, <1>2, <1>3 DEF ProcOK, histories
<1>7. InOK(c)' /\ Apart(c)' /\ OutOK(c)'
  BY <1>1, <1>2, <1>3 DEF LinkOK, InOK, OutOK, Apart, histories
<1>8. LinkOK(c)'
  BY <1>1, <1>2, <1>3, <1>7 DEF LinkOK
<1>9. BrokerOK' /\ NothingLost'
  BY <1>1, <1>4 DEF IInv, BrokerOK, NothingLost, histories
<1> QED
  BY <1>5, <1>6, <1>8, <1>9, StepKeeps

\* What the broker forgets has been handled.
LEMMA takeAckKeeps ==
  ASSUME IInv, NEW c \in Client, takeAck(c)
  PROVE  IInv'
<1> DEFINE m == Head(link[c].out).m
<1>1. /\ Takes(c, {"ack"}) /\ Took(c) /\ unacked' = [unacked EXCEPT ![c] = unacked[c] \ {m}]
      /\ UNCHANGED <<proc, sent, queued, taken, subscribed, histories>>
  BY DEF takeAck, IInv, Types
<1>2. ProcOK(c) /\ LinkOK(c) /\ OutOK(c) /\ sent \in Nat
  BY DEF IInv, BrokerOK, LinkOK
<1>3. /\ link' \in [Client -> Link] /\ \A d \in Client \ {c} : link'[d] = link[d]
      /\ link'[c].net = "open" /\ link[c].net = "open" /\ link'[c].in = link[c].in
      /\ Head(link[c].out).op = "ack" /\ 1 \in DOMAIN link[c].out /\ Head(link[c].out) = link[c].out[1]
      /\ \A i \in DOMAIN link'[c].out : \E j \in DOMAIN link[c].out : link'[c].out[i] = link[c].out[j]
      /\ Distinct(link'[c].out, "ack") /\ Distinct(link'[c].out, "publish")
      /\ \A i \in DOMAIN link'[c].out : link'[c].out[i].op = "ack" => link'[c].out[i].m # m
  <2>1. \A op : Distinct(link[c].out, op) =>
          /\ Distinct(link'[c].out, op)
          /\ Head(link[c].out).op = op =>
               \A i \in DOMAIN link'[c].out : link'[c].out[i].op = op => link'[c].out[i].m # m
    BY <1>1, TakeFrame
  <2>2. Distinct(link[c].out, "ack") /\ Distinct(link[c].out, "publish")
    BY <1>2 DEF OutOK
  <2>3. /\ link' \in [Client -> Link] /\ \A d \in Client \ {c} : link'[d] = link[d]
        /\ link'[c].net = "open" /\ link[c].net = "open" /\ link'[c].in = link[c].in
        /\ Head(link[c].out).op = "ack" /\ 1 \in DOMAIN link[c].out /\ Head(link[c].out) = link[c].out[1]
        /\ \A i \in DOMAIN link'[c].out : \E j \in DOMAIN link[c].out : link'[c].out[i] = link[c].out[j]
    BY <1>1, TakeFrame
  <2> QED
    BY <2>1, <2>2, <2>3
<1>4. m \in handled /\ m # proc[c].cur
  BY <1>2, <1>3 DEF OutOK
<1>5. \A i \in DOMAIN link[c].in : link[c].in[i].op = "deliver" => link[c].in[i].m # m
  BY <1>2, <1>3 DEF LinkOK, Apart
<1> HIDE DEF m
<1>6. /\ unacked' \in [Client -> SUBSET Nat] /\ unacked'[c] = unacked[c] \ {m}
      /\ \A d \in Client \ {c} : unacked'[d] = unacked[d]
  BY <1>1 DEF IInv, Types
<1>7. Types' /\ Others(c)
  BY <1>1, <1>2, <1>3, <1>6 DEF IInv, Types, Others, histories
<1>8. ProcOK(c)'
  BY <1>1, <1>2, <1>3, <1>4, <1>6 DEF ProcOK, histories
<1>9. InOK(c)' /\ Apart(c)'
  BY <1>1, <1>2, <1>3, <1>5, <1>6 DEF LinkOK, InOK, Apart
<1>10. OutOK(c)'
  BY <1>1, <1>2, <1>3, <1>6 DEF OutOK, histories
<1>11. LinkOK(c)'
  BY <1>1, <1>2, <1>3, <1>9, <1>10 DEF LinkOK
<1>12. BrokerOK'
  <2>1. \A d \in Client : unacked'[d] \subseteq unacked[d]
    BY <1>6
  <2>2. BrokerOK
    BY DEF IInv
  <2>3. \A d \in Client : unacked'[d] \subseteq taken' \ queued'
    BY <1>1, <2>1, <2>2 DEF BrokerOK
  <2>4. \A d, e \in Client : d # e => unacked'[d] \cap unacked'[e] = {}
    BY <2>1, <2>2 DEF BrokerOK
  <2>5. UNCHANGED <<sent, queued, taken, handled, missed>>
    BY <1>1 DEF histories
  <2> QED
    BY <2>2, <2>3, <2>4, <2>5 DEF BrokerOK
<1>13. NothingLost'
  <2>1. \A d \in Client : \A x \in unacked[d] : x \in unacked'[d] \/ x \in handled
    BY <1>4, <1>6
  <2>2. NothingLost /\ UNCHANGED <<queued, taken, handled>>
    BY <1>1 DEF IInv, histories
  <2>3. \A x \in taken : x \in queued \cup handled \/ \E d \in Client : x \in unacked[d]
    BY <2>2 DEF NothingLost
  <2>4. \A x \in taken : x \in queued \cup handled \/ \E d \in Client : x \in unacked'[d]
    BY <2>1, <2>3
  <2> QED
    BY <2>2, <2>4 DEF NothingLost
<1> QED
  BY <1>7, <1>8, <1>11, <1>12, <1>13, StepKeeps

\* A refusal leaves the deliveries before it to be read.
LEMMA refuseKeeps ==
  ASSUME IInv, NEW c \in Client, refuse(c)
  PROVE  IInv'
<1>0. DOMAIN <<>> = {} /\ \A S : <<>> \in Seq(S)
  OBVIOUS
<1> DEFINE f == Frame(Head(link[c].out).op, 0)
<1>1. /\ link \in [Client -> Link] /\ link[c] \in Link /\ link[c].in \in Seq(Answer) /\ link[c].net = "open"
      /\ ProcOK(c) /\ LinkOK(c) /\ InOK(c) /\ sent \in Nat
  BY DEF IInv, Types, Link, refuse, Takes, Net, LinkOK, BrokerOK
<1>2. f \in Answer /\ f.op # "deliver"
  BY DEF refuse, Takes, Frame, Answer, Calls
<1>3. /\ link' = [link EXCEPT ![c] = [net |-> "shut", out |-> <<>>, in |-> Append(link[c].in, f)]]
      /\ UNCHANGED <<proc, sent, broker, histories>>
  BY <1>1 DEF refuse
<1> HIDE DEF f
<1>4. Append(link[c].in, f) \in Seq(Answer) /\ Distinct(Append(link[c].in, f), "deliver")
  BY <1>1, <1>2, AppendAt, DistinctAppend DEF InOK
<1>5. /\ link' \in [Client -> Link] /\ \A d \in Client \ {c} : link'[d] = link[d]
      /\ link'[c].net = "shut" /\ link'[c].out = <<>> /\ link'[c].in = Append(link[c].in, f)
  BY <1>0, <1>1, <1>3, <1>4 DEF Link
<1>6. \A i \in DOMAIN link'[c].in : link'[c].in[i].op = "deliver" =>
        i \in DOMAIN link[c].in /\ link'[c].in[i] = link[c].in[i]
  BY <1>1, <1>2, <1>5, AppendAt
<1>7. Types' /\ Others(c)
  BY <1>1, <1>3, <1>5 DEF IInv, Types, Others, broker, histories
<1>8. ProcOK(c)'
  BY <1>1, <1>3, <1>5 DEF ProcOK, broker, histories
<1>9. InOK(c)'
  BY <1>1, <1>3, <1>4, <1>5, <1>6 DEF InOK, broker
<1>10. OutOK(c)' /\ Apart(c)'
  BY <1>0, <1>5, NoFrames DEF OutOK, Apart
<1>11. LinkOK(c)'
  BY <1>5, <1>9, <1>10 DEF LinkOK
<1> QED
  BY <1>3, <1>7, <1>8, <1>11, BrokerSame, StepKeeps

\* A message goes to one consumer, who has no frame about it.
LEMMA deliverKeeps ==
  ASSUME IInv, NEW c \in Client, NEW m \in Msg, deliver(c, m)
  PROVE  IInv'
<1> DEFINE f == Frame("deliver", m)
<1>1. /\ link[c].net = "open" /\ m \in queued /\ queued' = queued \ {m}
      /\ unacked' = [unacked EXCEPT ![c] = unacked[c] \cup {m}]
      /\ link' = [link EXCEPT ![c].in = Append(link[c].in, f)]
      /\ UNCHANGED <<proc, sent, subscribed, taken, histories>>
  BY DEF deliver, Net, IInv, Types
<1>2. /\ link \in [Client -> Link] /\ link[c] \in Link /\ link[c].in \in Seq(Answer)
      /\ ProcOK(c) /\ LinkOK(c) /\ InOK(c) /\ sent \in Nat
      /\ m \in Nat /\ m # 0 /\ m \in taken /\ \A d \in Client : m \notin unacked[d]
  BY <1>1, BoundsAssumption DEF IInv, Types, Link, LinkOK, BrokerOK, Msg
<1>3. f \in Answer /\ f.op = "deliver" /\ f.m = m
  BY <1>2 DEF Frame, Answer
<1> HIDE DEF f
<1>4. \A i \in DOMAIN link[c].in : link[c].in[i].op = "deliver" => link[c].in[i].m # m
  BY <1>2 DEF InOK
<1>5. Append(link[c].in, f) \in Seq(Answer) /\ Distinct(Append(link[c].in, f), "deliver")
  BY <1>2, <1>3, <1>4, AppendAt, DistinctAppend DEF InOK
<1>6. /\ link' \in [Client -> Link] /\ \A d \in Client \ {c} : link'[d] = link[d]
      /\ link'[c].net = "open" /\ link'[c].out = link[c].out /\ link'[c].in = Append(link[c].in, f)
  BY <1>1, <1>2, <1>5 DEF Link
<1>7. \A i \in DOMAIN link'[c].in : \/ i \in DOMAIN link[c].in /\ link'[c].in[i] = link[c].in[i]
                                    \/ link'[c].in[i] = f
  BY <1>2, <1>3, <1>6, AppendAt
<1>8. /\ unacked' \in [Client -> SUBSET Nat] /\ unacked'[c] = unacked[c] \cup {m}
      /\ \A d \in Client \ {c} : unacked'[d] = unacked[d]
  BY <1>1, <1>2 DEF IInv, Types
<1>9. Types' /\ Others(c)
  BY <1>1, <1>2, <1>6, <1>8 DEF IInv, Types, Others, histories
<1>10. ProcOK(c)'
  BY <1>1, <1>2, <1>6, <1>8 DEF ProcOK, histories
<1>11. m # proc[c].cur
  BY <1>1, <1>2 DEF ProcOK
<1>12. InOK(c)'
  BY <1>1, <1>2, <1>3, <1>5, <1>6, <1>7, <1>8, <1>11 DEF InOK
<1>13. OutOK(c)' /\ Apart(c)'
  BY <1>1, <1>2, <1>3, <1>6, <1>7, <1>8 DEF LinkOK, OutOK, Apart, histories
<1>14. LinkOK(c)'
  BY <1>6, <1>12, <1>13 DEF LinkOK
<1>15. BrokerOK' /\ NothingLost'
  BY <1>1, <1>2, <1>8 DEF IInv, BrokerOK, NothingLost, histories
<1> QED
  BY <1>9, <1>10, <1>14, <1>15, StepKeeps

--------------------------------------------------------------------------------
(* The invariant is inductive                                                 *)

\* Nobody is connected and the broker holds nothing.
LEMMA InitIInv == Init => IInv
<1> SUFFICES ASSUME Init PROVE IInv
  OBVIOUS
<1>1. DOMAIN <<>> = {} /\ \A S : <<>> \in Seq(S)
  OBVIOUS
<1>2. /\ \A c \in Client : proc[c] = Gone /\ link[c] = NoLink /\ unacked[c] = {}
      /\ NoLink.net = "none" /\ NoLink.in = <<>> /\ NoLink.out = <<>>
      /\ NoLink \in Link
  BY <1>1 DEF Init, NoLink, Link
<1>3. Types
  BY <1>1, <1>2, GoneIsProcess DEF Init, Types
<1>4. \A c \in Client : ProcOK(c)
  BY <1>2, GoneIsProcess DEF ProcOK
<1>5. \A c \in Client : LinkOK(c)
  BY <1>1, <1>2, NoFrames DEF Init, LinkOK, InOK, OutOK, Apart
<1>6. BrokerOK /\ NothingLost
  BY <1>2, BoundsAssumption DEF Init, BrokerOK, NothingLost
<1> QED
  BY <1>3, <1>4, <1>5, <1>6 DEF IInv

\* The invariant is inductive.
LEMMA NextIInv == IInv /\ [Next]_vars => IInv'
<1> SUFFICES ASSUME IInv, [Next]_vars PROVE IInv'
  OBVIOUS
<1>1. CASE UNCHANGED vars
  BY <1>1 DEF vars, broker, histories, IInv, Types, ProcOK, LinkOK, InOK, OutOK, Apart, BrokerOK, NothingLost
<1>2. ASSUME NEW c \in Client, MainThread(c) \/ LoopThread(c) PROVE IInv'
  <2>1. join(c) => IInv'
    BY DieKeeps DEF join
  <2>2. lastPublished(c) \/ onReceived(c) => IInv'
    BY MainKeeps DEF lastPublished, onReceived
  <2>3. ev_run(c) \/ watcher_callback(c) => IInv'
    BY LoopKeeps DEF ev_run, watcher_callback
  <2>4. disconnected(c) => IInv'
    BY LoopKeeps, DieKeeps DEF disconnected
  <2> QED
    BY <1>2, <2>1, <2>2, <2>3, <2>4, CallKeeps, SetOnErrorKeeps, publishKeeps, ConnectKeeps,
       ReceiveKeeps, callbackKeeps, ackKeeps DEF MainThread, LoopThread
<1>3. ASSUME NEW c \in Client, Broker(c) PROVE IInv'
  BY <1>3, takeCallKeeps, takePublishKeeps, takeAckKeeps, deliverKeeps, requeueKeeps DEF Broker
<1>4. ASSUME NEW c \in Client, crash(c) PROVE IInv'
  BY <1>4, DieKeeps DEF crash
<1>5. ASSUME NEW c \in Client, Destructor(c) PROVE IInv'
  BY <1>5, MainKeeps DEF Destructor
<1> QED
  BY <1>1, <1>2, <1>3, <1>4, <1>5, ConnectKeeps, refuseKeeps, cutKeeps DEF Next

\* It holds in every state of the system.
LEMMA Invariance == Spec => []IInv
  BY InitIInv, NextIInv, PTL DEF Spec

--------------------------------------------------------------------------------
(* Theorems                                                                   *)

\* Types: every delivery on its way is of a message its consumer owes an answer
\* for, what is queued or was seen came to the broker, and a dead process has
\* nothing left.
THEOREM TypeCorrect == Spec => []TypeOK
<1>1. IInv => TypeOK
  BY DEF IInv, TypeOK, Types, ProcOK, LinkOK, InOK, BrokerOK
<1> QED
  BY <1>1, Invariance, PTL

\* rabbitmq.hpp:97-98: a message is acknowledged when its callback has returned, so
\* that crashes, cut connections and refusals lose none the broker took.
THEOREM NoMessageLost == Spec => []NothingLost
<1>1. IInv => NothingLost
  BY DEF IInv
<1> QED
  BY <1>1, Invariance, PTL

================================================================================
