--------------------------- MODULE MessageProofs ----------------------------
(***************************************************************************)
(* Proofs about the components that carry messages to other programs:      *)
(* RabbitQueue, CloudEvents and Webhook. They do not interact: each is an  *)
(* instance with variables of its own. Every theorem holds for all values  *)
(* of the constants that meet its hypotheses.                              *)
(*                                                                         *)
(* That the RabbitMQ adapter implements AtLeastOnce rests on the order of  *)
(* the messages: one is dropped only when its task is finished or a later  *)
(* message carries the task, and of two copies that wait for each other's  *)
(* acknowledgement the later one has a still later copy.                   *)
(***************************************************************************)
EXTENDS Integers, Sequences, FiniteSets, TLAPS

-----------------------------------------------------------------------------
(* RabbitQueue *)

CONSTANTS RabbitTasks, Malformed, RabbitConsumers, Prefetch, PublisherConfirm, MaxAttempts, MaxInt, MaxFaults, NoOne
VARIABLES msgs, producer, pc, channel, hand, attempt, goal, copy, handled, rabbitFaults
Rabbit == INSTANCE RabbitQueue WITH
    Tasks <- RabbitTasks, Consumers <- RabbitConsumers, open <- channel, faults <- rabbitFaults

\* The adapter waits for the broker's confirms, which is its default, and what does not
\* decode is finite.
RabbitConstants ==
    /\ PublisherConfirm = TRUE /\ Cardinality(Malformed) \in Nat /\ MaxInt \in Int
    /\ RabbitTasks \cap Malformed = {} /\ RabbitTasks \cap RabbitConsumers = {} /\ NoOne \notin RabbitConsumers

\* Where a loop holds a delivery, and where the broker holds a message.
Work == {"handle", "publish", "confirm", "ack"}
Queued == {"ready", "delay", "out"}
\* A message.
Entry == [task : RabbitTasks \cup Malformed, base : Int, target : {"ready", "delay", "dead"},
          place : {"sent", "refused", "dead", "gone"} \cup Queued, to : RabbitConsumers \cup {NoOne}]

\* Every variable has the values its place allows.
RabbitTypeOK ==
    /\ msgs \in Seq(Entry)
    /\ pc \in [RabbitConsumers -> {"closed", "idle"} \cup Work]
    /\ hand \in [RabbitConsumers -> Nat] /\ attempt \in [RabbitConsumers -> Int]
    /\ copy \in [RabbitConsumers \cup RabbitTasks -> Nat]

\* The tasks the queue has accepted.
KnownTasks == Rabbit!Live \cup Rabbit!Finished

\* The task of message i is finished, or a later message carries it.
Covered(i) ==
    \/ msgs[i].task \in Rabbit!Finished
    \/ \E j \in 1..Len(msgs) : j > i /\ msgs[j].place \in Queued /\ msgs[j].task = msgs[i].task

\* A message is dropped only when its task is covered, and goes where it was published to.
MessagesOK == \A i \in 1..Len(msgs) :
    /\ msgs[i].place \in Queued => msgs[i].target # "dead"
    /\ msgs[i].place = "dead" => msgs[i].target = "dead"
    /\ msgs[i].place = "sent" => msgs[i].task \in RabbitTasks
    /\ msgs[i].place = "sent" /\ msgs[i].target = "dead" => msgs[i].task \in KnownTasks
    /\ msgs[i].place = "gone" /\ msgs[i].task \in RabbitTasks => Covered(i)

\* A loop acknowledges only what is covered; what it publishes comes after what it holds.
LoopOK(c) == pc[c] \in Work =>
    /\ hand[c] \in 1..Len(msgs) /\ msgs[hand[c]].task \in RabbitTasks /\ msgs[hand[c]].target # "dead"
    /\ msgs[hand[c]].task \in KnownTasks
    /\ pc[c] = "confirm" => copy[c] \in 1..Len(msgs) /\ copy[c] > hand[c] /\ msgs[copy[c]].task = msgs[hand[c]].task
    /\ pc[c] = "ack" => Covered(hand[c])

\* The inductive invariant.
RabbitInv == RabbitTypeOK /\ MessagesOK /\ \A c \in RabbitConsumers : LoopOK(c)

\* What is live and what is finished, by messages.
LEMMA RabbitSets ==
    /\ \A x : x \in Rabbit!Live <=> x \notin Malformed /\ \E i \in 1..Len(msgs) : msgs[i].place \in Queued /\ msgs[i].task = x
    /\ \A x : x \in Rabbit!Finished <=> x \in handled \/ \E i \in 1..Len(msgs) : msgs[i].place = "dead" /\ msgs[i].task = x
    /\ \A x : x \in Rabbit!Live' <=> x \notin Malformed /\ \E i \in 1..Len(msgs') : msgs'[i].place \in Queued /\ msgs'[i].task = x
    /\ \A x : x \in Rabbit!Finished' <=> x \in handled' \/ \E i \in 1..Len(msgs') : msgs'[i].place = "dead" /\ msgs'[i].task = x
BY Zenon DEF Rabbit!Live, Rabbit!Finished, Rabbit!Dead, Rabbit!InBroker, Rabbit!Message, Queued

\* The fields of a message.
LEMMA EntryFields ==
    ASSUME NEW q \in Seq(Entry), NEW i \in 1..Len(q)
    PROVE  /\ q[i] \in Entry /\ q[i].task \in RabbitTasks \cup Malformed /\ q[i].base \in Int
           /\ q[i].target \in {"ready", "delay", "dead"} /\ q[i].place \in {"sent", "refused", "dead", "gone"} \cup Queued
           /\ q[i].to \in RabbitConsumers \cup {NoOne}
<1>1. q[i] \in Entry
  OBVIOUS
<1> QED BY Zenon, <1>1 DEF Entry

\* Requeued changes the place of what was out to ready.
LEMMA Requeues ==
    ASSUME NEW c \in RabbitConsumers, NEW ms \in Seq(Entry)
    PROVE  /\ Rabbit!Requeued(c, ms) \in Seq(Entry) /\ Len(Rabbit!Requeued(c, ms)) = Len(ms)
           /\ \A i \in 1..Len(ms) : /\ Rabbit!Requeued(c, ms)[i].task = ms[i].task
                                    /\ Rabbit!Requeued(c, ms)[i].target = ms[i].target
                                    /\ \/ Rabbit!Requeued(c, ms)[i].place = ms[i].place
                                       \/ ms[i].place = "out" /\ Rabbit!Requeued(c, ms)[i].place = "ready"
<1> DEFINE ready(m) == [m EXCEPT !.place = "ready", !.to = NoOne]
           f == [i \in 1..Len(ms) |-> IF ms[i].place = "out" /\ ms[i].to = c THEN ready(ms[i]) ELSE ms[i]]
<1>1. Rabbit!Requeued(c, ms) = f
  BY DEF Rabbit!Requeued
<1>2. \A m \in Entry : ready(m) \in Entry /\ ready(m).task = m.task /\ ready(m).target = m.target /\ ready(m).place = "ready"
  BY Zenon DEF Entry, Queued
<1> HIDE DEF ready
<1>3. \A i \in 1..Len(ms) : ms[i] \in Entry /\ f[i] = IF ms[i].place = "out" /\ ms[i].to = c THEN ready(ms[i]) ELSE ms[i]
  OBVIOUS
<1>4. \A i \in 1..Len(ms) : f[i] \in Entry
  BY Zenon, <1>2, <1>3
<1>5. f \in Seq(Entry) /\ Len(f) = Len(ms)
  BY <1>4
<1> HIDE DEF f
<1>6. \A i \in 1..Len(ms) : /\ f[i].task = ms[i].task /\ f[i].target = ms[i].target
                            /\ f[i].place = ms[i].place \/ (ms[i].place = "out" /\ f[i].place = "ready")
  BY Zenon, <1>2, <1>3
<1> QED BY <1>1, <1>5, <1>6, Zenon

\* A step in which no task comes in, is finished or leaves.
Quiet ==
    /\ handled' = handled /\ 1..Len(msgs) \subseteq 1..Len(msgs')
    /\ \A i \in 1..Len(msgs) :
          /\ msgs'[i].task = msgs[i].task /\ msgs'[i].target = msgs[i].target
          /\ \/ msgs'[i].place = msgs[i].place
             \/ msgs[i].place \in Queued /\ msgs'[i].place \in Queued
             \/ msgs[i].place = "sent" /\ msgs'[i].place = "refused"
             \/ msgs'[i].place = "gone" /\ msgs[i].place \in Queued /\ msgs[i].task \in Malformed
    /\ \A i \in 1..Len(msgs') : i \notin 1..Len(msgs) =>
          msgs'[i].place = "sent" /\ msgs'[i].task \in RabbitTasks /\ (msgs'[i].target = "dead" => msgs'[i].task \in KnownTasks)

\* What a step keeps for the loops that take no part in it.
Kept ==
    /\ 1..Len(msgs) \subseteq 1..Len(msgs')
    /\ \A i \in 1..Len(msgs) : msgs'[i].task = msgs[i].task /\ msgs'[i].target = msgs[i].target
    /\ KnownTasks \subseteq KnownTasks'
    /\ \A i \in 1..Len(msgs) : msgs[i].task \in RabbitTasks /\ Covered(i) => Covered(i)'

\* A loop that takes no part in a step.
LEMMA LoopKept ==
    ASSUME RabbitInv, Kept, NEW c \in RabbitConsumers,
           pc'[c] \in Work => pc'[c] = pc[c] /\ hand'[c] = hand[c] /\ copy'[c] = copy[c]
    PROVE  LoopOK(c)'
<1> SUFFICES ASSUME pc'[c] \in Work PROVE LoopOK(c)'
  BY Zenon DEF LoopOK
<1>1. pc'[c] = pc[c] /\ hand'[c] = hand[c] /\ copy'[c] = copy[c] /\ LoopOK(c) /\ pc[c] \in Work
  BY Zenon DEF RabbitInv
<1> DEFINE h == hand[c]
<1>2. /\ h \in 1..Len(msgs') /\ msgs'[h].task \in RabbitTasks /\ msgs'[h].target # "dead" /\ msgs'[h].task \in KnownTasks'
  BY Zenon, <1>1 DEF LoopOK, Kept
<1>3. pc[c] = "confirm" => copy[c] \in 1..Len(msgs') /\ copy[c] > h /\ msgs'[copy[c]].task = msgs'[h].task
  BY Zenon, <1>1 DEF LoopOK, Kept
<1>4. pc[c] = "ack" => \E i \in 1..Len(msgs) : i = h /\ Covered(i)'
  BY Zenon, <1>1 DEF LoopOK, Kept
<1>5. pc[c] = "ack" => Covered(hand[c])'
  BY Zenon, <1>1, <1>4 DEF Covered
<1> QED BY Zenon, <1>1, <1>2, <1>3, <1>5 DEF LoopOK

\* A quiet step keeps what is live and what is finished.
LEMMA QuietStep ==
    ASSUME RabbitConstants, RabbitInv, Quiet
    PROVE  Kept /\ MessagesOK' /\ UNCHANGED <<Rabbit!Live, Rabbit!Finished>>
<1>1. Rabbit!Live' = Rabbit!Live
  <2>1. ASSUME NEW x, x \in Rabbit!Live' PROVE x \in Rabbit!Live
    <3>1. PICK i \in 1..Len(msgs') : x \notin Malformed /\ msgs'[i].place \in Queued /\ msgs'[i].task = x
      BY Zenon, <2>1, RabbitSets
    <3>2. i \in 1..Len(msgs) /\ msgs[i].place \in Queued /\ msgs[i].task = x
      BY Zenon, <3>1 DEF Quiet, Queued
    <3> QED BY Zenon, <3>1, <3>2, RabbitSets
  <2>2. ASSUME NEW x, x \in Rabbit!Live PROVE x \in Rabbit!Live'
    <3>1. PICK i \in 1..Len(msgs) : x \notin Malformed /\ msgs[i].place \in Queued /\ msgs[i].task = x
      BY Zenon, <2>2, RabbitSets
    <3>2. i \in 1..Len(msgs') /\ msgs'[i].place \in Queued /\ msgs'[i].task = x
      BY Zenon, <3>1 DEF Quiet, Queued
    <3> QED BY Zenon, <3>1, <3>2, RabbitSets
  <2> QED BY Zenon, <2>1, <2>2
<1>2. Rabbit!Finished' = Rabbit!Finished
  <2>1. ASSUME NEW x, NEW i \in 1..Len(msgs'), msgs'[i].place = "dead" PROVE i \in 1..Len(msgs) /\ msgs[i].place = "dead" /\ msgs[i].task = msgs'[i].task
    BY Zenon, <2>1 DEF Quiet, Queued
  <2>2. ASSUME NEW x, NEW i \in 1..Len(msgs), msgs[i].place = "dead" PROVE i \in 1..Len(msgs') /\ msgs'[i].place = "dead" /\ msgs[i].task = msgs'[i].task
    BY Zenon, <2>2 DEF Quiet, Queued
  <2>3. handled' = handled
    BY Zenon DEF Quiet
  <2>4. ASSUME NEW x PROVE x \in Rabbit!Finished' <=> x \in Rabbit!Finished
    BY <2>1, <2>2, <2>3, RabbitSets
  <2> QED BY Zenon, <2>4
<1>3. KnownTasks' = KnownTasks
  BY Zenon, <1>1, <1>2 DEF KnownTasks
<1>4. ASSUME NEW i \in 1..Len(msgs), msgs[i].task \in RabbitTasks, Covered(i) PROVE Covered(i)'
  <2>1. msgs'[i].task = msgs[i].task
    BY Zenon DEF Quiet
  <2>2. CASE msgs[i].task \in Rabbit!Finished
    BY Zenon, <1>2, <2>1, <2>2 DEF Covered
  <2>3. CASE \E j \in 1..Len(msgs) : j > i /\ msgs[j].place \in Queued /\ msgs[j].task = msgs[i].task
    <3>1. PICK j \in 1..Len(msgs) : j > i /\ msgs[j].place \in Queued /\ msgs[j].task = msgs[i].task
      BY Zenon, <2>3
    <3>2. j \in 1..Len(msgs') /\ msgs'[j].place \in Queued /\ msgs'[j].task = msgs'[i].task
      BY Zenon, <1>4, <2>1, <3>1 DEF Quiet, Queued, RabbitConstants
    <3> QED BY Zenon, <3>1, <3>2 DEF Covered
  <2> QED BY Zenon, <1>4, <2>2, <2>3 DEF Covered
<1>5. Kept
  BY Zenon, <1>3, <1>4 DEF Kept, Quiet
<1>6. MessagesOK'
  <2> SUFFICES ASSUME NEW i \in 1..Len(msgs')
               PROVE  /\ msgs'[i].place \in Queued => msgs'[i].target # "dead"
                      /\ msgs'[i].place = "dead" => msgs'[i].target = "dead"
                      /\ msgs'[i].place = "sent" => msgs'[i].task \in RabbitTasks
                      /\ msgs'[i].place = "sent" /\ msgs'[i].target = "dead" => msgs'[i].task \in KnownTasks'
                      /\ msgs'[i].place = "gone" /\ msgs'[i].task \in RabbitTasks => Covered(i)'
    BY Zenon DEF MessagesOK
  <2>1. CASE i \notin 1..Len(msgs)
    BY Zenon, <1>3, <2>1 DEF Quiet, Queued
  <2>2. CASE i \in 1..Len(msgs)
    <3>1. /\ msgs'[i].place \in Queued => msgs'[i].target # "dead"
          /\ msgs'[i].place = "dead" => msgs'[i].target = "dead"
          /\ msgs'[i].place = "sent" => msgs'[i].task \in RabbitTasks
          /\ msgs'[i].place = "sent" /\ msgs'[i].target = "dead" => msgs'[i].task \in KnownTasks'
      BY <1>3, <2>2 DEF Quiet, Queued, RabbitInv, MessagesOK
    <3>2. ASSUME msgs'[i].place = "gone" /\ msgs'[i].task \in RabbitTasks PROVE Covered(i)'
      <4>1. msgs[i].place = "gone" /\ msgs[i].task \in RabbitTasks
        BY Zenon, <2>2, <3>2 DEF Quiet, Queued, RabbitConstants
      <4> QED BY Zenon, <1>4, <2>2, <4>1 DEF RabbitInv, MessagesOK
    <3> QED BY Zenon, <3>1, <3>2
  <2> QED BY Zenon, <2>1, <2>2
<1> QED BY Zenon, <1>1, <1>2, <1>5, <1>6

\* A quiet step whose other loops stand still.
LEMMA QuietEnds ==
    ASSUME RabbitConstants, RabbitInv, Quiet, RabbitTypeOK',
           \A c \in RabbitConsumers : \/ LoopOK(c)'
                                      \/ pc'[c] \in Work => pc'[c] = pc[c] /\ hand'[c] = hand[c] /\ copy'[c] = copy[c]
    PROVE  RabbitInv' /\ [Rabbit!ALO!Next]_(Rabbit!ALO!vars)
<1>1. Kept /\ MessagesOK' /\ UNCHANGED <<Rabbit!Live, Rabbit!Finished>>
  BY Zenon, QuietStep
<1>2. ASSUME NEW c \in RabbitConsumers PROVE LoopOK(c)'
  BY Zenon, <1>1, LoopKept
<1> QED BY Zenon, <1>1, <1>2 DEF RabbitInv, Rabbit!ALO!vars

\* A step that leaves the messages alone.
LEMMA SameMessages == ASSUME UNCHANGED <<msgs, handled>> PROVE Quiet
BY Zenon DEF Quiet

\* A message is published.
LEMMA Appends ==
    ASSUME RabbitInv, NEW m \in Entry, m.place = "sent", m.task \in RabbitTasks, m.target = "dead" => m.task \in KnownTasks,
           msgs' = Append(msgs, m), handled' = handled
    PROVE  /\ Quiet /\ msgs' \in Seq(Entry) /\ Len(msgs) \in Nat /\ Len(msgs') = Len(msgs) + 1 /\ msgs'[Len(msgs) + 1] = m
           /\ \A i \in 1..Len(msgs) : msgs'[i] = msgs[i]
<1>1. msgs \in Seq(Entry)
  BY Zenon DEF RabbitInv, RabbitTypeOK
<1>2. /\ msgs' \in Seq(Entry) /\ Len(msgs) \in Nat /\ Len(msgs') = Len(msgs) + 1 /\ msgs'[Len(msgs) + 1] = m
      /\ \A i \in 1..Len(msgs) : msgs'[i] = msgs[i]
  BY <1>1
<1>3. \A i \in 1..Len(msgs') : i \in 1..Len(msgs) \/ i = Len(msgs) + 1
  BY <1>2
<1>4. 1..Len(msgs) \subseteq 1..Len(msgs')
  BY <1>2
<1> QED BY Zenon, <1>2, <1>3, <1>4 DEF Quiet

\* Enqueue and the return of its call.
LEMMA RabbitProduces ==
    ASSUME RabbitConstants, RabbitInv, NEW t \in RabbitTasks,
           Rabbit!Enqueued(t) \/ \E target \in {"ready", "delay"} : Rabbit!Enqueue(t, target)
    PROVE  RabbitInv' /\ [Rabbit!ALO!Next]_(Rabbit!ALO!vars)
<1>1. CASE Rabbit!Enqueued(t)
  <2>1. UNCHANGED <<msgs, pc, hand, attempt, copy, handled>>
    BY Zenon, <1>1 DEF Rabbit!Enqueued, Rabbit!loopVars
  <2>2. RabbitTypeOK'
    BY Zenon, <2>1 DEF RabbitInv, RabbitTypeOK
  <2> QED BY Zenon, <2>1, <2>2, SameMessages, QuietEnds
<1>2. CASE \E target \in {"ready", "delay"} : Rabbit!Enqueue(t, target)
  <2>1. PICK target \in {"ready", "delay"} : Rabbit!Enqueue(t, target)
    BY Zenon, <1>2
  <2>2. PICK m : m = [task |-> t, base |-> 0, target |-> target, place |-> "sent", to |-> NoOne]
    BY Zenon
  <2>3. msgs' = Append(msgs, m) /\ copy' = [copy EXCEPT ![t] = Len(msgs) + 1] /\ UNCHANGED <<pc, hand, attempt, handled>>
    BY Zenon, <2>1, <2>2 DEF Rabbit!Enqueue, Rabbit!Publish, Rabbit!loopVars
  <2>4. m \in Entry /\ m.place = "sent" /\ m.task \in RabbitTasks /\ m.target # "dead"
    BY <2>2 DEF Entry
  <2>5. Quiet /\ msgs' \in Seq(Entry) /\ Len(msgs) \in Nat
    BY Zenon, <2>3, <2>4, Appends
  <2>6. copy' \in [RabbitConsumers \cup RabbitTasks -> Nat] /\ \A c \in RabbitConsumers : copy'[c] = copy[c]
    BY <2>3, <2>5 DEF RabbitInv, RabbitTypeOK, RabbitConstants
  <2>7. RabbitTypeOK'
    BY Zenon, <2>3, <2>5, <2>6 DEF RabbitInv, RabbitTypeOK
  <2> QED BY Zenon, <2>3, <2>5, <2>6, <2>7, QuietEnds
<1> QED BY Zenon, <1>1, <1>2

\* A refusal, an expiry and a delivery.
LEMMA RabbitMoves ==
    ASSUME RabbitConstants, RabbitInv, NEW i \in 1..Len(msgs),
           Rabbit!BrokerRefuse(i) \/ Rabbit!Expire(i) \/ \E c \in RabbitConsumers : Rabbit!Deliver(c, i)
    PROVE  RabbitInv' /\ [Rabbit!ALO!Next]_(Rabbit!ALO!vars)
<1>1. UNCHANGED <<pc, hand, attempt, copy, handled>>
  BY Zenon DEF Rabbit!BrokerRefuse, Rabbit!Expire, Rabbit!Deliver, Rabbit!loopVars
<1>2. msgs \in Seq(Entry) /\ msgs[i] \in Entry
  BY DEF RabbitInv, RabbitTypeOK
<1>3. PICK m : /\ m \in Entry /\ m.task = msgs[i].task /\ m.target = msgs[i].target /\ msgs' = [msgs EXCEPT ![i] = m]
               /\ \/ msgs[i].place = "sent" /\ m.place = "refused"
                  \/ msgs[i].place \in Queued /\ m.place \in Queued
  <2>1. CASE Rabbit!BrokerRefuse(i)
    <3> DEFINE m == [msgs[i] EXCEPT !.place = "refused"]
    <3>1. m \in Entry /\ m.task = msgs[i].task /\ m.target = msgs[i].target /\ m.place = "refused"
      BY Zenon, <1>2 DEF Entry
    <3>2. msgs' = [msgs EXCEPT ![i] = m] /\ msgs[i].place = "sent"
      BY Zenon, <2>1 DEF Rabbit!BrokerRefuse
    <3> QED BY Zenon, <3>1, <3>2
  <2>2. CASE Rabbit!Expire(i)
    <3> DEFINE m == [msgs[i] EXCEPT !.place = "ready"]
    <3>1. m \in Entry /\ m.task = msgs[i].task /\ m.target = msgs[i].target /\ m.place = "ready"
      BY Zenon, <1>2 DEF Entry, Queued
    <3>2. msgs' = [msgs EXCEPT ![i] = m] /\ msgs[i].place = "delay"
      BY Zenon, <2>2 DEF Rabbit!Expire
    <3> QED BY Zenon, <3>1, <3>2 DEF Queued
  <2>3. ASSUME NEW c \in RabbitConsumers, Rabbit!Deliver(c, i)
        PROVE  \E m \in Entry : /\ m.task = msgs[i].task /\ m.target = msgs[i].target /\ msgs' = [msgs EXCEPT ![i] = m]
                                /\ msgs[i].place \in Queued /\ m.place \in Queued
    <3> DEFINE m == [msgs[i] EXCEPT !.place = "out", !.to = c]
    <3>1. m \in Entry /\ m.task = msgs[i].task /\ m.target = msgs[i].target /\ m.place = "out"
      BY Zenon, <1>2 DEF Entry, Queued
    <3>2. msgs' = [msgs EXCEPT ![i].place = "out", ![i].to = c] /\ msgs[i].place = "ready"
      BY Zenon, <2>3 DEF Rabbit!Deliver
    <3>3. msgs' = [msgs EXCEPT ![i] = m]
      BY Zenon, <1>2, <3>2
    <3> QED BY Zenon, <3>1, <3>2, <3>3 DEF Queued
  <2> QED BY Zenon, <2>1, <2>2, <2>3
<1>4. msgs' \in Seq(Entry) /\ Len(msgs') = Len(msgs) /\ msgs'[i] = m /\ \A j \in 1..Len(msgs) : j # i => msgs'[j] = msgs[j]
  BY <1>2, <1>3
<1>5. Quiet
  BY Zenon, <1>1, <1>3, <1>4 DEF Quiet
<1>6. RabbitTypeOK'
  BY Zenon, <1>1, <1>4 DEF RabbitInv, RabbitTypeOK
<1> QED BY Zenon, <1>1, <1>5, <1>6, QuietEnds

\* The consumer c is closed: after an error, a malformed message or a crash.
LEMMA RabbitShuts ==
    ASSUME RabbitConstants, RabbitInv, NEW c \in RabbitConsumers, NEW ms \in Seq(Entry), Len(ms) = Len(msgs), handled' = handled,
           Rabbit!Shut(c, ms),
           \A i \in 1..Len(msgs) : /\ ms[i].task = msgs[i].task /\ ms[i].target = msgs[i].target
                                   /\ \/ ms[i].place = msgs[i].place
                                      \/ ms[i].place = "gone" /\ msgs[i].place \in Queued /\ msgs[i].task \in Malformed
    PROVE  RabbitInv' /\ [Rabbit!ALO!Next]_(Rabbit!ALO!vars)
<1>1. /\ pc' = [pc EXCEPT ![c] = "closed"] /\ msgs' = Rabbit!Requeued(c, ms)
      /\ hand' = [hand EXCEPT ![c] = 0] /\ attempt' = [attempt EXCEPT ![c] = 0] /\ copy' = [copy EXCEPT ![c] = 0]
  BY Zenon DEF Rabbit!Shut, Rabbit!Drop, Rabbit!Goto
<1>2. /\ msgs' \in Seq(Entry) /\ Len(msgs') = Len(msgs)
      /\ \A i \in 1..Len(msgs) : /\ msgs'[i].task = msgs[i].task /\ msgs'[i].target = msgs[i].target
                                 /\ msgs'[i].place = ms[i].place \/ (ms[i].place = "out" /\ msgs'[i].place = "ready")
  BY <1>1, Requeues
<1>3. Quiet
  BY <1>2 DEF Quiet, Queued
<1>4. RabbitTypeOK'
  BY <1>1, <1>2 DEF RabbitInv, RabbitTypeOK
<1>5. \A d \in RabbitConsumers : pc'[d] \in Work => pc'[d] = pc[d] /\ hand'[d] = hand[d] /\ copy'[d] = copy[d]
  BY Zenon, <1>1 DEF RabbitInv, RabbitTypeOK, Work
<1> QED BY Zenon, <1>3, <1>4, <1>5, QuietEnds

\* The ways a consumer is closed, and the loss of its channel.
LEMMA RabbitCloses ==
    ASSUME RabbitConstants, RabbitInv, NEW c \in RabbitConsumers,
           \/ Rabbit!ReceiveClosed(c) \/ Rabbit!SettleFailed(c) \/ Rabbit!AckClosed(c) \/ Rabbit!Crash(c)
           \/ Rabbit!ChannelLost(c) \/ \E i \in 1..Len(msgs) : Rabbit!ReceiveMalformed(c, i)
    PROVE  RabbitInv' /\ [Rabbit!ALO!Next]_(Rabbit!ALO!vars)
<1>1. msgs \in Seq(Entry)
  BY Zenon DEF RabbitInv, RabbitTypeOK
<1>2. CASE Rabbit!ReceiveClosed(c) \/ Rabbit!SettleFailed(c) \/ Rabbit!AckClosed(c) \/ Rabbit!Crash(c)
  <2>1. Rabbit!Shut(c, msgs) /\ handled' = handled
    BY Zenon, <1>2 DEF Rabbit!ReceiveClosed, Rabbit!SettleFailed, Rabbit!AckClosed, Rabbit!Crash
  <2> QED BY Zenon, <1>1, <2>1, RabbitShuts
<1>3. CASE Rabbit!ChannelLost(c)
  <2>1. msgs' = Rabbit!Requeued(c, msgs) /\ UNCHANGED <<pc, hand, attempt, copy, handled>>
    BY Zenon, <1>3 DEF Rabbit!ChannelLost
  <2>2. /\ msgs' \in Seq(Entry) /\ Len(msgs') = Len(msgs)
        /\ \A i \in 1..Len(msgs) : /\ msgs'[i].task = msgs[i].task /\ msgs'[i].target = msgs[i].target
                                   /\ msgs'[i].place = msgs[i].place \/ (msgs[i].place = "out" /\ msgs'[i].place = "ready")
    BY <1>1, <2>1, Requeues
  <2>3. Quiet
    BY Zenon, <2>1, <2>2 DEF Quiet, Queued
  <2>4. RabbitTypeOK'
    BY Zenon, <2>1, <2>2 DEF RabbitInv, RabbitTypeOK
  <2> QED BY Zenon, <2>1, <2>3, <2>4, QuietEnds
<1>4. ASSUME NEW i \in 1..Len(msgs), Rabbit!ReceiveMalformed(c, i) PROVE RabbitInv' /\ [Rabbit!ALO!Next]_(Rabbit!ALO!vars)
  <2>1. PICK ms : ms = [msgs EXCEPT ![i].place = "gone"]
    BY Zenon
  <2>2. Rabbit!Shut(c, ms) /\ handled' = handled /\ msgs[i].task \in Malformed /\ msgs[i].place = "out"
    BY Zenon, <1>4, <2>1 DEF Rabbit!ReceiveMalformed, Rabbit!Unacked
  <2>3. /\ ms \in Seq(Entry) /\ Len(ms) = Len(msgs) /\ \A j \in 1..Len(msgs) : j # i => ms[j] = msgs[j]
        /\ ms[i].task = msgs[i].task /\ ms[i].target = msgs[i].target /\ ms[i].place = "gone"
    <3>1. PICK m : m = [msgs[i] EXCEPT !.place = "gone"]
      BY Zenon
    <3>2. m \in Entry /\ m.place = "gone" /\ m.task = msgs[i].task /\ m.target = msgs[i].target
      BY Zenon, <1>1, <3>1, EntryFields DEF Entry
    <3>3. ms = [msgs EXCEPT ![i] = m]
      BY Zenon, <2>1, <3>1
    <3> QED BY <1>1, <3>2, <3>3
  <2> QED BY Zenon, <2>2, <2>3, RabbitShuts DEF Queued
<1> QED BY Zenon, <1>2, <1>3, <1>4

\* NewConsumer, Receive, an outcome that is not an acknowledgement, and the confirm.
LEMMA RabbitLoops ==
    ASSUME RabbitConstants, RabbitInv, NEW c \in RabbitConsumers,
           Rabbit!NewConsumer(c) \/ Rabbit!SettleConfirmed(c) \/ \E i \in 1..Len(msgs) : Rabbit!Receive(c, i)
    PROVE  RabbitInv' /\ [Rabbit!ALO!Next]_(Rabbit!ALO!vars)
<1>1. UNCHANGED <<msgs, handled, copy>> /\ Quiet
  BY Zenon, SameMessages DEF Rabbit!NewConsumer, Rabbit!SettleConfirmed, Rabbit!Receive
<1>2. Kept /\ KnownTasks' = KnownTasks
  BY Zenon, <1>1, QuietStep DEF KnownTasks
<1>3. CASE Rabbit!NewConsumer(c)
  <2>1. pc' = [pc EXCEPT ![c] = "idle"] /\ UNCHANGED <<hand, attempt>>
    BY Zenon, <1>3 DEF Rabbit!NewConsumer, Rabbit!Goto
  <2>2. RabbitTypeOK'
    BY Zenon, <1>1, <2>1 DEF RabbitInv, RabbitTypeOK
  <2>3. \A d \in RabbitConsumers : pc'[d] \in Work => pc'[d] = pc[d] /\ hand'[d] = hand[d] /\ copy'[d] = copy[d]
    BY Zenon, <1>1, <2>1 DEF RabbitInv, RabbitTypeOK, Work
  <2> QED BY Zenon, <1>1, <2>2, <2>3, QuietEnds
<1>4. CASE Rabbit!SettleConfirmed(c)
  <2>1. pc[c] = "confirm" /\ Rabbit!Confirmed(c) /\ pc' = [pc EXCEPT ![c] = "ack"] /\ UNCHANGED <<hand, attempt>>
    BY Zenon, <1>4 DEF Rabbit!SettleConfirmed, Rabbit!Goto
  <2>2. RabbitTypeOK'
    BY Zenon, <1>1, <2>1 DEF RabbitInv, RabbitTypeOK, Work
  <2>3. \A d \in RabbitConsumers : d # c => pc'[d] = pc[d] /\ hand'[d] = hand[d] /\ copy'[d] = copy[d]
    BY Zenon, <1>1, <2>1 DEF RabbitInv, RabbitTypeOK
  <2> DEFINE h == hand[c]
             k == copy[c]
  <2>4. /\ h \in 1..Len(msgs) /\ msgs[h].task \in RabbitTasks /\ msgs[h].target # "dead" /\ msgs[h].task \in KnownTasks
        /\ k \in 1..Len(msgs) /\ k > h /\ msgs[k].task = msgs[h].task
    BY Zenon, <2>1 DEF RabbitInv, LoopOK, Work
  <2>5. msgs[k].place \notin {"sent", "refused"}
    BY Zenon, <2>1 DEF Rabbit!Confirmed, RabbitConstants
  <2>6. Covered(h)
    <3>1. CASE msgs[k].place \in Queued
      BY Zenon, <2>4, <3>1 DEF Covered
    <3>2. CASE msgs[k].place = "dead"
      BY <2>4, <3>2, RabbitSets DEF Covered
    <3>3. CASE msgs[k].place = "gone"
      <4>1. Covered(k)
        BY Zenon, <2>4, <3>3 DEF RabbitInv, MessagesOK
      <4>2. CASE msgs[k].task \in Rabbit!Finished
        BY Zenon, <2>4, <4>2 DEF Covered
      <4>3. CASE \E j \in 1..Len(msgs) : j > k /\ msgs[j].place \in Queued /\ msgs[j].task = msgs[k].task
        <5>1. PICK j \in 1..Len(msgs) : j > k /\ msgs[j].place \in Queued /\ msgs[j].task = msgs[k].task
          BY Zenon, <4>3
        <5>2. j > h
          BY <2>4, <5>1 DEF RabbitInv, RabbitTypeOK
        <5> QED BY Zenon, <2>4, <5>1, <5>2 DEF Covered
      <4> QED BY Zenon, <4>1, <4>2, <4>3 DEF Covered
    <3> QED BY Zenon, <2>4, <2>5, <3>1, <3>2, <3>3, EntryFields DEF RabbitInv, RabbitTypeOK
  <2>7. LoopOK(c)'
    <3>1. pc'[c] = "ack" /\ hand'[c] = h /\ msgs' = msgs
      BY Zenon, <1>1, <2>1 DEF RabbitInv, RabbitTypeOK
    <3>2. \E i \in 1..Len(msgs) : i = h /\ Covered(i)'
      BY Zenon, <1>2, <2>4, <2>6 DEF Kept
    <3>3. Covered(hand[c])'
      BY Zenon, <3>1, <3>2 DEF Covered
    <3> QED BY Zenon, <1>2, <2>4, <3>1, <3>3 DEF LoopOK
  <2> QED BY Zenon, <1>1, <2>2, <2>3, <2>7, QuietEnds
<1>5. ASSUME NEW i \in 1..Len(msgs), Rabbit!Receive(c, i) PROVE RabbitInv' /\ [Rabbit!ALO!Next]_(Rabbit!ALO!vars)
  <2>1. /\ msgs[i].place = "out" /\ msgs[i].task \notin Malformed /\ pc' = [pc EXCEPT ![c] = "handle"]
        /\ hand' = [hand EXCEPT ![c] = i] /\ attempt' = [attempt EXCEPT ![c] = Rabbit!NextAttempt(msgs[i].base)]
    BY Zenon, <1>5 DEF Rabbit!Receive, Rabbit!Goto, Rabbit!Unacked
  <2>2. msgs[i].task \in RabbitTasks /\ msgs[i].base \in Int
    BY Zenon, <2>1, EntryFields DEF RabbitInv, RabbitTypeOK
  <2>3. Rabbit!NextAttempt(msgs[i].base) \in Int
    BY <2>2 DEF Rabbit!NextAttempt, RabbitConstants
  <2>4. RabbitTypeOK'
    <3>1. i \in Nat
      BY DEF RabbitInv, RabbitTypeOK
    <3> QED BY Zenon, <1>1, <2>1, <2>3, <3>1 DEF RabbitInv, RabbitTypeOK, Work
  <2>5. \A d \in RabbitConsumers : d # c => pc'[d] = pc[d] /\ hand'[d] = hand[d] /\ copy'[d] = copy[d]
    BY Zenon, <1>1, <2>1 DEF RabbitInv, RabbitTypeOK
  <2>6. msgs[i].target # "dead" /\ msgs[i].task \in KnownTasks
    BY Zenon, <2>1, RabbitSets DEF RabbitInv, MessagesOK, Queued, KnownTasks
  <2>7. LoopOK(c)'
    <3>1. pc'[c] = "handle" /\ hand'[c] = i /\ msgs' = msgs
      BY Zenon, <1>1, <2>1 DEF RabbitInv, RabbitTypeOK
    <3> QED BY Zenon, <1>2, <2>2, <2>6, <3>1 DEF LoopOK
  <2> QED BY Zenon, <1>1, <2>4, <2>5, <2>7, QuietEnds
<1> QED BY Zenon, <1>3, <1>4, <1>5

\* Retry and DeadLetter publish.
LEMMA RabbitSettles ==
    ASSUME RabbitConstants, RabbitInv, NEW c \in RabbitConsumers, NEW isDelayed \in BOOLEAN, Rabbit!SettlePublish(c, isDelayed)
    PROVE  RabbitInv' /\ [Rabbit!ALO!Next]_(Rabbit!ALO!vars)
<1> DEFINE h == hand[c]
<1>1. PICK m : m = [task |-> msgs[h].task, base |-> attempt[c], place |-> "sent", to |-> NoOne,
                    target |-> IF goal[c] = "dead" THEN "dead" ELSE IF isDelayed THEN "delay" ELSE "ready"]
  BY Zenon
<1>2. /\ pc[c] = "publish" /\ msgs' = Append(msgs, m) /\ copy' = [copy EXCEPT ![c] = Len(msgs) + 1]
      /\ pc' = [pc EXCEPT ![c] = "confirm"] /\ UNCHANGED <<hand, attempt, handled>>
  BY Zenon, <1>1 DEF Rabbit!SettlePublish, Rabbit!Publish, Rabbit!Goto
<1>3. h \in 1..Len(msgs) /\ msgs[h].task \in RabbitTasks /\ msgs[h].target # "dead" /\ msgs[h].task \in KnownTasks
  BY Zenon, <1>2 DEF RabbitInv, LoopOK, Work
<1>4. m \in Entry /\ m.place = "sent" /\ m.task = msgs[h].task
  BY Zenon, <1>1, <1>3 DEF Entry, RabbitInv, RabbitTypeOK
<1>5. /\ Quiet /\ msgs' \in Seq(Entry) /\ Len(msgs) \in Nat /\ Len(msgs') = Len(msgs) + 1 /\ msgs'[Len(msgs) + 1] = m
      /\ \A i \in 1..Len(msgs) : msgs'[i] = msgs[i]
  BY Zenon, <1>2, <1>3, <1>4, Appends
<1>6. Kept /\ KnownTasks' = KnownTasks
  BY Zenon, <1>5, QuietStep DEF KnownTasks
<1>7. RabbitTypeOK'
  BY <1>2, <1>5 DEF RabbitInv, RabbitTypeOK, Work
<1>8. \A d \in RabbitConsumers : d # c => pc'[d] = pc[d] /\ hand'[d] = hand[d] /\ copy'[d] = copy[d]
  BY Zenon, <1>2 DEF RabbitInv, RabbitTypeOK
<1>9. LoopOK(c)'
  <2>1. pc'[c] = "confirm" /\ hand'[c] = h /\ copy'[c] = Len(msgs) + 1
    BY Zenon, <1>2 DEF RabbitInv, RabbitTypeOK
  <2>2. h \in 1..Len(msgs') /\ Len(msgs) + 1 \in 1..Len(msgs') /\ Len(msgs) + 1 > h /\ msgs'[h] = msgs[h]
    BY <1>3, <1>5
  <2> QED BY Zenon, <1>3, <1>4, <1>5, <1>6, <2>1, <2>2 DEF LoopOK
<1> QED BY Zenon, <1>5, <1>7, <1>8, <1>9, QuietEnds

\* The handler returns: an acknowledgement finishes the task.
LEMMA RabbitHandles ==
    ASSUME RabbitConstants, RabbitInv, NEW c \in RabbitConsumers, NEW outcome \in Rabbit!Outcome, Rabbit!Handle(c, outcome)
    PROVE  RabbitInv' /\ [Rabbit!ALO!Next]_(Rabbit!ALO!vars)
<1> DEFINE h == hand[c]
<1>1. pc[c] = "handle" /\ UNCHANGED <<msgs, hand, attempt, copy>>
  BY Zenon DEF Rabbit!Handle
<1>2. \/ handled' = handled \cup {msgs[h].task} /\ pc' = [pc EXCEPT ![c] = "ack"]
      \/ handled' = handled /\ pc' = [pc EXCEPT ![c] = "publish"]
  BY Zenon DEF Rabbit!Handle, Rabbit!Goto
<1>3. h \in 1..Len(msgs) /\ msgs[h].task \in RabbitTasks /\ msgs[h].target # "dead" /\ msgs[h].task \in KnownTasks
  BY Zenon, <1>1 DEF RabbitInv, LoopOK, Work
<1>4. \A d \in RabbitConsumers : d # c => pc'[d] = pc[d] /\ hand'[d] = hand[d] /\ copy'[d] = copy[d]
  BY Zenon, <1>1, <1>2 DEF RabbitInv, RabbitTypeOK
<1>5. RabbitTypeOK'
  BY Zenon, <1>1, <1>2 DEF RabbitInv, RabbitTypeOK, Work
<1>6. CASE handled' = handled /\ pc' = [pc EXCEPT ![c] = "publish"]
  <2>1. Quiet
    BY Zenon, <1>1, <1>6, SameMessages
  <2>2. Kept
    BY Zenon, <2>1, QuietStep
  <2>3. pc'[c] = "publish" /\ hand'[c] = h /\ msgs' = msgs
    BY Zenon, <1>1, <1>6 DEF RabbitInv, RabbitTypeOK
  <2>4. LoopOK(c)'
    BY Zenon, <1>3, <2>2, <2>3 DEF LoopOK, Kept
  <2> QED BY Zenon, <1>4, <1>5, <2>1, <2>4, QuietEnds
<1>7. CASE handled' = handled \cup {msgs[h].task} /\ pc' = [pc EXCEPT ![c] = "ack"]
  <2>1. PICK t : t = msgs[h].task
    BY Zenon
  <2>2. Rabbit!Live' = Rabbit!Live /\ Rabbit!Finished' = Rabbit!Finished \cup {t}
    BY Zenon, <1>1, <1>7, <2>1 DEF Rabbit!Live, Rabbit!Finished, Rabbit!Dead, Rabbit!InBroker, Rabbit!Message
  <2>3. KnownTasks \subseteq KnownTasks'
    BY Zenon, <2>2 DEF KnownTasks
  <2>4. \A i \in 1..Len(msgs) : Covered(i) => Covered(i)'
    BY Zenon, <1>1, <2>2 DEF Covered
  <2>5. Kept
    BY Zenon, <1>1, <2>3, <2>4 DEF Kept
  <2>6. MessagesOK'
    BY Zenon, <1>1, <2>3, <2>4 DEF RabbitInv, MessagesOK
  <2>7. LoopOK(c)'
    <3>1. pc'[c] = "ack" /\ hand'[c] = h /\ msgs' = msgs
      BY Zenon, <1>1, <1>7 DEF RabbitInv, RabbitTypeOK
    <3>2. Covered(hand[c])'
      BY Zenon, <2>1, <2>2, <3>1 DEF Covered
    <3> QED BY Zenon, <1>3, <2>3, <3>1, <3>2 DEF LoopOK
  <2>8. ASSUME NEW d \in RabbitConsumers, d # c PROVE LoopOK(d)'
    BY Zenon, <1>4, <2>5, <2>8, LoopKept
  <2>9. Rabbit!ALO!Finish(t)
    BY Zenon, <1>3, <2>1, <2>2 DEF Rabbit!ALO!Finish, KnownTasks
  <2>10. Rabbit!ALO!Next
    BY Zenon, <1>3, <2>1, <2>9 DEF Rabbit!ALO!Next
  <2> QED BY Zenon, <1>5, <2>6, <2>7, <2>8, <2>10 DEF RabbitInv
<1> QED BY Zenon, <1>2, <1>6, <1>7

\* A covered message is dropped.
LEMMA RabbitAcks ==
    ASSUME RabbitConstants, RabbitInv, NEW c \in RabbitConsumers, Rabbit!Ack(c)
    PROVE  RabbitInv' /\ [Rabbit!ALO!Next]_(Rabbit!ALO!vars)
<1>0. PICK h : h = hand[c]
  BY Zenon
<1>1. /\ pc[c] = "ack" /\ msgs' = [msgs EXCEPT ![h].place = "gone"] /\ pc' = [pc EXCEPT ![c] = "idle"] /\ handled' = handled
      /\ hand' = [hand EXCEPT ![c] = 0] /\ attempt' = [attempt EXCEPT ![c] = 0] /\ copy' = [copy EXCEPT ![c] = 0]
  BY Zenon, <1>0 DEF Rabbit!Ack, Rabbit!Drop, Rabbit!Goto
<1>2. h \in 1..Len(msgs) /\ msgs[h].task \in RabbitTasks /\ msgs[h].target # "dead" /\ Covered(h)
  BY Zenon, <1>0, <1>1 DEF RabbitInv, LoopOK, Work
<1>3. /\ msgs' \in Seq(Entry) /\ Len(msgs') = Len(msgs) /\ \A j \in 1..Len(msgs) : j # h => msgs'[j] = msgs[j]
      /\ msgs'[h].task = msgs[h].task /\ msgs'[h].target = msgs[h].target /\ msgs'[h].place = "gone"
  <2>1. PICK m : m = [msgs[h] EXCEPT !.place = "gone"]
    BY Zenon
  <2>2. msgs \in Seq(Entry) /\ m \in Entry /\ m.place = "gone" /\ m.task = msgs[h].task /\ m.target = msgs[h].target
    BY Zenon, <1>2, <2>1, EntryFields DEF Entry, RabbitInv, RabbitTypeOK
  <2>3. msgs' = [msgs EXCEPT ![h] = m]
    BY Zenon, <1>1, <2>1
  <2> QED BY <1>2, <2>2, <2>3
<1>4. RabbitTypeOK'
  BY <1>1, <1>3 DEF RabbitInv, RabbitTypeOK
<1>5. \A d \in RabbitConsumers : pc'[d] \in Work => pc'[d] = pc[d] /\ hand'[d] = hand[d] /\ copy'[d] = copy[d]
  BY Zenon, <1>1 DEF RabbitInv, RabbitTypeOK, Work
<1>6. \A j \in 1..Len(msgs) : /\ msgs'[j].task = msgs[j].task /\ msgs'[j].target = msgs[j].target
                              /\ j # h => msgs'[j].place = msgs[j].place
  BY Zenon, <1>3
<1>7. msgs[h].place # "dead"
  BY Zenon, <1>2 DEF RabbitInv, MessagesOK
<1>8. Rabbit!Finished' = Rabbit!Finished
  <2>1. \A i \in 1..Len(msgs) : msgs'[i].place = "dead" <=> msgs[i].place = "dead"
    BY Zenon, <1>3, <1>6, <1>7
  <2>2. ASSUME NEW x PROVE x \in Rabbit!Finished' <=> x \in Rabbit!Finished
    BY <1>1, <1>3, <1>6, <2>1, RabbitSets
  <2> QED BY Zenon, <2>2
<1>9. PICK t : t = msgs[h].task
  BY Zenon
<1>10. \/ t \in Rabbit!Finished
       \/ \E j \in 1..Len(msgs) : j > h /\ j # h /\ msgs[j].place \in Queued /\ msgs[j].task = t
  BY <1>2, <1>9 DEF Covered, RabbitInv, RabbitTypeOK
<1>11. Rabbit!Live' \subseteq Rabbit!Live
  <2>1. ASSUME NEW x, x \in Rabbit!Live' PROVE x \in Rabbit!Live
    <3>1. PICK i \in 1..Len(msgs') : x \notin Malformed /\ msgs'[i].place \in Queued /\ msgs'[i].task = x
      BY Zenon, <2>1, RabbitSets
    <3>2. i # h /\ i \in 1..Len(msgs)
      BY Zenon, <1>3, <3>1 DEF Queued
    <3> QED BY Zenon, <1>6, <3>1, <3>2, RabbitSets
  <2> QED BY Zenon, <2>1
<1>12. \A x \in Rabbit!Live : x # t \/ t \notin Rabbit!Finished => x \in Rabbit!Live'
  <2>1. ASSUME NEW x \in Rabbit!Live, x # t \/ t \notin Rabbit!Finished PROVE x \in Rabbit!Live'
    <3>1. PICK i \in 1..Len(msgs) : x \notin Malformed /\ msgs[i].place \in Queued /\ msgs[i].task = x
      BY Zenon, RabbitSets
    <3>2. \E j \in 1..Len(msgs) : j # h /\ msgs[j].place \in Queued /\ msgs[j].task = x
      <4>1. CASE i # h
        BY Zenon, <3>1, <4>1
      <4>2. CASE i = h
        BY Zenon, <1>9, <1>10, <2>1, <3>1, <4>2
      <4> QED BY Zenon, <4>1, <4>2
    <3> QED BY <1>3, <1>6, <3>1, <3>2, RabbitSets
  <2> QED BY Zenon, <2>1
<1>13. [Rabbit!ALO!Next]_(Rabbit!ALO!vars)
  <2>1. CASE Rabbit!Live' = Rabbit!Live
    BY Zenon, <1>8, <2>1 DEF Rabbit!ALO!vars
  <2>2. CASE Rabbit!Live' # Rabbit!Live
    <3>1. t \in Rabbit!Finished /\ Rabbit!Live' = Rabbit!Live \ {t}
      <4>1. t \in Rabbit!Finished
        BY Zenon, <1>11, <1>12, <2>2
      <4>2. t \notin Rabbit!Live'
        BY Zenon, <1>11, <1>12, <2>2
      <4> QED BY Zenon, <1>11, <1>12, <4>1, <4>2
    <3>2. Rabbit!ALO!Forget(t) /\ t \in RabbitTasks
      BY Zenon, <1>2, <1>8, <1>9, <3>1 DEF Rabbit!ALO!Forget
    <3> QED BY Zenon, <3>2 DEF Rabbit!ALO!Next
  <2> QED BY Zenon, <2>1, <2>2
<1>14. KnownTasks \subseteq KnownTasks'
  BY Zenon, <1>8, <1>12 DEF KnownTasks
<1>15. ASSUME NEW i \in 1..Len(msgs), msgs[i].task \in RabbitTasks, Covered(i) PROVE Covered(i)'
  <2>1. CASE msgs[i].task \in Rabbit!Finished
    BY Zenon, <1>6, <1>8, <2>1 DEF Covered
  <2>2. CASE msgs[i].task \notin Rabbit!Finished
    <3>1. PICK j \in 1..Len(msgs) : j > i /\ msgs[j].place \in Queued /\ msgs[j].task = msgs[i].task
      BY Zenon, <1>15, <2>2 DEF Covered
    <3>2. \E k \in 1..Len(msgs) : k > i /\ k # h /\ msgs[k].place \in Queued /\ msgs[k].task = msgs[i].task
      <4>1. CASE j # h
        BY Zenon, <3>1, <4>1
      <4>2. CASE j = h
        <5>1. PICK k \in 1..Len(msgs) : k > h /\ k # h /\ msgs[k].place \in Queued /\ msgs[k].task = t
          BY Zenon, <1>9, <1>10, <2>2, <3>1, <4>2
        <5>2. k > i
          BY <3>1, <4>2, <5>1 DEF RabbitInv, RabbitTypeOK
        <5> QED BY Zenon, <1>9, <3>1, <4>2, <5>1, <5>2
      <4> QED BY Zenon, <4>1, <4>2
    <3> QED BY Zenon, <1>3, <1>6, <3>2 DEF Covered
  <2> QED BY Zenon, <2>1, <2>2
<1>16. Kept
  BY Zenon, <1>3, <1>6, <1>14, <1>15 DEF Kept
<1>17. MessagesOK'
  <2> SUFFICES ASSUME NEW i \in 1..Len(msgs)
               PROVE  /\ msgs'[i].place \in Queued => msgs'[i].target # "dead"
                      /\ msgs'[i].place = "dead" => msgs'[i].target = "dead"
                      /\ msgs'[i].place = "sent" => msgs'[i].task \in RabbitTasks
                      /\ msgs'[i].place = "sent" /\ msgs'[i].target = "dead" => msgs'[i].task \in KnownTasks'
                      /\ msgs'[i].place = "gone" /\ msgs'[i].task \in RabbitTasks => Covered(i)'
    BY Zenon, <1>3 DEF MessagesOK
  <2>1. CASE i = h
    BY Zenon, <1>2, <1>3, <1>15, <2>1 DEF Queued
  <2>2. CASE i # h
    BY Zenon, <1>6, <1>14, <1>15, <2>2 DEF RabbitInv, MessagesOK
  <2> QED BY Zenon, <2>1, <2>2
<1>18. ASSUME NEW d \in RabbitConsumers PROVE LoopOK(d)'
  BY Zenon, <1>5, <1>16, LoopKept
<1> QED BY Zenon, <1>4, <1>13, <1>17, <1>18 DEF RabbitInv

\* The broker queues a message: its task comes in, or is dead-lettered.
LEMMA RabbitTakes ==
    ASSUME RabbitConstants, RabbitInv, NEW i \in 1..Len(msgs), Rabbit!BrokerTake(i)
    PROVE  RabbitInv' /\ [Rabbit!ALO!Next]_(Rabbit!ALO!vars)
<1>0. PICK t, p : t = msgs[i].task /\ p = msgs[i].target
  BY Zenon
<1>1. msgs[i].place = "sent" /\ msgs' = [msgs EXCEPT ![i].place = p] /\ UNCHANGED <<pc, hand, attempt, copy, handled>>
  BY Zenon, <1>0 DEF Rabbit!BrokerTake, Rabbit!loopVars
<1>2. t \in RabbitTasks /\ t \notin Malformed /\ (p = "dead" => t \in KnownTasks)
  BY Zenon, <1>0, <1>1 DEF RabbitInv, MessagesOK, RabbitConstants
<1>3. msgs \in Seq(Entry) /\ p \in {"ready", "delay", "dead"}
  BY Zenon, <1>0, EntryFields DEF RabbitInv, RabbitTypeOK
<1>4. /\ msgs' \in Seq(Entry) /\ Len(msgs') = Len(msgs) /\ \A j \in 1..Len(msgs) : j # i => msgs'[j] = msgs[j]
      /\ msgs'[i].task = t /\ msgs'[i].target = p /\ msgs'[i].place = p
  <2>1. PICK m : m = [msgs[i] EXCEPT !.place = p]
    BY Zenon
  <2>2. m \in Entry /\ m.place = p /\ m.task = msgs[i].task /\ m.target = msgs[i].target
    BY Zenon, <1>3, <2>1, EntryFields DEF Entry, Queued
  <2>3. msgs' = [msgs EXCEPT ![i] = m]
    BY Zenon, <1>1, <2>1
  <2> QED BY <1>0, <1>3, <2>2, <2>3
<1>5. \A j \in 1..Len(msgs) : /\ msgs'[j].task = msgs[j].task /\ msgs'[j].target = msgs[j].target
                              /\ j # i => msgs'[j].place = msgs[j].place
  BY Zenon, <1>0, <1>4
<1>6. RabbitTypeOK'
  BY Zenon, <1>1, <1>4 DEF RabbitInv, RabbitTypeOK
<1>7. \A x : x \in Rabbit!Live' <=> x \in Rabbit!Live \/ (x = t /\ p # "dead")
  <2>1. ASSUME NEW x, x \in Rabbit!Live' PROVE x \in Rabbit!Live \/ (x = t /\ p # "dead")
    <3>1. PICK j \in 1..Len(msgs) : x \notin Malformed /\ msgs'[j].place \in Queued /\ msgs'[j].task = x
      BY Zenon, <1>4, <2>1, RabbitSets
    <3>2. CASE j = i
      BY Zenon, <1>4, <3>1, <3>2 DEF Queued
    <3>3. CASE j # i
      BY Zenon, <1>5, <3>1, <3>3, RabbitSets
    <3> QED BY Zenon, <3>2, <3>3
  <2>2. ASSUME NEW x, x \in Rabbit!Live PROVE x \in Rabbit!Live'
    <3>1. PICK j \in 1..Len(msgs) : x \notin Malformed /\ msgs[j].place \in Queued /\ msgs[j].task = x
      BY Zenon, <2>2, RabbitSets
    <3>2. j # i
      BY Zenon, <1>1, <3>1 DEF Queued
    <3> QED BY Zenon, <1>4, <1>5, <3>1, <3>2, RabbitSets
  <2>3. p # "dead" => t \in Rabbit!Live'
    BY <1>2, <1>3, <1>4, RabbitSets DEF Queued
  <2> QED BY Zenon, <2>1, <2>2, <2>3
<1>8. \A x : x \in Rabbit!Finished' <=> x \in Rabbit!Finished \/ (x = t /\ p = "dead")
  <2>1. \A j \in 1..Len(msgs) : msgs'[j].place = "dead" <=> msgs[j].place = "dead" \/ (j = i /\ p = "dead")
    BY Zenon, <1>1, <1>4, <1>5
  <2>2. ASSUME NEW x PROVE x \in Rabbit!Finished' <=> x \in Rabbit!Finished \/ (x = t /\ p = "dead")
    BY <1>0, <1>1, <1>4, <1>5, <2>1, RabbitSets
  <2> QED BY Zenon, <2>2
<1>9. KnownTasks \subseteq KnownTasks'
  BY Zenon, <1>7, <1>8 DEF KnownTasks
<1>10. [Rabbit!ALO!Next]_(Rabbit!ALO!vars)
  <2>1. CASE p = "dead"
    <3>1. Rabbit!Live' = Rabbit!Live /\ Rabbit!Finished' = Rabbit!Finished \cup {t}
      BY Zenon, <1>7, <1>8, <2>1
    <3>2. Rabbit!ALO!Finish(t)
      BY Zenon, <1>2, <2>1, <3>1 DEF Rabbit!ALO!Finish, KnownTasks
    <3> QED BY Zenon, <1>2, <3>2 DEF Rabbit!ALO!Next
  <2>2. CASE p # "dead"
    <3>1. Rabbit!Live' = Rabbit!Live \cup {t} /\ Rabbit!Finished' = Rabbit!Finished
      BY Zenon, <1>7, <1>8, <2>2
    <3>2. Rabbit!ALO!Accept(t) \/ Rabbit!ALO!Revive(t)
      BY Zenon, <3>1 DEF Rabbit!ALO!Accept, Rabbit!ALO!Revive
    <3> QED BY Zenon, <1>2, <3>2 DEF Rabbit!ALO!Next
  <2> QED BY Zenon, <2>1, <2>2
<1>11. ASSUME NEW j \in 1..Len(msgs), Covered(j) PROVE Covered(j)'
  <2>1. CASE msgs[j].task \in Rabbit!Finished
    BY Zenon, <1>5, <1>8, <2>1 DEF Covered
  <2>2. CASE \E k \in 1..Len(msgs) : k > j /\ msgs[k].place \in Queued /\ msgs[k].task = msgs[j].task
    <3>1. PICK k \in 1..Len(msgs) : k > j /\ msgs[k].place \in Queued /\ msgs[k].task = msgs[j].task
      BY Zenon, <2>2
    <3>2. k # i
      BY Zenon, <1>1, <3>1 DEF Queued
    <3> QED BY Zenon, <1>4, <1>5, <3>1, <3>2 DEF Covered
  <2> QED BY Zenon, <1>11, <2>1, <2>2 DEF Covered
<1>12. Kept
  BY Zenon, <1>4, <1>5, <1>9, <1>11 DEF Kept
<1>13. MessagesOK'
  <2> SUFFICES ASSUME NEW j \in 1..Len(msgs)
               PROVE  /\ msgs'[j].place \in Queued => msgs'[j].target # "dead"
                      /\ msgs'[j].place = "dead" => msgs'[j].target = "dead"
                      /\ msgs'[j].place = "sent" => msgs'[j].task \in RabbitTasks
                      /\ msgs'[j].place = "sent" /\ msgs'[j].target = "dead" => msgs'[j].task \in KnownTasks'
                      /\ msgs'[j].place = "gone" /\ msgs'[j].task \in RabbitTasks => Covered(j)'
    BY Zenon, <1>4 DEF MessagesOK
  <2>1. CASE j = i
    BY Zenon, <1>3, <1>4, <2>1 DEF Queued
  <2>2. CASE j # i
    BY <1>5, <1>9, <1>11, <2>2 DEF RabbitInv, MessagesOK
  <2> QED BY Zenon, <2>1, <2>2
<1>14. ASSUME NEW d \in RabbitConsumers PROVE LoopOK(d)'
  BY Zenon, <1>1, <1>12, LoopKept
<1> QED BY Zenon, <1>6, <1>10, <1>13, <1>14 DEF RabbitInv

\* At first only malformed messages are queued.
LEMMA RabbitInit == ASSUME RabbitConstants, Rabbit!Init PROVE RabbitInv /\ Rabbit!ALO!Init
<1>1. PICK n \in Nat : n = Rabbit!Cardinality(Malformed)
  <2>1. Cardinality(Malformed) \in Nat
    BY Zenon DEF RabbitConstants
  <2>2. Rabbit!Cardinality(Malformed) = Cardinality(Malformed)
    BY Zenon DEF Rabbit!Cardinality, Cardinality
  <2> QED BY Zenon, <2>1, <2>2
<1>2. PICK order \in [1..n -> Malformed] :
        msgs = [i \in 1..n |-> [task |-> order[i], base |-> 0, target |-> "ready", place |-> "ready", to |-> NoOne]]
  BY Zenon, <1>1 DEF Rabbit!Init
<1>3. \A i \in 1..n : msgs[i] \in Entry /\ msgs[i].task \in Malformed /\ msgs[i].place = "ready" /\ msgs[i].target = "ready"
  BY <1>2 DEF Entry, Queued
<1>4. msgs \in Seq(Entry) /\ Len(msgs) = n
  BY <1>2, <1>3
<1>5. RabbitTypeOK
  <2>1. /\ pc = [c \in RabbitConsumers |-> "closed"] /\ hand = [c \in RabbitConsumers |-> 0] /\ attempt = [c \in RabbitConsumers |-> 0]
        /\ copy = [a \in RabbitConsumers \cup RabbitTasks |-> 0]
    BY Zenon DEF Rabbit!Init
  <2> QED BY <1>4, <2>1 DEF RabbitTypeOK
<1>6. MessagesOK
  BY Zenon, <1>3, <1>4 DEF MessagesOK
<1>7. \A c \in RabbitConsumers : LoopOK(c)
  BY Zenon DEF Rabbit!Init, LoopOK, Work
<1>8. Rabbit!ALO!Init
  <2>1. \A x : x \notin Rabbit!Live
    BY <1>3, <1>4, RabbitSets
  <2>2. \A x : x \notin Rabbit!Finished
    <3>1. handled = {}
      BY Zenon DEF Rabbit!Init
    <3> QED BY Zenon, <1>3, <1>4, <3>1, RabbitSets
  <2> QED BY Zenon, <2>1, <2>2 DEF Rabbit!ALO!Init
<1> QED BY Zenon, <1>5, <1>6, <1>7, <1>8 DEF RabbitInv

\* Every step keeps the invariant and is one of AtLeastOnce.
LEMMA RabbitStep ==
    ASSUME RabbitConstants, RabbitInv, [Rabbit!Next]_(Rabbit!vars)
    PROVE  RabbitInv' /\ [Rabbit!ALO!Next]_(Rabbit!ALO!vars)
<1>1. CASE UNCHANGED Rabbit!vars
  <2>1. UNCHANGED <<msgs, pc, hand, attempt, copy, handled>>
    BY Zenon, <1>1 DEF Rabbit!vars, Rabbit!loopVars
  <2>2. RabbitTypeOK'
    BY Zenon, <2>1 DEF RabbitInv, RabbitTypeOK
  <2> QED BY Zenon, <2>1, <2>2, SameMessages, QuietEnds
<1>2. ASSUME NEW i \in 1..Len(msgs), Rabbit!BrokerStep(i) \/ Rabbit!BrokerRefuse(i)
      PROVE  RabbitInv' /\ [Rabbit!ALO!Next]_(Rabbit!ALO!vars)
  BY Zenon, <1>2, RabbitMoves, RabbitTakes DEF Rabbit!BrokerStep
<1>3. ASSUME NEW c \in RabbitConsumers, Rabbit!ConsumerStep(c) \/ Rabbit!Crash(c) \/ Rabbit!ChannelLost(c)
      PROVE  RabbitInv' /\ [Rabbit!ALO!Next]_(Rabbit!ALO!vars)
  BY Zenon, <1>3, RabbitCloses, RabbitLoops, RabbitHandles, RabbitSettles, RabbitAcks DEF Rabbit!ConsumerStep, Rabbit!Message
<1> QED BY Zenon, <1>1, <1>2, <1>3, RabbitProduces DEF Rabbit!Next, Rabbit!Message

\* RabbitQueue: the adapter implements AtLeastOnce.
AtLeastOnceDelivery == Rabbit!AtLeastOnceDelivery

\* queue/adapter/rabbitmq: with publisher confirms the adapter implements
\* AtLeastOnce.  A task that the broker has queued stays there until a handler
\* has succeeded or a confirmed copy took its place, through lost channels,
\* refused and unconfirmed publishes and crashes, for any number of tasks,
\* consumers and messages that do not decode.
THEOREM RabbitIsAtLeastOnce == ASSUME RabbitConstants PROVE Rabbit!Spec => AtLeastOnceDelivery
<1>1. Rabbit!Init => RabbitInv /\ Rabbit!ALO!Init
  BY Zenon, RabbitInit
<1>2. RabbitInv /\ [Rabbit!Next]_(Rabbit!vars) => RabbitInv' /\ [Rabbit!ALO!Next]_(Rabbit!ALO!vars)
  BY Zenon, RabbitStep
<1> QED BY <1>1, <1>2, PTL DEF Rabbit!Spec, AtLeastOnceDelivery, Rabbit!AtLeastOnceDelivery, Rabbit!ALO!Spec

-----------------------------------------------------------------------------
(* CloudEvents *)

CONSTANTS Receivers, ContentTypes, MaxEvents, MaxErrors
VARIABLES events, queue, unacked, deliveries, forwarding, forwarder, open, recv, finished, received, faults
Cloud == INSTANCE CloudEvents WITH
    MaxFaults <- MaxErrors, hand <- forwarding, acked <- finished, handled <- received

\* Events without a content type, which the binary mode does not read back.
CloudConstants == ContentTypes = {"none"}

\* The events and their messages.
Event == [id : Nat, structured : BOOLEAN, datacontenttype : ContentTypes, ext : {"none", "x"}]
Message == {Cloud!writeMessage(e) : e \in Event}

\* m is the message of an event that was sent.
Real(m) == m.id \in 1..Len(events) /\ m = Cloud!writeMessage(events[m.id])

\* Every variable has the values its place allows.
CloudTypeOK ==
    /\ events \in Seq(Event) /\ queue \in Seq(Message) /\ deliveries \in Seq(Message)
    /\ forwarding \in Message \cup {Cloud!Nothing} /\ open \in BOOLEAN
    /\ recv \in [Receivers -> [pc : {"waiting", "handling", "eof", "cancelled"}, message : Message \cup {Cloud!Nothing}]]
    /\ \A k \in 1..Len(events) : events[k].id = k

\* Every message on its way is one of an event.
AllReal ==
    /\ \A k \in 1..Len(queue) : Real(queue[k])
    /\ \A k \in 1..Len(deliveries) : Real(deliveries[k])
    /\ forwarding # Cloud!Nothing => Real(forwarding)
    /\ \A r \in Receivers : recv[r].pc = "handling" => Real(recv[r].message)
    /\ unacked \subseteq 1..Len(events) /\ finished \subseteq 1..Len(events)

\* A delivery is in one place at the consumer, and not finished while the channel is open.
OneHolder ==
    /\ \A j, k \in 1..Len(deliveries) : deliveries[j].id = deliveries[k].id => j = k
    /\ \A k \in 1..Len(deliveries) : deliveries[k].id # forwarding.id
    /\ \A r \in Receivers : recv[r].pc = "handling" =>
         /\ recv[r].message.id # forwarding.id
         /\ \A k \in 1..Len(deliveries) : deliveries[k].id # recv[r].message.id
         /\ \A s \in Receivers : recv[s].pc = "handling" /\ recv[s].message.id = recv[r].message.id => r = s

\* What the consumer holds is not finished while the channel is open.
StillUnacked ==
    open => /\ \A k \in 1..Len(deliveries) : deliveries[k].id \in unacked
            /\ forwarding # Cloud!Nothing => forwarding.id \in unacked
            /\ \A r \in Receivers : recv[r].pc = "handling" => recv[r].message.id \in unacked

\* The events that are ready.
Ready == {queue[k].id : k \in 1..Len(queue)}

\* An event is in one place at the broker.
OneSpot ==
    /\ \A j, k \in 1..Len(queue) : queue[j].id = queue[k].id => j = k
    /\ Ready \cap unacked = {} /\ Ready \cap finished = {} /\ unacked \cap finished = {}
    /\ 1..Len(events) \subseteq Ready \cup unacked \cup finished
    /\ \A k \in finished : events[k] \in received

\* The inductive invariant.
CloudInv == CloudTypeOK /\ AllReal /\ OneHolder /\ StillUnacked /\ OneSpot

\* A message has the number of its event.
LEMMA CloudMessages ==
    /\ \A e \in Event : Cloud!writeMessage(e) \in Message /\ Cloud!writeMessage(e).id = e.id
    /\ \A m \in Message : m.id \in Nat
    /\ Cloud!Nothing.id = 0
<1>1. \A e \in Event : Cloud!writeMessage(e) \in Message
  BY Zenon DEF Message
<1>2. \A e \in Event : Cloud!writeMessage(e).id = e.id /\ e.id \in Nat
  BY Zenon DEF Cloud!writeMessage, Cloud!SetStructuredEvent, Cloud!SetAttributes, Event
<1>3. \A m \in Message : m.id \in Nat
  BY Zenon, <1>2 DEF Message
<1>4. Cloud!Nothing.id = 0
  BY Zenon DEF Cloud!Nothing
<1> QED BY Zenon, <1>1, <1>2, <1>3, <1>4

\* What was written is read back.
LEMMA CloudReads == ASSUME CloudConstants, NEW e \in Event PROVE Cloud!ReadEncoding(Cloud!writeMessage(e)) = e
<1>1. CASE e.structured
  BY Zenon, <1>1 DEF Cloud!writeMessage, Cloud!SetStructuredEvent, Cloud!ReadEncoding, Cloud!ReadStructured
<1>2. CASE ~e.structured
  <2>1. e.datacontenttype = "none" /\ e.structured = FALSE /\ e.id \in Nat /\ e.ext \in {"none", "x"}
    BY Zenon, <1>2 DEF Event, CloudConstants
  <2>2. e = [id |-> e.id, structured |-> FALSE, datacontenttype |-> "none", ext |-> e.ext]
    BY Zenon, <2>1 DEF Event
  <2> DEFINE h == Cloud!SetExtension(<<<<"ce-id", e.id>>>>, e)
  <2>3. h[1][2] = e.id /\ (IF Len(h) > 1 THEN h[2][2] ELSE "none") = e.ext
    <3>1. CASE e.ext = "none"
      <4>1. h = <<<<"ce-id", e.id>>>>
        BY Zenon, <3>1 DEF Cloud!SetExtension
      <4> QED BY <3>1, <4>1
    <3>2. CASE e.ext = "x"
      <4> DEFINE g == <<<<"ce-id", e.id>>>>
      <4>1. h = Append(g, <<"ce-ext", e.ext>>)
        BY Zenon, <3>2 DEF Cloud!SetExtension
      <4>2. g \in Seq({g[1]}) /\ Len(g) = 1 /\ g[1][2] = e.id
        OBVIOUS
      <4> HIDE DEF g, h
      <4>3. Len(h) = 2 /\ h[1] = g[1] /\ h[2] = <<"ce-ext", e.ext>>
        BY <4>1, <4>2
      <4> QED BY <4>2, <4>3
    <3> QED BY Zenon, <2>1, <3>1, <3>2
  <2> DEFINE m == [id |-> e.id, contentType |-> e.datacontenttype, headers |-> h, body |-> e.id]
  <2>4. Cloud!writeMessage(e) = m
    BY Zenon, <1>2 DEF Cloud!writeMessage, Cloud!SetAttributes
  <2>5. m.contentType # "cloudevents" /\ m.headers = h
    BY Zenon, <2>1
  <2> HIDE DEF h, m
  <2>6. Cloud!ReadEncoding(m) = [id |-> e.id, structured |-> FALSE, datacontenttype |-> "none", ext |-> e.ext]
    BY Zenon, <2>3, <2>5 DEF Cloud!ReadEncoding, Cloud!ReadBinary
  <2> QED BY Zenon, <2>2, <2>4, <2>6
<1> QED BY Zenon, <1>1, <1>2 DEF Event

\* Nothing was sent at first.
LEMMA CloudInit == Cloud!Init => CloudInv
<1> SUFFICES ASSUME Cloud!Init PROVE CloudInv
  BY Zenon
<1>1. CloudTypeOK
  <2>1. events = <<>> /\ queue = <<>> /\ deliveries = <<>> /\ forwarding = Cloud!Nothing /\ open = TRUE
    BY Zenon DEF Cloud!Init
  <2>2. recv \in [Receivers -> [pc : {"waiting", "handling", "eof", "cancelled"}, message : Message \cup {Cloud!Nothing}]]
    BY Zenon DEF Cloud!Init
  <2> QED BY <2>1, <2>2 DEF CloudTypeOK
<1>2. AllReal /\ OneHolder /\ StillUnacked
  BY DEF Cloud!Init, AllReal, OneHolder, StillUnacked
<1>3. OneSpot
  BY DEF Cloud!Init, OneSpot, Ready
<1> QED BY Zenon, <1>1, <1>2, <1>3 DEF CloudInv

\* The parts of the invariant that a step leaves alone.
LEMMA CloudSameBroker ==
    ASSUME CloudInv, UNCHANGED <<events, queue, unacked, finished, received>> PROVE OneSpot'
BY DEF CloudInv, OneSpot, Ready

\* An event that is sent is ready.
LEMMA CloudSends == ASSUME CloudInv, Cloud!Sends PROVE CloudInv'
<1>1. PICK s \in BOOLEAN, t \in ContentTypes, x \in {"none", "x"} : Cloud!Send(s, t, x)
  BY Zenon DEF Cloud!Sends
<1>0. PICK e : e = [id |-> Len(events) + 1, structured |-> s, datacontenttype |-> t, ext |-> x]
  BY Zenon
<1>2. UNCHANGED <<unacked, deliveries, forwarding, forwarder, open, recv, finished, received>>
  BY Zenon, <1>1 DEF Cloud!Send
<1>3. \/ UNCHANGED <<events, queue>>
      \/ events' = Append(events, e) /\ queue' = Append(queue, Cloud!writeMessage(e))
  BY Zenon, <1>0, <1>1 DEF Cloud!Send
<1>4. CASE UNCHANGED <<events, queue>>
  BY <1>2, <1>4 DEF CloudInv, CloudTypeOK, AllReal, OneHolder, StillUnacked, OneSpot, Ready, Real
<1>5. CASE events' = Append(events, e) /\ queue' = Append(queue, Cloud!writeMessage(e))
  <2>0. PICK m : m = Cloud!writeMessage(e)
    BY Zenon
  <2>1. e \in Event /\ e.id = Len(events) + 1 /\ Len(events) \in Nat
    BY <1>0 DEF CloudInv, CloudTypeOK, Event
  <2>2. m \in Message /\ m.id = Len(events) + 1
    BY Zenon, <2>0, <2>1, CloudMessages
  <2>3. /\ Len(events') = Len(events) + 1 /\ events' \in Seq(Event)
        /\ \A k \in 1..Len(events) : events'[k] = events[k]
        /\ events'[Len(events) + 1] = e
    BY <1>5, <2>1 DEF CloudInv, CloudTypeOK
  <2>4. queue' = Append(queue, m) /\ queue \in Seq(Message)
    BY Zenon, <1>5, <2>0 DEF CloudInv, CloudTypeOK
  <2>5. /\ Len(queue') = Len(queue) + 1 /\ queue' \in Seq(Message) /\ Len(queue) \in Nat
        /\ \A k \in 1..Len(queue) : queue'[k] = queue[k]
        /\ queue'[Len(queue) + 1] = m
    BY <2>2, <2>4
  <2>6. CloudTypeOK'
    <3>0. \A k \in 1..Len(events) : events[k].id = k
      BY Zenon DEF CloudInv, CloudTypeOK
    <3>1. ASSUME NEW k \in 1..Len(events') PROVE events'[k].id = k
      <4>1. k \in 1..Len(events) \/ k = Len(events) + 1
        BY <2>1, <2>3
      <4>2. CASE k \in 1..Len(events)
        BY Zenon, <2>3, <3>0, <4>2
      <4>3. CASE k = Len(events) + 1
        BY Zenon, <2>1, <2>3, <4>3
      <4> QED BY Zenon, <4>1, <4>2, <4>3
    <3> QED BY Zenon, <1>2, <2>3, <2>5, <3>1 DEF CloudInv, CloudTypeOK
  <2>7. \A q : Real(q) => Real(q)'
    BY <2>1, <2>3 DEF Real
  <2>8. Real(m)'
    BY <2>0, <2>1, <2>2, <2>3 DEF Real
  <2>9. AllReal'
    <3>1. ASSUME NEW k \in 1..Len(queue') PROVE Real(queue[k])'
      <4>1. CASE k \in 1..Len(queue)
        BY Zenon, <2>5, <2>7, <4>1 DEF CloudInv, AllReal
      <4>2. CASE k = Len(queue) + 1
        BY Zenon, <2>5, <2>8, <4>2
      <4> QED BY <2>5, <4>1, <4>2
    <3>2. unacked' \subseteq 1..Len(events') /\ finished' \subseteq 1..Len(events')
      BY <1>2, <2>1, <2>3 DEF CloudInv, AllReal
    <3> QED BY Zenon, <1>2, <2>7, <3>1, <3>2 DEF CloudInv, AllReal
  <2>10. OneHolder' /\ StillUnacked'
    BY Zenon, <1>2 DEF CloudInv, OneHolder, StillUnacked
  <2>11. \A k \in 1..Len(queue) : queue[k].id \in 1..Len(events)
    BY Zenon DEF CloudInv, AllReal, Real
  <2>12. Ready' = Ready \cup {Len(events) + 1}
    BY <2>2, <2>5 DEF Ready
  <2>13. OneSpot'
    <3>1. \A j, k \in 1..Len(queue') : queue'[j].id = queue'[k].id => j = k
      BY <2>1, <2>2, <2>5, <2>11 DEF CloudInv, OneSpot
    <3>2. Len(events) + 1 \notin unacked \cup finished
      BY <2>1 DEF CloudInv, AllReal
    <3>3. \A k \in finished' : events'[k] \in received'
      BY Zenon, <1>2, <2>3 DEF CloudInv, AllReal, OneSpot
    <3>4. 1..Len(events') \subseteq Ready' \cup unacked' \cup finished'
      BY <1>2, <2>1, <2>3, <2>12 DEF CloudInv, OneSpot
    <3> QED BY <1>2, <2>12, <3>1, <3>2, <3>3, <3>4 DEF CloudInv, OneSpot
  <2> QED BY Zenon, <2>6, <2>9, <2>10, <2>13 DEF CloudInv
<1> QED BY Zenon, <1>3, <1>4, <1>5

\* Tail of a sequence, element by element.
LEMMA Rest ==
    ASSUME NEW S, NEW q \in Seq(S), q # <<>>
    PROVE  /\ Head(q) = q[1] /\ q[1] \in S /\ 1 \in 1..Len(q) /\ Tail(q) \in Seq(S) /\ Len(Tail(q)) = Len(q) - 1
           /\ \A k \in 1..Len(Tail(q)) : k + 1 \in 1..Len(q) /\ Tail(q)[k] = q[k + 1]
           /\ \A k \in 1..Len(q) : k = 1 \/ (k - 1 \in 1..Len(Tail(q)) /\ Tail(q)[k - 1] = q[k])
<1>1. Len(q) \in Nat /\ Len(q) >= 1
  OBVIOUS
<1>2. Head(q) = q[1] /\ Tail(q) \in Seq(S) /\ Len(Tail(q)) = Len(q) - 1 /\ \A k \in 1..(Len(q) - 1) : Tail(q)[k] = q[k + 1]
  BY <1>1
<1>3. q[1] \in S
  BY <1>1
<1> QED BY <1>1, <1>2, <1>3

\* What is delivered is no longer ready.
LEMMA CloudDelivers == ASSUME CloudInv, Cloud!Deliver PROVE CloudInv'
<1>0. PICK m : m = Head(queue)
  BY Zenon
<1>1. /\ open /\ queue # <<>> /\ deliveries' = Append(deliveries, m) /\ queue' = Tail(queue) /\ unacked' = unacked \cup {m.id}
      /\ UNCHANGED <<events, forwarding, open, recv, finished, received>>
  BY Zenon, <1>0 DEF Cloud!Deliver
<1>2. /\ m = queue[1] /\ m \in Message /\ 1 \in 1..Len(queue) /\ queue' \in Seq(Message)
      /\ \A k \in 1..Len(queue') : k + 1 \in 1..Len(queue) /\ queue'[k] = queue[k + 1]
      /\ \A k \in 1..Len(queue) : k = 1 \/ (k - 1 \in 1..Len(queue') /\ queue'[k - 1] = queue[k])
  BY <1>0, <1>1, Rest DEF CloudInv, CloudTypeOK
<1>3. /\ deliveries' \in Seq(Message) /\ Len(deliveries') = Len(deliveries) + 1 /\ Len(deliveries) \in Nat
      /\ \A k \in 1..Len(deliveries) : deliveries'[k] = deliveries[k]
      /\ deliveries'[Len(deliveries) + 1] = m
  BY <1>1, <1>2 DEF CloudInv, CloudTypeOK
<1>4. CloudTypeOK'
  BY Zenon, <1>1, <1>2, <1>3 DEF CloudInv, CloudTypeOK
<1>5. \A q : Real(q)' <=> Real(q)
  BY Zenon, <1>1 DEF Real
<1>6. Real(m) /\ m.id \in 1..Len(events) /\ m.id \in Ready
  BY Zenon, <1>2 DEF CloudInv, AllReal, Real, Ready
<1>7. AllReal'
  <2>1. ASSUME NEW k \in 1..Len(deliveries') PROVE Real(deliveries[k])'
    <3>1. CASE k \in 1..Len(deliveries)
      BY Zenon, <1>3, <1>5, <3>1 DEF CloudInv, AllReal
    <3>2. CASE k = Len(deliveries) + 1
      BY Zenon, <1>3, <1>5, <1>6, <3>2
    <3> QED BY <1>3, <3>1, <3>2
  <2>2. \A k \in 1..Len(queue') : Real(queue[k])'
    BY Zenon, <1>2, <1>5 DEF CloudInv, AllReal
  <2> QED BY Zenon, <1>1, <1>5, <1>6, <2>1, <2>2 DEF CloudInv, AllReal
<1>8. /\ m.id \notin unacked /\ m.id \notin finished
      /\ \A k \in 1..Len(deliveries) : deliveries[k].id # m.id
      /\ forwarding.id # m.id
      /\ \A r \in Receivers : recv[r].pc = "handling" => recv[r].message.id # m.id
  <2>1. m.id \notin unacked /\ m.id \notin finished /\ m.id # 0
    BY <1>6 DEF CloudInv, CloudTypeOK, OneSpot
  <2>2. \A r \in Receivers : recv[r].pc = "handling" => recv[r].message.id # m.id
    BY Zenon, <1>1, <2>1 DEF CloudInv, StillUnacked
  <2>3. forwarding.id # m.id
    <3>1. CASE forwarding = Cloud!Nothing
      BY Zenon, <2>1, <3>1, CloudMessages
    <3>2. CASE forwarding # Cloud!Nothing
      BY Zenon, <1>1, <2>1, <3>2 DEF CloudInv, StillUnacked
    <3> QED BY Zenon, <3>1, <3>2
  <2> QED BY Zenon, <1>1, <2>1, <2>2, <2>3 DEF CloudInv, StillUnacked
<1>9. OneHolder'
  BY <1>1, <1>3, <1>8 DEF CloudInv, OneHolder
<1>10. StillUnacked'
  BY <1>1, <1>3 DEF CloudInv, StillUnacked
<1>11. Ready = Ready' \cup {m.id} /\ m.id \notin Ready'
  <2>1. \A k \in 1..Len(queue') : queue'[k].id \in Ready /\ queue'[k].id # m.id
    BY <1>2 DEF CloudInv, OneSpot, Ready
  <2>2. \A k \in 1..Len(queue) : queue[k].id \in Ready' \cup {m.id}
    BY Zenon, <1>2 DEF Ready
  <2> QED BY Zenon, <1>6, <2>1, <2>2 DEF Ready
<1>12. \A j, k \in 1..Len(queue') : queue'[j].id = queue'[k].id => j = k
  BY <1>2 DEF CloudInv, OneSpot
<1>13. OneSpot'
  BY <1>1, <1>8, <1>11, <1>12 DEF CloudInv, OneSpot
<1> QED BY Zenon, <1>4, <1>7, <1>9, <1>10, <1>13 DEF CloudInv

\* The goroutine takes a delivery.
LEMMA CloudTakes == ASSUME CloudInv, Cloud!Take PROVE CloudInv'
<1>1. /\ forwarding = Cloud!Nothing /\ deliveries # <<>> /\ forwarding' = Head(deliveries) /\ deliveries' = Tail(deliveries)
      /\ UNCHANGED <<events, queue, unacked, open, recv, finished, received>>
  BY Zenon DEF Cloud!Take
<1>2. /\ forwarding' = deliveries[1] /\ forwarding' \in Message /\ 1 \in 1..Len(deliveries) /\ deliveries' \in Seq(Message)
      /\ \A k \in 1..Len(deliveries') : k + 1 \in 1..Len(deliveries) /\ deliveries'[k] = deliveries[k + 1]
  BY <1>1, Rest DEF CloudInv, CloudTypeOK
<1>3. CloudTypeOK'
  BY Zenon, <1>1, <1>2 DEF CloudInv, CloudTypeOK
<1>4. \A q : Real(q)' <=> Real(q)
  BY Zenon, <1>1 DEF Real
<1>5. AllReal'
  BY Zenon, <1>1, <1>2, <1>4 DEF CloudInv, AllReal
<1>6. OneHolder'
  BY <1>1, <1>2 DEF CloudInv, OneHolder
<1>7. StillUnacked'
  BY Zenon, <1>1, <1>2 DEF CloudInv, StillUnacked
<1> QED BY Zenon, <1>1, <1>3, <1>5, <1>6, <1>7, CloudSameBroker DEF CloudInv

\* A receiver takes what the goroutine holds, or ends.
LEMMA CloudReceives == ASSUME CloudInv, NEW r \in Receivers, Cloud!Receive(r) \/ Cloud!Cancel(r) PROVE CloudInv'
<1>1. UNCHANGED <<events, queue, unacked, deliveries, open, finished, received>> /\ recv[r].pc = "waiting"
  BY Zenon DEF Cloud!Receive, Cloud!Cancel
<1>2. /\ DOMAIN recv = Receivers /\ recv[r] \in [pc : {"waiting", "handling", "eof", "cancelled"}, message : Message \cup {Cloud!Nothing}]
  BY Zenon DEF CloudInv, CloudTypeOK
<1>3. \/ forwarding # Cloud!Nothing /\ forwarding' = Cloud!Nothing /\ recv' = [recv EXCEPT ![r] = [pc |-> "handling", message |-> forwarding]]
      \/ forwarding' = forwarding /\ \E p \in {"eof", "cancelled"} : recv' = [recv EXCEPT ![r].pc = p]
  BY Zenon DEF Cloud!Receive, Cloud!Cancel, Cloud!HandAfter
<1>4. \A s \in Receivers : s # r => recv'[s] = recv[s]
  BY Zenon, <1>2, <1>3
<1>5. \/ forwarding # Cloud!Nothing /\ forwarding' = Cloud!Nothing /\ recv'[r].pc = "handling" /\ recv'[r].message = forwarding
      \/ forwarding' = forwarding /\ recv'[r].pc \in {"eof", "cancelled"}
  BY <1>2, <1>3
<1>6. CloudTypeOK'
  <2>1. recv' \in [Receivers -> [pc : {"waiting", "handling", "eof", "cancelled"}, message : Message \cup {Cloud!Nothing}]]
    <3>1. CASE recv' = [recv EXCEPT ![r] = [pc |-> "handling", message |-> forwarding]]
      <4>1. [pc |-> "handling", message |-> forwarding] \in [pc : {"waiting", "handling", "eof", "cancelled"}, message : Message \cup {Cloud!Nothing}]
        BY Zenon DEF CloudInv, CloudTypeOK
      <4> QED BY Zenon, <3>1, <4>1 DEF CloudInv, CloudTypeOK
    <3>2. CASE \E p \in {"eof", "cancelled"} : recv' = [recv EXCEPT ![r].pc = p]
      <4>1. PICK p \in {"eof", "cancelled"} : recv' = [recv EXCEPT ![r].pc = p]
        BY Zenon, <3>2
      <4>2. [recv[r] EXCEPT !.pc = p] \in [pc : {"waiting", "handling", "eof", "cancelled"}, message : Message \cup {Cloud!Nothing}]
        BY Zenon, <1>2
      <4> QED BY Zenon, <4>1, <4>2 DEF CloudInv, CloudTypeOK
    <3> QED BY Zenon, <1>3, <3>1, <3>2
  <2>2. forwarding' \in Message \cup {Cloud!Nothing}
    BY Zenon, <1>3 DEF CloudInv, CloudTypeOK
  <2> QED BY Zenon, <1>1, <2>1, <2>2 DEF CloudInv, CloudTypeOK
<1>7. \A q : Real(q)' <=> Real(q)
  BY Zenon, <1>1 DEF Real
<1>8. AllReal'
  BY Zenon, <1>1, <1>4, <1>5, <1>7 DEF CloudInv, AllReal
<1>9. \A m : Real(m) => m.id # 0
  BY DEF Real, CloudInv, CloudTypeOK
<1>10. OneHolder'
  BY <1>1, <1>4, <1>5, <1>9, CloudMessages DEF CloudInv, AllReal, OneHolder
<1>11. StillUnacked'
  BY Zenon, <1>1, <1>4, <1>5 DEF CloudInv, StillUnacked
<1> QED BY Zenon, <1>1, <1>6, <1>8, <1>10, <1>11, CloudSameBroker DEF CloudInv

\* A handler that returns finishes its message: acknowledged or back in the queue.
LEMMA CloudHandles == ASSUME CloudConstants, CloudInv, NEW r \in Receivers, Cloud!Handle(r) PROVE CloudInv'
<1>0. PICK m : m = recv[r].message
  BY Zenon
<1>1. PICK err \in BOOLEAN :
        /\ received' = (IF err THEN received ELSE received \cup {Cloud!ReadEncoding(m)})
        /\ IF open THEN Cloud!Finish(m, err) /\ unacked' = unacked \ {m.id} ELSE UNCHANGED <<queue, finished, unacked>>
  BY Zenon, <1>0 DEF Cloud!Handle
<1>2. /\ recv[r].pc = "handling" /\ recv' = [recv EXCEPT ![r] = [pc |-> "waiting", message |-> Cloud!Nothing]]
      /\ UNCHANGED <<events, deliveries, forwarding, open>>
  BY Zenon DEF Cloud!Handle
<1>3. /\ recv' \in [Receivers -> [pc : {"waiting", "handling", "eof", "cancelled"}, message : Message \cup {Cloud!Nothing}]]
      /\ recv'[r].pc = "waiting" /\ \A s \in Receivers : s # r => recv'[s] = recv[s]
  <2>1. [pc |-> "waiting", message |-> Cloud!Nothing] \in [pc : {"waiting", "handling", "eof", "cancelled"}, message : Message \cup {Cloud!Nothing}]
    BY Zenon
  <2> QED BY Zenon, <1>2, <2>1 DEF CloudInv, CloudTypeOK
<1>4. Real(m) /\ m.id \in 1..Len(events) /\ m = Cloud!writeMessage(events[m.id]) /\ events[m.id] \in Event
  <2>1. Real(m)
    BY Zenon, <1>0, <1>2 DEF CloudInv, AllReal
  <2>2. m.id \in 1..Len(events) /\ m = Cloud!writeMessage(events[m.id])
    BY Zenon, <2>1 DEF Real
  <2>3. events \in Seq(Event)
    BY Zenon DEF CloudInv, CloudTypeOK
  <2>4. \A k \in 1..Len(events) : events[k] \in Event
    BY ONLY <2>3
  <2> QED BY Zenon, <2>1, <2>2, <2>4
<1>5. m \in Message /\ Cloud!ReadEncoding(m) = events[m.id]
  BY Zenon, <1>4, CloudMessages, CloudReads
<1>6. \A q : Real(q)' <=> Real(q)
  BY Zenon, <1>2 DEF Real
<1>7. OneHolder'
  <2>1. \A s \in Receivers : recv'[s].pc = "handling" => s # r /\ recv'[s] = recv[s]
    BY Zenon, <1>3
  <2>2. OneHolder /\ deliveries' = deliveries /\ forwarding' = forwarding
    BY Zenon, <1>2 DEF CloudInv
  <2>3. ASSUME NEW s \in Receivers, recv'[s].pc = "handling"
        PROVE  /\ recv'[s].message.id # forwarding'.id
               /\ \A k \in 1..Len(deliveries') : deliveries'[k].id # recv'[s].message.id
               /\ \A u \in Receivers : recv'[u].pc = "handling" /\ recv'[u].message.id = recv'[s].message.id => s = u
    <3>1. recv'[s] = recv[s] /\ recv[s].pc = "handling"
      BY Zenon, <2>1, <2>3
    <3>2. ASSUME NEW u \in Receivers, recv'[u].pc = "handling", recv'[u].message.id = recv'[s].message.id PROVE s = u
      BY Zenon, <2>1, <2>2, <3>1, <3>2 DEF OneHolder
    <3>3. /\ recv[s].message.id # forwarding.id
          /\ \A k \in 1..Len(deliveries) : deliveries[k].id # recv[s].message.id
      BY Zenon, <2>2, <3>1 DEF OneHolder
    <3> QED BY Zenon, <2>2, <3>1, <3>2, <3>3
  <2>4. /\ \A j, k \in 1..Len(deliveries') : deliveries'[j].id = deliveries'[k].id => j = k
        /\ \A k \in 1..Len(deliveries') : deliveries'[k].id # forwarding'.id
    BY Zenon, <2>2 DEF OneHolder
  <2> QED BY Zenon, <2>3, <2>4 DEF OneHolder
<1>8. /\ \A k \in 1..Len(deliveries) : deliveries[k].id # m.id
      /\ forwarding.id # m.id
      /\ \A s \in Receivers : s # r /\ recv[s].pc = "handling" => recv[s].message.id # m.id
  BY Zenon, <1>0, <1>2 DEF CloudInv, OneHolder
<1>9. \A s \in Receivers : recv'[s].pc = "handling" => s # r /\ recv'[s] = recv[s]
  BY Zenon, <1>3
<1>10. CASE ~open
  <2>1. UNCHANGED <<queue, finished, unacked>> /\ received \subseteq received'
    BY Zenon, <1>1, <1>10
  <2>2. CloudTypeOK' /\ StillUnacked'
    BY Zenon, <1>2, <1>3, <1>10, <2>1 DEF CloudInv, CloudTypeOK, StillUnacked
  <2>3. AllReal'
    BY Zenon, <1>2, <1>6, <1>9, <2>1 DEF CloudInv, AllReal
  <2>4. OneSpot'
    BY <1>2, <2>1 DEF CloudInv, OneSpot, Ready
  <2> QED BY Zenon, <1>7, <2>2, <2>3, <2>4 DEF CloudInv
<1>11. CASE open
  <2>1. m.id \in unacked /\ unacked' = unacked \ {m.id}
    BY Zenon, <1>0, <1>1, <1>2, <1>11 DEF CloudInv, StillUnacked
  <2>2. StillUnacked'
    BY <1>2, <1>8, <1>9, <1>11, <2>1 DEF CloudInv, StillUnacked
  <2>3. CASE ~err
    <3>1. queue' = queue /\ finished' = finished \cup {m.id} /\ received' = received \cup {events[m.id]}
      BY Zenon, <1>1, <1>5, <1>11, <2>3 DEF Cloud!Finish
    <3>2. CloudTypeOK'
      BY Zenon, <1>2, <1>3, <3>1 DEF CloudInv, CloudTypeOK
    <3>3. AllReal'
      BY Zenon, <1>2, <1>4, <1>6, <1>9, <2>1, <3>1 DEF CloudInv, AllReal
    <3>4. OneSpot'
      <4>1. Ready' = Ready
        BY Zenon, <3>1 DEF Ready
      <4>2. \A k \in finished' : events'[k] \in received'
        BY <1>2, <3>1 DEF CloudInv, OneSpot
      <4> QED BY <1>2, <2>1, <3>1, <4>1, <4>2 DEF CloudInv, OneSpot
    <3> QED BY Zenon, <1>7, <2>2, <3>2, <3>3, <3>4 DEF CloudInv
  <2>4. CASE err
    <3>1. queue' = <<m>> \o queue /\ finished' = finished /\ received' = received
      BY Zenon, <1>1, <1>11, <2>4 DEF Cloud!Finish
    <3>2. /\ queue \in Seq(Message) /\ Len(queue) \in Nat /\ queue' \in Seq(Message) /\ Len(queue') = Len(queue) + 1
          /\ queue'[1] = m /\ \A k \in 1..Len(queue) : queue'[k + 1] = queue[k]
      BY <1>5, <3>1 DEF CloudInv, CloudTypeOK
    <3>3. \A k \in 1..Len(queue') : k = 1 \/ (k - 1 \in 1..Len(queue) /\ queue'[k] = queue[k - 1])
      BY <3>2
    <3>4. CloudTypeOK'
      BY Zenon, <1>2, <1>3, <3>2 DEF CloudInv, CloudTypeOK
    <3>5. AllReal'
      <4>1. \A k \in 1..Len(queue') : Real(queue[k])'
        BY Zenon, <1>4, <1>6, <3>2, <3>3 DEF CloudInv, AllReal
      <4> QED BY Zenon, <1>2, <1>6, <1>9, <2>1, <3>1, <4>1 DEF CloudInv, AllReal
    <3>6. Ready' = Ready \cup {m.id} /\ m.id \notin Ready
      <4>1. m.id \notin Ready
        BY Zenon, <2>1 DEF CloudInv, OneSpot
      <4>2. \A k \in 1..Len(queue) : queue[k].id \in Ready'
        <5>1. \A k \in 1..Len(queue) : k + 1 \in 1..Len(queue') /\ queue[k] = queue'[k + 1]
          BY <3>2
        <5> QED BY Zenon, <5>1 DEF Ready
      <4>3. m.id \in Ready'
        BY <3>2 DEF Ready
      <4>4. \A k \in 1..Len(queue') : queue'[k].id \in Ready \cup {m.id}
        BY Zenon, <3>2, <3>3 DEF Ready
      <4> QED BY Zenon, <4>1, <4>2, <4>3, <4>4 DEF Ready
    <3>7. \A j, k \in 1..Len(queue') : queue'[j].id = queue'[k].id => j = k
      <4>1. \A k \in 1..Len(queue) : queue[k].id # m.id
        BY Zenon, <3>6 DEF Ready
      <4>2. SUFFICES ASSUME NEW j \in 1..Len(queue'), NEW k \in 1..Len(queue'), queue'[j].id = queue'[k].id PROVE j = k
        BY Zenon
      <4>3. CASE j = 1
        BY Zenon, <3>2, <3>3, <4>1, <4>2, <4>3
      <4>4. CASE k = 1
        BY Zenon, <3>2, <3>3, <4>1, <4>2, <4>4
      <4>5. CASE j # 1 /\ k # 1
        <5>1. /\ j - 1 \in 1..Len(queue) /\ k - 1 \in 1..Len(queue)
              /\ queue'[j] = queue[j - 1] /\ queue'[k] = queue[k - 1]
          BY Zenon, <3>3, <4>5
        <5>2. j - 1 = k - 1
          BY Zenon, <4>2, <5>1 DEF CloudInv, OneSpot
        <5> QED BY <3>2, <5>2
      <4> QED BY Zenon, <4>3, <4>4, <4>5
    <3>8. OneSpot'
      BY <1>2, <2>1, <3>1, <3>6, <3>7 DEF CloudInv, OneSpot
    <3> QED BY Zenon, <1>7, <2>2, <3>4, <3>5, <3>8 DEF CloudInv
  <2> QED BY Zenon, <2>3, <2>4
<1> QED BY Zenon, <1>10, <1>11

\* A close puts what is not finished back into the queue, each once.
LEMMA CloudCloses == ASSUME CloudInv, Cloud!ChannelClose PROVE CloudInv'
<1>1. open' = FALSE /\ deliveries' = <<>> /\ unacked' = {} /\ UNCHANGED <<events, forwarding, recv, finished, received>>
  BY Zenon DEF Cloud!ChannelClose
<1>0. PICK n \in 0..Len(events) : \E order \in [1..n -> unacked] :
        /\ Cloud!Range(order) = unacked /\ \A i, j \in DOMAIN order : i < j => order[i] < order[j]
        /\ queue' = [i \in DOMAIN order |-> Cloud!writeMessage(events[order[i]])] \o queue
  BY Zenon DEF Cloud!ChannelClose
<1>2. PICK order \in [1..n -> unacked] :
        /\ Cloud!Range(order) = unacked /\ \A i, j \in DOMAIN order : i < j => order[i] < order[j]
        /\ queue' = [i \in DOMAIN order |-> Cloud!writeMessage(events[order[i]])] \o queue
  BY Zenon, <1>0
<1>3. n \in Nat /\ DOMAIN order = 1..n /\ \A u \in unacked : \E i \in 1..n : order[i] = u
  BY <1>2 DEF Cloud!Range, CloudInv, CloudTypeOK
<1>4. PICK back : back = [i \in 1..n |-> Cloud!writeMessage(events[order[i]])]
  BY Zenon
<1>5. \A i \in 1..n : order[i] \in unacked /\ order[i] \in 1..Len(events) /\ events[order[i]] \in Event /\ events[order[i]].id = order[i]
  <2>1. \A u \in unacked : u \in 1..Len(events) /\ events[u] \in Event /\ events[u].id = u
    BY DEF CloudInv, CloudTypeOK, AllReal
  <2> QED BY Zenon, <2>1
<1>6. \A i \in 1..n : back[i] = Cloud!writeMessage(events[order[i]]) /\ back[i] \in Message /\ back[i].id = order[i]
  BY Zenon, <1>4, <1>5, CloudMessages
<1>7. \A i \in 1..n : Real(back[i])
  BY Zenon, <1>5, <1>6 DEF Real
<1>8. back \in Seq(Message) /\ Len(back) = n
  BY <1>3, <1>4, <1>6
<1>9. /\ queue \in Seq(Message) /\ Len(queue) \in Nat /\ queue' \in Seq(Message) /\ Len(queue') = n + Len(queue)
      /\ \A k \in 1..n : queue'[k] = back[k]
      /\ \A k \in 1..Len(queue) : queue'[n + k] = queue[k]
  <2>1. queue' = back \o queue
    BY Zenon, <1>2, <1>3, <1>4
  <2>2. queue \in Seq(Message) /\ back \in Seq(Message)
    BY Zenon, <1>8 DEF CloudInv, CloudTypeOK
  <2>3. back \o queue \in Seq(Message) /\ Len(queue) \in Nat /\ Len(back \o queue) = Len(back) + Len(queue)
    BY ONLY <2>2
  <2>4. \A k \in 1..Len(back) : (back \o queue)[k] = back[k]
    BY ONLY <2>2
  <2>5. \A k \in 1..Len(queue) : (back \o queue)[Len(back) + k] = queue[k]
    BY ONLY <2>2
  <2> QED BY ONLY Zenon, <1>8, <2>1, <2>2, <2>3, <2>4, <2>5
<1>10. \A k \in 1..Len(queue') : \/ k \in 1..n /\ queue'[k] = back[k]
                                 \/ k - n \in 1..Len(queue) /\ queue'[k] = queue[k - n]
  <2> SUFFICES ASSUME NEW k \in 1..Len(queue'), k \notin 1..n PROVE k - n \in 1..Len(queue) /\ queue'[k] = queue[k - n]
    BY Zenon, <1>9
  <2>1. k - n \in 1..Len(queue) /\ n + (k - n) = k
    BY <1>3, <1>9
  <2>2. queue'[n + (k - n)] = queue[k - n]
    BY Zenon, <1>9, <2>1
  <2> QED BY Zenon, <2>1, <2>2
<1>11. \A q : Real(q)' <=> Real(q)
  BY Zenon, <1>1 DEF Real
<1>12. CloudTypeOK'
  <2>1. deliveries' \in Seq(Message)
    <3>1. <<>> \in Seq(Message)
      OBVIOUS
    <3> QED BY <1>1, <3>1, Zenon
  <2>2. open' \in BOOLEAN
    BY Zenon, <1>1
  <2> QED BY Zenon, <1>1, <1>9, <2>1, <2>2 DEF CloudInv, CloudTypeOK
<1>13. AllReal'
  <2>1. \A k \in 1..Len(queue') : Real(queue[k])'
    BY Zenon, <1>7, <1>10, <1>11 DEF CloudInv, AllReal
  <2>2. Len(deliveries') = 0
    BY Zenon, <1>1
  <2> QED BY <1>1, <1>11, <2>1, <2>2 DEF CloudInv, AllReal
<1>14. OneHolder' /\ StillUnacked'
  <2>1. Len(deliveries') = 0
    BY Zenon, <1>1
  <2> QED BY <1>1, <2>1 DEF CloudInv, OneHolder, StillUnacked
<1>15. Ready' = Ready \cup unacked
  <2>1. \A k \in 1..Len(queue') : queue'[k].id \in Ready \cup unacked
    BY <1>5, <1>6, <1>10 DEF Ready
  <2>2. \A k \in 1..Len(queue) : n + k \in 1..Len(queue') /\ queue'[n + k] = queue[k]
    BY <1>3, <1>9
  <2>3. \A k \in 1..Len(queue) : queue[k].id \in Ready'
    BY Zenon, <2>2 DEF Ready
  <2>4. ASSUME NEW i \in 1..n PROVE i \in 1..Len(queue') /\ queue'[i].id = order[i]
    <3>1. i \in 1..Len(queue')
      BY <1>3, <1>9
    <3> QED BY Zenon, <1>6, <1>9, <3>1
  <2>5. \A u \in unacked : u \in Ready'
    BY Zenon, <1>3, <2>4 DEF Ready
  <2> QED BY Zenon, <2>1, <2>3, <2>5 DEF Ready
<1>16. \A j, k \in 1..Len(queue') : queue'[j].id = queue'[k].id => j = k
  <2>1. ASSUME NEW i \in 1..n, NEW j \in 1..n, order[i] = order[j] PROVE i = j
    <3>1. PICK x \in Nat : x = order[i] /\ x = order[j]
      BY <1>5, <2>1
    <3>2. (i < j => order[i] < order[j]) /\ (j < i => order[j] < order[i])
      BY Zenon, <1>2, <1>3
    <3>3. n \in Nat
      BY Zenon, <1>3
    <3> QED BY ONLY <3>1, <3>2, <3>3, x \in Nat, i \in 1..n, j \in 1..n
  <2>2. \A i \in 1..n, k \in 1..Len(queue) : order[i] # queue[k].id
    BY Zenon, <1>5 DEF CloudInv, OneSpot, Ready
  <2>3. \A i, j \in 1..n : queue'[i].id = queue'[j].id => i = j
    BY <1>6, <1>9, <2>1
  <2>4. SUFFICES ASSUME NEW j \in 1..Len(queue'), NEW k \in 1..Len(queue'), queue'[j].id = queue'[k].id PROVE j = k
    BY Zenon
  <2>5. CASE j \in 1..n /\ k \in 1..n
    BY Zenon, <2>3, <2>4, <2>5
  <2>6. CASE j - n \in 1..Len(queue) /\ k - n \in 1..Len(queue) /\ queue'[j] = queue[j - n] /\ queue'[k] = queue[k - n]
    <3>1. j - n = k - n
      BY Zenon, <2>4, <2>6 DEF CloudInv, OneSpot
    <3> QED BY <1>3, <3>1
  <2>7. CASE j \in 1..n /\ k - n \in 1..Len(queue) /\ queue'[j] = back[j] /\ queue'[k] = queue[k - n]
    BY <1>6, <2>2, <2>4, <2>7
  <2>8. CASE k \in 1..n /\ j - n \in 1..Len(queue) /\ queue'[k] = back[k] /\ queue'[j] = queue[j - n]
    BY <1>6, <2>2, <2>4, <2>8
  <2> QED BY Zenon, <1>10, <2>5, <2>6, <2>7, <2>8
<1>17. OneSpot'
  BY Zenon, <1>1, <1>15, <1>16 DEF CloudInv, OneSpot
<1> QED BY Zenon, <1>12, <1>13, <1>14, <1>17 DEF CloudInv

\* Every step keeps the invariant.
LEMMA CloudStep == ASSUME CloudConstants, CloudInv, [Cloud!Next]_(Cloud!vars) PROVE CloudInv'
<1>1. CASE Cloud!OpenInbound \/ Cloud!End \/ UNCHANGED Cloud!vars
  <2>1. UNCHANGED <<events, queue, unacked, deliveries, forwarding, open, recv, finished, received>>
    BY Zenon, <1>1 DEF Cloud!OpenInbound, Cloud!End, Cloud!vars
  <2>2. CloudTypeOK' /\ OneHolder' /\ StillUnacked'
    BY Zenon, <2>1 DEF CloudInv, CloudTypeOK, OneHolder, StillUnacked
  <2>3. AllReal'
    BY Zenon, <2>1 DEF CloudInv, AllReal, Real
  <2> QED BY Zenon, <2>1, <2>2, <2>3, CloudSameBroker DEF CloudInv
<1>2. ASSUME NEW r \in Receivers, Cloud!Receive(r) \/ Cloud!Cancel(r) \/ Cloud!Handle(r) PROVE CloudInv'
  BY Zenon, <1>2, CloudReceives, CloudHandles
<1> QED BY Zenon, <1>1, <1>2, CloudSends, CloudDelivers, CloudTakes, CloudCloses DEF Cloud!Next

\* CloudEvents: an event is in one place at the broker, and handled when acknowledged.
NothingLost == Cloud!NothingLost

\* cloudevents/protocol/amqp091: an event that was sent is ready, delivered or
\* acknowledged, in one of these places only, and is acknowledged only when a
\* handler has had the very event without an error, through errors of the
\* handlers and a close of the channel, for any number of receivers and events.
THEOREM CloudLosesNothing == ASSUME CloudConstants PROVE Cloud!Spec => []NothingLost
<1>1. Cloud!Init => CloudInv
  BY Zenon, CloudInit
<1>2. CloudInv /\ [Cloud!Next]_(Cloud!vars) => CloudInv'
  BY Zenon, CloudStep
<1>3. CloudInv => Cloud!NothingLost
  <2> SUFFICES ASSUME CloudInv, NEW k \in 1..Len(events)
               PROVE  /\ \E place \in DOMAIN Cloud!Places : \A p \in DOMAIN Cloud!Places : k \in Cloud!Places[p] <=> p = place
                      /\ k \in finished => events[k] \in received
    BY Zenon DEF Cloud!NothingLost
  <2>1. k \in finished => events[k] \in received
    BY Zenon DEF CloudInv, OneSpot
  <2>2. /\ DOMAIN Cloud!Places = {"ready", "unacked", "acked"}
        /\ Cloud!Places["ready"] = Ready /\ Cloud!Places["unacked"] = unacked /\ Cloud!Places["acked"] = finished
    BY Zenon DEF Cloud!Places, Ready
  <2>3. k \in Ready \cup unacked \cup finished /\ Ready \cap unacked = {} /\ Ready \cap finished = {} /\ unacked \cap finished = {}
    BY Zenon DEF CloudInv, OneSpot
  <2> HIDE DEF Cloud!Places
  <2>4. CASE k \in Ready
    BY Zenon, <2>1, <2>2, <2>3, <2>4
  <2>5. CASE k \in unacked
    BY Zenon, <2>1, <2>2, <2>3, <2>5
  <2>6. CASE k \in finished
    BY Zenon, <2>1, <2>2, <2>3, <2>6
  <2> QED BY Zenon, <2>3, <2>4, <2>5, <2>6
<1> QED BY <1>1, <1>2, <1>3, PTL DEF Cloud!Spec, NothingLost

-----------------------------------------------------------------------------
(* Webhook *)

CONSTANTS IDs, Tolerance, Behind, MaxHookTime, MaxSends
VARIABLES time, signer, verifier, wire, verdict, sends
Hook == INSTANCE Webhook WITH MaxTime <- MaxHookTime, now <- time

\* Clocks are integers; the consumer's may be behind or ahead.
HookConstants == Tolerance \in Nat /\ Behind \in Int

\* The secrets a side holds, before, during and after the rotation.
Old == <<"old">>
Both == <<"new", "old">>
New == <<"new">>
Secrets == {Old, Both, New}

\* Request r was signed with the secrets s, over its exact payload.
SignedBy(r, s) == r.signatures = [i \in DOMAIN s |-> <<s[i], r.of, r.timestamp, "exact">>]

\* Request r carries its own ID, and the verifier still knows one of the secrets it was
\* signed with unless it is too old.
Acceptable(r) ==
    /\ r.id = <<r.of>> /\ r.timestamp \in Int
    /\ \E s \in Secrets : /\ SignedBy(r, s)
                          /\ s = New => verifier # Old
                          /\ s = Old /\ verifier = New => time - Behind - r.timestamp > Tolerance

\* The fields of a request.
RequestFields == {"id", "of", "timestamp", "payload", "signatures", "n"}

\* The inductive invariant.
HookInv ==
    /\ time \in Int /\ signer \in Secrets /\ verifier \in Secrets
    /\ signer = New => verifier # Old
    /\ verifier = New => signer # Old
    /\ \A r \in wire : DOMAIN r = RequestFields /\ Acceptable(r)
    /\ Hook!RotationRefusesNothing

\* Two sides that hold lists of the rotation differ.
LEMMA SecretLists ==
    /\ Old # Both /\ Old # New /\ Both # New
    /\ Old[1] = "old" /\ New[1] = "new" /\ Both[1] = "new" /\ Both[2] = "old"
    /\ DOMAIN Old = {1} /\ DOMAIN New = {1} /\ DOMAIN Both = {1, 2}
<1>1. Len(Old) = 1 /\ Len(New) = 1 /\ Len(Both) = 2
  BY Zenon DEF Old, New, Both
<1>2. Old[1] = "old" /\ New[1] = "new" /\ Both[1] = "new" /\ Both[2] = "old"
  BY Zenon DEF Old, New, Both
<1>3. DOMAIN Old = {1} /\ DOMAIN New = {1} /\ DOMAIN Both = {1, 2}
  BY DEF Old, New, Both
<1> QED BY Zenon, <1>1, <1>2, <1>3

\* Both sides have the old secret and no request is on its way.
LEMMA HookInit == Hook!Init => HookInv
BY DEF Hook!Init, HookInv, Secrets, Old, Hook!RotationRefusesNothing, Hook!None, New

\* A request in the tolerance with its exact payload is accepted.
LEMMA HookAccepts ==
    ASSUME HookConstants, HookInv, NEW r \in wire, r.payload = "exact", Hook!Fresh(r)
    PROVE  Hook!Verify(r) = "ok"
<1>1. Acceptable(r) /\ verifier \in Secrets /\ time \in Int
  BY Zenon DEF HookInv
<1>2. time - Behind - r.timestamp <= Tolerance
  BY Zenon DEF Hook!Fresh
<1>3. PICK s \in Secrets : SignedBy(r, s) /\ (s = New => verifier # Old) /\ ~(s = Old /\ verifier = New)
  BY <1>1, <1>2 DEF Acceptable, HookConstants
<1>4. PICK i \in DOMAIN verifier, j \in DOMAIN s : verifier[i] = s[j]
  BY <1>1, <1>3, SecretLists DEF Secrets
<1>5. j \in DOMAIN r.signatures /\ r.signatures[j] = <<s[j], r.of, r.timestamp, "exact">>
  BY Zenon, <1>3, <1>4 DEF SignedBy
<1>6. r.id[1] = r.of /\ Len(r.id) = 1
  BY <1>1 DEF Acceptable
<1>7. Hook!Matched(r)
  BY Zenon, <1>4, <1>5, <1>6 DEF Hook!Matched, Hook!signDigest
<1> QED BY Zenon, <1>6, <1>7 DEF Hook!Verify

\* Every step keeps the invariant.
LEMMA HookStep == ASSUME HookConstants PROVE HookInv /\ [Hook!Next]_(Hook!vars) => HookInv'
<1> SUFFICES ASSUME HookInv, [Hook!Next]_(Hook!vars) PROVE HookInv'
  BY Zenon
<1>1. CASE UNCHANGED Hook!vars
  BY Zenon, <1>1 DEF Hook!vars, HookInv, Acceptable, SignedBy, Hook!RotationRefusesNothing
<1>2. ASSUME NEW id \in IDs, Hook!Send(id) PROVE HookInv'
  <2>1. PICK header \in Hook!CallerHeaders :
          wire' = wire \cup {[id |-> Hook!Overwrite(id, header), of |-> id, timestamp |-> time, payload |-> "exact",
                              signatures |-> Hook!Sign(id, time, "exact"), n |-> sends]}
    BY Zenon, <1>2 DEF Hook!Send
  <2>2. UNCHANGED <<time, signer, verifier, verdict>>
    BY Zenon, <1>2 DEF Hook!Send
  <2> DEFINE q == [id |-> Hook!Overwrite(id, header), of |-> id, timestamp |-> time, payload |-> "exact",
                   signatures |-> Hook!Sign(id, time, "exact"), n |-> sends]
  <2>3. DOMAIN q = RequestFields /\ q.id = <<q.of>> /\ q.timestamp = time /\ q.of = id
    BY Zenon DEF RequestFields, Hook!Overwrite
  <2>4. SignedBy(q, signer)
    BY Zenon DEF SignedBy, Hook!Sign, Hook!signDigest
  <2>5. Acceptable(q)
    BY Zenon, <2>3, <2>4 DEF Acceptable, HookInv
  <2>6. \A r \in wire' : r \in wire \/ r = q
    BY Zenon, <2>1
  <2>7. \A r \in wire' : DOMAIN r = RequestFields /\ Acceptable(r)
    BY Zenon, <2>3, <2>5, <2>6 DEF HookInv
  <2>8. \A r \in wire' : DOMAIN r = RequestFields /\ Acceptable(r)'
    BY Zenon, <2>2, <2>7 DEF Acceptable, SignedBy
  <2> QED BY Zenon, <2>2, <2>8 DEF HookInv, Hook!RotationRefusesNothing
<1>3. ASSUME NEW r \in wire, Hook!Arrive(r) PROVE HookInv'
  <2>1. verdict' = [request |-> r, at |-> time, error |-> Hook!Verify(r)] /\ UNCHANGED <<time, signer, verifier, wire>>
    BY Zenon, <1>3 DEF Hook!Arrive
  <2>2. verdict'.request = r /\ verdict'.at = time /\ verdict'.error = Hook!Verify(r)
    BY Zenon, <2>1
  <2>3. r.payload = "exact" /\ Hook!Verify(r) # "ok" => time - Behind - r.timestamp \notin -Tolerance..Tolerance
    BY HookAccepts DEF Hook!Fresh, HookInv, Acceptable, HookConstants
  <2>4. Hook!RotationRefusesNothing'
    BY Zenon, <2>2, <2>3 DEF Hook!RotationRefusesNothing
  <2> QED BY Zenon, <2>1, <2>4 DEF HookInv, Acceptable, SignedBy
<1>4. ASSUME NEW r \in wire, Hook!Reencode(r) \/ Hook!Lose(r) PROVE HookInv'
  <2>1. UNCHANGED <<time, signer, verifier, verdict>>
    BY Zenon, <1>4 DEF Hook!Reencode, Hook!Lose
  <2> DEFINE q == [r EXCEPT !.payload = "reencoded"]
  <2>2. \A p \in wire' : p \in wire \/ p = q
    BY Zenon, <1>4 DEF Hook!Reencode, Hook!Lose
  <2>3. DOMAIN r = RequestFields /\ Acceptable(r)
    BY Zenon DEF HookInv
  <2>4. DOMAIN q = RequestFields /\ q.id = r.id /\ q.of = r.of /\ q.timestamp = r.timestamp /\ q.signatures = r.signatures
    BY Zenon, <2>3 DEF RequestFields
  <2>5. Acceptable(q)
    BY Zenon, <2>3, <2>4 DEF Acceptable, SignedBy
  <2>6. \A p \in wire' : DOMAIN p = RequestFields /\ Acceptable(p)
    BY Zenon, <2>2, <2>4, <2>5 DEF HookInv
  <2>7. \A p \in wire' : DOMAIN p = RequestFields /\ Acceptable(p)'
    BY Zenon, <2>1, <2>6 DEF Acceptable, SignedBy
  <2> QED BY Zenon, <2>1, <2>7 DEF HookInv, Hook!RotationRefusesNothing
<1>5. CASE Hook!Tick
  <2>1. time \in Int /\ time' = time + 1 /\ UNCHANGED <<signer, verifier, wire, verdict>>
    BY Zenon, <1>5 DEF Hook!Tick, HookInv
  <2>2. ASSUME NEW r \in wire PROVE Acceptable(r)'
    <3>1. PICK s \in Secrets : SignedBy(r, s) /\ (s = New => verifier # Old)
                               /\ (s = Old /\ verifier = New => time - Behind - r.timestamp > Tolerance)
      BY Zenon, <2>2 DEF HookInv, Acceptable
    <3>2. r.id = <<r.of>> /\ r.timestamp \in Int
      BY Zenon, <2>2 DEF HookInv, Acceptable
    <3>3. time - Behind - r.timestamp > Tolerance => time' - Behind - r.timestamp > Tolerance
      BY <2>1, <3>2 DEF HookConstants
    <3> QED BY Zenon, <2>1, <3>1, <3>2, <3>3 DEF Acceptable, SignedBy
  <2> QED BY <2>1, <2>2 DEF HookInv, Hook!RotationRefusesNothing
<1>6. CASE Hook!RotateSigner
  <2>1. UNCHANGED <<time, verifier, wire, verdict>>
    BY Zenon, <1>6 DEF Hook!RotateSigner
  <2>2. \/ signer = Old /\ signer' = Both
        \/ signer = Both /\ verifier # Old /\ signer' = New
    BY Zenon, <1>6 DEF Hook!RotateSigner, Old, Both, New
  <2>3. signer' \in Secrets /\ (signer' = New => verifier # Old) /\ (verifier = New => signer' # Old)
    BY Zenon, <2>2, SecretLists DEF HookInv, Secrets
  <2>4. \A r \in wire : Acceptable(r)'
    BY Zenon, <2>1 DEF HookInv, Acceptable, SignedBy
  <2> QED BY Zenon, <2>1, <2>3, <2>4 DEF HookInv, Hook!RotationRefusesNothing
<1>7. CASE Hook!RotateVerifier
  <2>1. UNCHANGED <<time, signer, wire, verdict>>
    BY Zenon, <1>7 DEF Hook!RotateVerifier
  <2>2. \/ verifier = Old /\ verifier' = Both
        \/ /\ verifier = Both /\ signer # Old /\ verifier' = New
           /\ \A r \in wire : Len(r.signatures) = 2 \/ r.signatures[1][1] = "new" \/ time - Behind - r.timestamp > Tolerance
    BY Zenon, <1>7 DEF Hook!RotateVerifier, Old, Both, New
  <2>3. verifier' \in Secrets /\ (signer = New => verifier' # Old) /\ (verifier' = New => signer # Old) /\ verifier' # Old
    BY Zenon, <2>2, SecretLists DEF HookInv, Secrets
  <2>4. ASSUME NEW r \in wire PROVE Acceptable(r)'
    <3>1. PICK s \in Secrets : SignedBy(r, s) /\ (s = Old /\ verifier = New => time - Behind - r.timestamp > Tolerance)
      BY Zenon, <2>4 DEF HookInv, Acceptable
    <3>2. s = Old => Len(r.signatures) = 1 /\ r.signatures[1][1] = "old"
      <4>1. ASSUME s = Old PROVE r.signatures = [i \in 1..1 |-> <<Old[i], r.of, r.timestamp, "exact">>]
        BY <3>1, <4>1, SecretLists DEF SignedBy
      <4> QED BY <4>1, SecretLists
    <3>3. s = Old /\ verifier' = New => time - Behind - r.timestamp > Tolerance
      BY Zenon, <2>2, <3>1, <3>2, SecretLists
    <3> QED BY Zenon, <2>1, <2>3, <2>4, <3>1, <3>3 DEF HookInv, Acceptable, SignedBy
  <2> QED BY Zenon, <2>1, <2>3, <2>4 DEF HookInv, Hook!RotationRefusesNothing
<1> QED BY Zenon, <1>1, <1>2, <1>3, <1>4, <1>5, <1>6, <1>7 DEF Hook!Next

\* Webhook: an exact and timely message is accepted throughout a rotation.
RotationRefusesNothing == Hook!RotationRefusesNothing

\* webhook: a request that is signed over its payload and arrives in time is accepted
\* throughout a rotation of the secrets, for every tolerance and offset of the clocks.
THEOREM RotationIsSafe == ASSUME HookConstants PROVE Hook!Spec => []RotationRefusesNothing
<1>1. Hook!Init => HookInv
  BY Zenon, HookInit
<1>2. HookInv /\ [Hook!Next]_(Hook!vars) => HookInv'
  BY Zenon, HookStep
<1>3. HookInv => Hook!RotationRefusesNothing
  BY Zenon DEF HookInv
<1> QED BY <1>1, <1>2, <1>3, PTL DEF Hook!Spec, RotationRefusesNothing

=============================================================================
