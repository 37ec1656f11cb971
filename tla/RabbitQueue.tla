----------------------------- MODULE RabbitQueue -----------------------------
(***************************************************************************)
(* The RabbitMQ queue adapter, queue/adapter/rabbitmq, with the workers    *)
(* that use it.  A task is published to the ready queue, to a delay queue  *)
(* whose messages expire into the ready queue, or to the dead-letter queue.*)
(* A publish is over when the broker's confirm arrives; the caller may     *)
(* give up first.  Retry and DeadLetter publish, and then acknowledge the  *)
(* delivery on the consumer's channel, which may have been closed since:   *)
(* the broker then delivers the message again.                             *)
(*                                                                         *)
(* Queues are durable.  A worker that meets an error ends, closes its      *)
(* consumer, and is run again.                                             *)
(***************************************************************************)
EXTENDS Integers, Sequences, FiniteSets, TaskOutcome

CONSTANTS
    Tasks,             \* what messages carry: the Task.ID of a task, or
    Malformed,         \* ... something that does not decode, which another program has queued
    Consumers,         \* worker loops, each with a channel of its own
    Prefetch,          \* config.prefetch, 0 for no limit
    PublisherConfirm,  \* config.publisherConfirm
    MaxInt,            \* math.MaxInt
    MaxFaults,         \* bound on crashes, lost channels and failed publishes
    NoOne              \* no consumer

VARIABLES
    msgs,      \* every message ever published, in order
    producer,  \* where the Enqueue of each task is
    pc,        \* where each worker loop is
    open,      \* whether its channel is open
    hand,      \* the message it handles, 0 if none
    attempt,   \* Task.Attempt of that delivery
    goal,      \* the settlement its handler's outcome asks for
    copy,      \* the message it, or the producer of a task, is publishing
    handled,   \* history: tasks whose handler succeeded or discarded them
    faults     \* faults so far

loopVars == <<pc, open, hand, attempt, goal>>
vars == <<msgs, producer, loopVars, copy, handled, faults>>

Message == 1..Len(msgs)

Init ==
    /\ \E order \in [1..Cardinality(Malformed) -> Malformed] :
          /\ {order[i] : i \in DOMAIN order} = Malformed
          /\ msgs = [i \in DOMAIN order |->
                       [task |-> order[i], base |-> 0, target |-> "ready", place |-> "ready", to |-> NoOne]]
    /\ producer = [t \in Tasks |-> "new"]
    /\ pc = [c \in Consumers |-> "closed"]
    /\ open = [c \in Consumers |-> FALSE]
    /\ hand = [c \in Consumers |-> 0]
    /\ attempt = [c \in Consumers |-> 0]
    /\ goal = [c \in Consumers |-> "none"]
    /\ copy = [a \in Consumers \cup Tasks |-> 0]
    /\ handled = {}
    /\ faults = 0

Fault == faults < MaxFaults /\ faults' = faults + 1

-----------------------------------------------------------------------------
(* Publishing *)

\* PublishWithContext, for the call of a; a goes on to wait for the confirm.
Publish(a, t, base, target) ==
    /\ msgs' = Append(msgs, [task |-> t, base |-> base, target |-> target,
                             place |-> "sent", to |-> NoOne])
    /\ copy' = [copy EXCEPT ![a] = Len(msgs) + 1]

\* The broker queues the message, or refuses it with a nack, or the connection
\* takes it down.
BrokerTake(i) ==
    /\ msgs[i].place = "sent"
    /\ msgs' = [msgs EXCEPT ![i].place = msgs[i].target]
    /\ UNCHANGED <<producer, loopVars, copy, handled, faults>>

BrokerRefuse(i) ==
    /\ msgs[i].place = "sent"
    /\ Fault
    /\ msgs' = [msgs EXCEPT ![i].place = "refused"]
    /\ UNCHANGED <<producer, loopVars, copy, handled>>

\* publish and withChannel return nil: the confirm is an ack.  Without publisher
\* confirms only the answer to the channel's Close was awaited, which comes
\* after the publish was dealt with, in whatever way.
Confirmed(a) ==
    msgs[copy[a]].place \notin IF PublisherConfirm THEN {"sent", "refused"} ELSE {"sent"}

\* ... or an error: a nack, the context is done, the channel was closed.
GivesUp(a) ==
    \/ PublisherConfirm /\ msgs[copy[a]].place = "refused" /\ UNCHANGED faults
    \/ msgs[copy[a]].place # "refused" /\ Fault

\* Queue.Enqueue, called once for every task.
Enqueue(t, target) ==
    /\ producer[t] = "new"
    /\ Publish(t, t, 0, target)
    /\ producer' = [producer EXCEPT ![t] = "confirm"]
    /\ UNCHANGED <<loopVars, handled, faults>>

Enqueued(t) ==
    /\ producer[t] = "confirm"
    /\ \/ Confirmed(t) /\ producer' = [producer EXCEPT ![t] = "ok"] /\ UNCHANGED faults
       \/ GivesUp(t) /\ producer' = [producer EXCEPT ![t] = "error"]
    /\ UNCHANGED <<msgs, loopVars, copy, handled>>

-----------------------------------------------------------------------------
(* The broker *)

\* x-message-ttl: a message leaves its delay queue for the ready queue.
Expire(i) ==
    /\ msgs[i].place = "delay"
    /\ msgs' = [msgs EXCEPT ![i].place = "ready"]
    /\ UNCHANGED <<producer, loopVars, copy, handled, faults>>

\* What was pushed to c and not acknowledged, in c's deliveries or in its hand.
Unacked(c) == {i \in Message : msgs[i].place = "out" /\ msgs[i].to = c}

Deliver(c, i) ==
    /\ open[c]
    /\ msgs[i].place = "ready"
    /\ Prefetch = 0 \/ Cardinality(Unacked(c)) < Prefetch
    /\ msgs' = [msgs EXCEPT ![i].place = "out", ![i].to = c]
    /\ UNCHANGED <<producer, loopVars, copy, handled, faults>>

\* When c's channel is closed, what c has not acknowledged is queued again.
Requeued(c, ms) ==
    [i \in DOMAIN ms |-> IF ms[i].place = "out" /\ ms[i].to = c
                           THEN [ms[i] EXCEPT !.place = "ready", !.to = NoOne] ELSE ms[i]]

\* The broker closes c's channel under it (a broker restart, a delivery that was
\* not acknowledged in time).  The handler does not notice.
ChannelLost(c) ==
    /\ open[c]
    /\ Fault
    /\ open' = [open EXCEPT ![c] = FALSE]
    /\ msgs' = Requeued(c, msgs)
    /\ UNCHANGED <<producer, pc, hand, attempt, goal, copy, handled>>

-----------------------------------------------------------------------------
(* Consumers *)

Goto(c, label) == pc' = [pc EXCEPT ![c] = label]

\* The loop is done with its delivery.
Drop(c) ==
    /\ hand' = [hand EXCEPT ![c] = 0]
    /\ attempt' = [attempt EXCEPT ![c] = 0]
    /\ goal' = [goal EXCEPT ![c] = "none"]
    /\ copy' = [copy EXCEPT ![c] = 0]

\* NewConsumer
NewConsumer(c) ==
    /\ pc[c] = "closed"
    /\ Goto(c, "idle")
    /\ open' = [open EXCEPT ![c] = TRUE]
    /\ UNCHANGED <<msgs, producer, hand, attempt, goal, copy, handled, faults>>

\* The worker ends and its consumer is closed; ms are the messages by then.
Shut(c, ms) ==
    /\ Goto(c, "closed")
    /\ open' = [open EXCEPT ![c] = FALSE]
    /\ Drop(c)
    /\ msgs' = Requeued(c, ms)

\* nextAttempt; a negative attempt does not occur in what the queue publishes.
NextAttempt(n) == IF n = MaxInt THEN MaxInt ELSE n + 1

Receive(c, i) ==
    /\ pc[c] = "idle"
    /\ i \in Unacked(c)
    /\ msgs[i].task \notin Malformed
    /\ hand' = [hand EXCEPT ![c] = i]
    /\ attempt' = [attempt EXCEPT ![c] = NextAttempt(msgs[i].base)]
    /\ Goto(c, "handle")
    /\ UNCHANGED <<msgs, producer, open, goal, copy, handled, faults>>

\* deliveryFromAMQP fails: Reject(false) drops the message, and the error that
\* Receive returns ends the worker.
ReceiveMalformed(c, i) ==
    /\ pc[c] = "idle"
    /\ i \in Unacked(c)
    /\ msgs[i].task \in Malformed
    /\ Shut(c, [msgs EXCEPT ![i].place = "gone"])
    /\ UNCHANGED <<producer, handled, faults>>

\* ErrConsumerClosed
ReceiveClosed(c) ==
    /\ pc[c] = "idle"
    /\ ~open[c]
    /\ Shut(c, msgs)
    /\ UNCHANGED <<producer, handled, faults>>

\* The handler returns.
Handle(c, outcome) ==
    LET s == Decide(attempt[c], outcome) IN
    /\ pc[c] = "handle"
    /\ goal' = [goal EXCEPT ![c] = s]
    /\ handled' = IF s = "ack" THEN handled \cup {msgs[hand[c]].task} ELSE handled
    /\ Goto(c, IF s = "ack" THEN "ack" ELSE "publish")
    /\ UNCHANGED <<msgs, producer, open, hand, attempt, copy, faults>>

\* Retry and DeadLetter publish the task, with the attempt of this delivery.
SettlePublish(c, isDelayed) ==
    /\ pc[c] = "publish"
    /\ Publish(c, msgs[hand[c]].task, attempt[c],
               IF goal[c] = "dead" THEN "dead" ELSE IF isDelayed THEN "delay" ELSE "ready")
    /\ Goto(c, "confirm")
    /\ UNCHANGED <<producer, open, hand, attempt, goal, handled, faults>>

SettleConfirmed(c) ==
    /\ pc[c] = "confirm"
    /\ Confirmed(c)
    /\ Goto(c, "ack")
    /\ UNCHANGED <<msgs, producer, open, hand, attempt, goal, copy, handled, faults>>

\* Mutant: the error of publish is dropped and the delivery acknowledged.
SettleFailedAck(c) ==
    /\ pc[c] = "confirm"
    /\ GivesUp(c)
    /\ Goto(c, "ack")
    /\ UNCHANGED <<msgs, producer, open, hand, attempt, goal, copy, handled>>

\* The error of publish ends the worker; the delivery is not acknowledged.
SettleFailed(c) ==
    /\ pc[c] = "confirm"
    /\ GivesUp(c)
    /\ Shut(c, msgs)
    /\ UNCHANGED <<producer, handled>>

Ack(c) ==
    /\ pc[c] = "ack"
    /\ open[c]
    /\ msgs' = [msgs EXCEPT ![hand[c]].place = "gone"]
    /\ Drop(c)
    /\ Goto(c, "idle")
    /\ UNCHANGED <<producer, open, handled, faults>>

\* Ack on a closed channel fails.
AckClosed(c) ==
    /\ pc[c] = "ack"
    /\ ~open[c]
    /\ Shut(c, msgs)
    /\ UNCHANGED <<producer, handled, faults>>

\* The process dies, or its settlement context expires.
Crash(c) ==
    /\ pc[c] # "closed"
    /\ Fault
    /\ Shut(c, msgs)
    /\ UNCHANGED <<producer, handled>>

-----------------------------------------------------------------------------
BrokerStep(i) == BrokerTake(i) \/ Expire(i) \/ \E c \in Consumers : Deliver(c, i)

ConsumerStep(c) ==
    \/ NewConsumer(c) \/ ReceiveClosed(c)
    \/ \E i \in Message : Receive(c, i) \/ ReceiveMalformed(c, i)
    \/ \E outcome \in Outcome : Handle(c, outcome)
    \/ \E isDelayed \in BOOLEAN : SettlePublish(c, isDelayed)
    \/ SettleConfirmed(c) \/ SettleFailed(c) \/ Ack(c) \/ AckClosed(c)

Next ==
    \/ \E t \in Tasks : Enqueued(t) \/ \E target \in {"ready", "delay"} : Enqueue(t, target)
    \/ \E i \in Message : BrokerStep(i) \/ BrokerRefuse(i)
    \/ \E c \in Consumers : ConsumerStep(c) \/ Crash(c) \/ ChannelLost(c)

Spec == Init /\ [][Next]_vars

-----------------------------------------------------------------------------
(* Properties *)

InBroker == {i \in Message : msgs[i].place \in {"ready", "delay", "out"}}

Live == {msgs[i].task : i \in InBroker} \ Malformed

Dead == {msgs[i].task : i \in {j \in Message : msgs[j].place = "dead"}}

Finished == handled \cup Dead

ALO == INSTANCE AtLeastOnce WITH
        live <- Live, finished <- Finished

\* The adapter implements the queue's promise (publish, Retry, DeadLetter, Ack).
AtLeastOnceDelivery == ALO!Spec

=============================================================================
