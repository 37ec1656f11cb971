----------------------------- MODULE CloudEvents -----------------------------
(***************************************************************************)
(* cloudevents/protocol/amqp091: Send writes an event into a message and   *)
(* publishes it; OpenInbound starts a goroutine that hands the deliveries  *)
(* of the consumer over, one at a time, to the callers of Receive, which   *)
(* finish them with Ack or, after an error, with Nack and requeue. The     *)
(* queue, the consumer and the channel, which may close at any time, are   *)
(* those of RabbitMQ and its library. An event has an id, a content type   *)
(* and an extension, either of which may be absent.                        *)
(***************************************************************************)
EXTENDS Naturals, Sequences, Functions

CONSTANTS
    Receivers,     \* the goroutines that call Receive in a loop
    ContentTypes,  \* the content types of events, "none" for no content type
    MaxEvents,     \* bound of the events sent
    MaxFaults      \* bound of the errors: of encoding, publishing, handling, and the close

VARIABLES
    events,      \* the events given to Send
    queue,       \* the broker's messages that are ready, by number and content
    unacked,     \* the numbers delivered and not yet finished
    deliveries,  \* the consumer's channel of the library
    hand,        \* the delivery in the hand of the forwarding goroutine
    forwarder,   \* "off", "on" or "ended": incoming is closed
    open,        \* the channel to the broker is open
    recv,        \* the receivers: "waiting", a message, "eof" or "cancelled"
    acked, handled,
    faults

vars == <<events, queue, unacked, deliveries, hand, forwarder, open, recv, acked, handled, faults>>

Nothing == [id |-> 0]

Init ==
    /\ events = <<>> /\ queue = <<>> /\ unacked = {} /\ deliveries = <<>> /\ hand = Nothing
    /\ forwarder = "off" /\ open = TRUE /\ acked = {} /\ handled = {} /\ faults = 0
    /\ recv = [r \in Receivers |-> [pc |-> "waiting", message |-> Nothing]]

Fault == faults < MaxFaults /\ faults' = faults + 1

-----------------------------------------------------------------------------
(* Encoding *)

SetStructuredEvent(e) == [id |-> e.id, contentType |-> "cloudevents", headers |-> <<>>, body |-> e]

SetExtension(headers, e) == IF e.ext = "none" THEN headers ELSE Append(headers, <<"ce-ext", e.ext>>)

\* The content type is a property of the message, the other attributes are headers.
SetAttributes(e) ==
    [id |-> e.id, contentType |-> e.datacontenttype, headers |-> SetExtension(<<<<"ce-id", e.id>>>>, e), body |-> e.id]

writeMessage(e) == IF e.structured THEN SetStructuredEvent(e) ELSE SetAttributes(e)

\* The body is the whole event.
ReadStructured(m) == m.body

\* The headers with the prefix are attributes and extensions.
ReadBinary(m) ==
    [id |-> m.headers[1][2], structured |-> FALSE, datacontenttype |-> "none",
     ext |-> IF Len(m.headers) > 1 THEN m.headers[2][2] ELSE "none"]

\* format.Lookup knows the content type of the structured mode.
ReadEncoding(m) == IF m.contentType = "cloudevents" THEN ReadStructured(m) ELSE ReadBinary(m)

-----------------------------------------------------------------------------
(* Sender *)

Send(structured, contentType, ext) ==
    /\ Len(events) < MaxEvents
    /\ LET e == [id |-> Len(events) + 1, structured |-> structured, datacontenttype |-> contentType, ext |-> ext]
       IN \/ /\ open /\ events' = Append(events, e) /\ queue' = Append(queue, writeMessage(e)) /\ UNCHANGED faults
          \* writeMessage or the publishing fails, and so does Send.
          \/ Fault /\ UNCHANGED <<events, queue>>
    /\ UNCHANGED <<unacked, deliveries, hand, forwarder, open, recv, acked, handled>>

-----------------------------------------------------------------------------
(* Receiver *)

OpenInbound ==
    /\ forwarder = "off" /\ open /\ forwarder' = "on"
    /\ UNCHANGED <<events, queue, unacked, deliveries, hand, open, recv, acked, handled, faults>>

\* The broker delivers to the consumer, without a limit of prefetch.
Deliver ==
    /\ open /\ forwarder = "on" /\ queue # <<>>
    /\ deliveries' = Append(deliveries, Head(queue)) /\ queue' = Tail(queue)
    /\ unacked' = unacked \cup {Head(queue).id}
    /\ UNCHANGED <<events, hand, forwarder, open, recv, acked, handled, faults>>

\* The loop of the goroutine takes the next delivery.
Take ==
    /\ forwarder = "on" /\ hand = Nothing /\ deliveries # <<>>
    /\ hand' = Head(deliveries) /\ deliveries' = Tail(deliveries)
    /\ UNCHANGED <<events, queue, unacked, forwarder, open, recv, acked, handled, faults>>

\* The deferred close of incoming.
Close == "ended"

\* The deliveries are closed and the goroutine returns.
End ==
    /\ forwarder = "on" /\ ~open /\ hand = Nothing /\ deliveries = <<>>
    /\ forwarder' = Close
    /\ UNCHANGED <<events, queue, unacked, deliveries, hand, open, recv, acked, handled, faults>>

\* The unbuffered channel: the goroutine and the receiver go on together.
HandAfter == Nothing

Receive(r) ==
    /\ recv[r].pc = "waiting"
    /\ \/ hand # Nothing /\ hand' = HandAfter /\ recv' = [recv EXCEPT ![r] = [pc |-> "handling", message |-> hand]]
       \/ forwarder = "ended" /\ recv' = [recv EXCEPT ![r].pc = "eof"] /\ UNCHANGED hand
    /\ UNCHANGED <<events, queue, unacked, deliveries, forwarder, open, acked, handled, faults>>

Cancel(r) ==
    /\ recv[r].pc = "waiting" /\ Fault /\ recv' = [recv EXCEPT ![r].pc = "cancelled"]
    /\ UNCHANGED <<events, queue, unacked, deliveries, hand, forwarder, open, acked, handled>>

\* Mutant: a message is acknowledged whatever the handler says.
FinishAlways(m, err) == acked' = acked \cup {m.id} /\ UNCHANGED queue

\* Ack, or Nack with requeue.
Finish(m, err) ==
    IF err THEN queue' = <<m>> \o queue /\ UNCHANGED acked
    ELSE acked' = acked \cup {m.id} /\ UNCHANGED queue

\* The handler returns and the message is finished; on a closed channel that
\* has no effect.
Handle(r) ==
    /\ recv[r].pc = "handling"
    /\ \E err \in BOOLEAN :
           /\ IF err THEN Fault ELSE UNCHANGED faults
           /\ handled' = (IF err THEN handled ELSE handled \cup {ReadEncoding(recv[r].message)})
           /\ IF open THEN Finish(recv[r].message, err) /\ unacked' = unacked \ {recv[r].message.id}
              ELSE UNCHANGED <<queue, acked, unacked>>
    /\ recv' = [recv EXCEPT ![r] = [pc |-> "waiting", message |-> Nothing]]
    /\ UNCHANGED <<events, deliveries, hand, forwarder, open>>

\* The broker requeues what is not finished, in its order; the library drops its buffer.
ChannelClose ==
    /\ open /\ Fault /\ open' = FALSE /\ deliveries' = <<>>
    /\ \E n \in 0..Len(events) : \E order \in [1..n -> unacked] :
         /\ Range(order) = unacked /\ \A i, j \in DOMAIN order : i < j => order[i] < order[j]
         /\ queue' = [i \in DOMAIN order |-> writeMessage(events[order[i]])] \o queue
    /\ unacked' = {}
    /\ UNCHANGED <<events, hand, forwarder, recv, acked, handled>>

Sends == \E s \in BOOLEAN, t \in ContentTypes, x \in {"none", "x"} : Send(s, t, x)

Next ==
    \/ Sends \/ OpenInbound \/ Deliver \/ Take \/ End \/ ChannelClose
    \/ \E r \in Receivers : Receive(r) \/ Cancel(r) \/ Handle(r)

Spec == Init /\ [][Next]_vars

-----------------------------------------------------------------------------
Places == [ready |-> {queue[k].id : k \in 1..Len(queue)}, unacked |-> unacked, acked |-> acked]

\* An event that was sent is in one place at the broker: ready, delivered and
\* not finished, or acknowledged, and then a handler has had the very event
\* without an error. Neither an error nor a close loses it.
NothingLost ==
    \A k \in 1..Len(events) :
        /\ \E place \in DOMAIN Places : \A p \in DOMAIN Places : k \in Places[p] <=> p = place
        /\ k \in acked => events[k] \in handled

=============================================================================
