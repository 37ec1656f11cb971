------------------------------ MODULE MapStream ------------------------------
(***************************************************************************)
(* parallel.MapStream (parallel/stream.go): workers receive inputs one at  *)
(* a time behind a gate, number them, call fn, and deliver the results on  *)
(* an unbuffered channel.  The stream ends when the input is closed, or is *)
(* cancelled by Close or through the parent's context.                     *)
(*                                                                         *)
(* The inputs are 1, 2, ... in the order the producer sends them.          *)
(***************************************************************************)
EXTENDS Naturals, FiniteSets

CONSTANTS
    Workers,    \* limit of them
    MaxInputs   \* bound on the inputs the producer sends

VARIABLES
    supply,     \* how many inputs the producer sends before it closes the channel
    taken,      \* how many of them were received
    next,       \* streamInput.next, counted from 1
    gate,       \* the workers that hold streamInput.gate
    pc,         \* where each worker is
    value,      \* the input it holds, 0 if none
    index,      \* the number it gave that input
    delivered,  \* history: the results <<input, number>> the consumer received
    cause,      \* context.Cause of the stream's context
    stream,     \* "open", then "err" set, then "done" closed
    err         \* Stream.err

vars == <<supply, taken, next, gate, pc, value, index, delivered, cause, stream, err>>

Init ==
    /\ supply \in 0..MaxInputs
    /\ taken = 0 /\ next = 1 /\ gate = {}
    /\ pc = [w \in Workers |-> "gate"]
    /\ value = [w \in Workers |-> 0] /\ index = [w \in Workers |-> 0]
    /\ delivered = {}
    /\ cause = "none" /\ stream = "open" /\ err = "none"

Cancelled == cause # "none"
Goto(w, label) == pc' = [pc EXCEPT ![w] = label]
endVars == <<cause, stream, err>>

-----------------------------------------------------------------------------
(* streamInput.receive *)

GateFree == gate = {}

\* A select with both cases ready takes either; the context is looked at again.
EnterGate(w) ==
    /\ pc[w] = "gate"
    /\ GateFree
    /\ IF Cancelled THEN Goto(w, "exited") /\ UNCHANGED gate
                    ELSE Goto(w, "receive") /\ gate' = gate \cup {w}
    /\ UNCHANGED <<supply, taken, next, value, index, delivered, endVars>>

ReceiveValue(w) ==
    /\ pc[w] = "receive"
    /\ taken < supply
    /\ taken' = taken + 1
    /\ value' = [value EXCEPT ![w] = taken + 1]
    /\ Goto(w, "number")
    /\ UNCHANGED <<supply, next, gate, index, delivered, endVars>>

Number(w) ==
    /\ pc[w] = "number"
    /\ index' = [index EXCEPT ![w] = next]
    /\ next' = next + 1
    /\ gate' = gate \ {w}
    /\ Goto(w, "check")
    /\ UNCHANGED <<supply, taken, value, delivered, endVars>>

\* receive fails: the input is closed, or the context is done.
ReceiveFails(w) ==
    /\ \/ pc[w] = "gate" /\ Cancelled
       \/ pc[w] = "receive" /\ (Cancelled \/ taken = supply)
    /\ gate' = gate \ {w}
    /\ Goto(w, "exited")
    /\ UNCHANGED <<supply, taken, next, value, index, delivered, endVars>>

-----------------------------------------------------------------------------
(* The worker's loop *)

\* An input that was received when the context was already done is dropped.
Check(w) ==
    /\ pc[w] = "check"
    /\ Goto(w, IF Cancelled THEN "exited" ELSE "run")
    /\ UNCHANGED <<supply, taken, next, gate, value, index, delivered, endVars>>

CallbackReturns(w) ==
    /\ pc[w] = "run"
    /\ Goto(w, "deliver")
    /\ UNCHANGED <<supply, taken, next, gate, value, index, delivered, endVars>>

\* The consumer receives from Results.
Deliver(w) ==
    /\ pc[w] = "deliver"
    /\ delivered' = delivered \cup {<<value[w], index[w]>>}
    /\ value' = [value EXCEPT ![w] = 0] /\ index' = [index EXCEPT ![w] = 0]
    /\ Goto(w, "gate")
    /\ UNCHANGED <<supply, taken, next, gate, endVars>>

DeliverFails(w) ==
    /\ pc[w] = "deliver"
    /\ Cancelled
    /\ Goto(w, "exited")
    /\ UNCHANGED <<supply, taken, next, gate, value, index, delivered, endVars>>

-----------------------------------------------------------------------------
(* The end of the stream *)

\* Close, or the parent's context.
Cancel(why) ==
    /\ ~Cancelled
    /\ cause' = why
    /\ UNCHANGED <<supply, taken, next, gate, pc, value, index, delivered, stream, err>>

\* Mutant: the first worker that leaves ends the stream.
WorkersDoneFirst == \E w \in Workers : pc[w] = "exited"

\* workers.Wait
WorkersDone == \A w \in Workers : pc[w] = "exited"

End ==
    /\ stream = "open"
    /\ WorkersDone
    /\ err' = cause
    /\ stream' = "err"
    /\ UNCHANGED <<supply, taken, next, gate, pc, value, index, delivered, cause>>

\* cancel, and results and done are closed.
CloseDone ==
    /\ stream = "err"
    /\ stream' = "done"
    /\ cause' = IF Cancelled THEN cause ELSE "ended"
    /\ UNCHANGED <<supply, taken, next, gate, pc, value, index, delivered, err>>

-----------------------------------------------------------------------------
\* Every step of a worker but the hand-over to the consumer.
Work(w) == EnterGate(w) \/ ReceiveValue(w) \/ Number(w) \/ ReceiveFails(w) \/ Check(w)
             \/ CallbackReturns(w) \/ DeliverFails(w)

Next ==
    \/ \E w \in Workers : Work(w) \/ Deliver(w)
    \/ \E why \in {"closed", "parent"} : Cancel(why)
    \/ End \/ CloseDone

Spec == Init /\ [][Next]_vars

-----------------------------------------------------------------------------
(* Properties *)

\* A stream whose Wait returns nil has delivered a result for every input that
\* the producer sent, with the number of its place in the input: no worker dropped
\* one, none is still in flight, and two workers cannot swap numbers.
NilMeansAllDelivered ==
    stream # "open" /\ err = "none" => delivered = {<<i, i>> : i \in 1..supply}

=============================================================================
