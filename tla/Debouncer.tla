------------------------------ MODULE Debouncer ------------------------------
(***************************************************************************)
(* debounce.Debouncer (debounce/debouncer.go, worker.go).  Trigger         *)
(* replaces the pending value and restarts its quiet interval; Flush       *)
(* freezes it for execution at once; one worker runs the handler; Close,   *)
(* or the end of the processing context, discards what is not running.     *)
(*                                                                         *)
(* The values are 1, 2, ... in the order Trigger accepts them.  due says   *)
(* that the quiet interval of the pending value is over.                   *)
(***************************************************************************)
EXTENDS Naturals, Sequences, FiniteSets

CONSTANTS
    Flushers,       \* calls of Flush
    MaxTriggers     \* bound on the calls of Trigger

VARIABLES
    value,      \* the value of each invocation made so far
    done,       \* how each invocation ended
    pending, ready, running,    \* invocations, 0 for nil
    due,        \* see above
    ran,        \* history: the values handed to the handler
    latest,     \* history: the value of the latest accepted Trigger
    wake,       \* the channel wake holds a token
    wpc,        \* the worker's place in run
    armed,      \* its select waits for the timer too
    closed, cancelled,  \* Debouncer.closed; the processing context is done
    fpc, call, retry,   \* each Flush: place or result, and what selectFlush returned
    seen,       \* history: latest when the Flush was called
    closer      \* the caller of Close

flushVars == <<fpc, call, retry, seen>>
history == <<ran, latest>>
vars == <<value, done, pending, ready, running, due, history, wake, wpc, armed,
          closed, cancelled, flushVars, closer>>

Invocations == 1..Len(value)

Init ==
    /\ value = <<>> /\ done = <<>>
    /\ pending = 0 /\ ready = 0 /\ running = 0
    /\ due = FALSE /\ ran = <<>> /\ latest = 0
    /\ wake = FALSE /\ wpc = "next" /\ armed = FALSE
    /\ closed = FALSE /\ cancelled = FALSE
    /\ fpc = [f \in Flushers |-> "new"]
    /\ call = [f \in Flushers |-> 0] /\ retry = [f \in Flushers |-> FALSE]
    /\ seen = [f \in Flushers |-> 0]
    /\ closer = "new"

Shut == closed \/ cancelled

-----------------------------------------------------------------------------

\* notify
Notify == wake' = TRUE

Restart == due' = FALSE

\* The invocation that Trigger replaces the value of.
Slot == pending

Trigger ==
    /\ latest < MaxTriggers
    /\ ~Shut
    /\ latest' = latest + 1
    /\ IF Slot = 0
         THEN /\ value' = Append(value, latest') /\ done' = Append(done, "no")
              /\ pending' = Len(value')
         ELSE value' = [value EXCEPT ![Slot] = latest'] /\ UNCHANGED <<done, pending>>
    /\ Restart
    /\ Notify
    /\ UNCHANGED <<ready, running, ran, wpc, armed, closed, cancelled, flushVars, closer>>

\* The quiet interval of the pending value ends.
Elapse ==
    /\ pending # 0 /\ ~due
    /\ due' = TRUE
    /\ UNCHANGED <<value, done, pending, ready, running, history, wake, wpc, armed,
                   closed, cancelled, flushVars, closer>>

-----------------------------------------------------------------------------
(* The worker: run, next, execute *)

Begin(i) == /\ running' = i
            /\ ran' = Append(ran, value[i])
            /\ wpc' = "execute"
            /\ UNCHANGED armed

\* The pending value runs when it is due and none is frozen.
PendingTurn == ready = 0 /\ pending # 0 /\ due

WorkerNext ==
    /\ wpc = "next"
    /\ \/ Shut /\ wpc' = "stop" /\ UNCHANGED <<pending, ready, running, ran, armed>>
       \/ ~Shut /\ ready # 0 /\ Begin(ready) /\ ready' = 0 /\ UNCHANGED pending
       \/ ~Shut /\ PendingTurn /\ Begin(pending) /\ pending' = 0 /\ UNCHANGED ready
       \/ /\ ~Shut /\ ready = 0 /\ (pending = 0 \/ ~due)
          /\ wpc' = "select" /\ armed' = (pending # 0)
          /\ UNCHANGED <<pending, ready, running, ran>>
    /\ UNCHANGED <<value, done, due, latest, wake, closed, cancelled, flushVars, closer>>

\* wake, or a tick: of the value that was pending when the timer was set, which
\* may have been replaced since.
Wake ==
    /\ wpc = "select"
    /\ \/ wake /\ wake' = FALSE
       \/ armed /\ UNCHANGED wake
    /\ wpc' = "next"
    /\ UNCHANGED <<value, done, pending, ready, running, due, history, armed, closed, cancelled, flushVars, closer>>

\* What the handler returns is the result of the invocation, and changes no step.
HandlerReturns ==
    /\ wpc = "execute"
    /\ done' = [done EXCEPT ![running] = "ran"]
    /\ running' = 0
    /\ wpc' = "next"
    /\ UNCHANGED <<value, pending, ready, due, history, wake, armed, closed, cancelled, flushVars, closer>>

-----------------------------------------------------------------------------
(* stop, Close and the processing context *)

Discarded == {pending, ready} \ {0}

\* stop, a second time without effect.
Stop ==
    IF closed THEN UNCHANGED <<done, pending, ready, wake, closed, cancelled>>
    ELSE /\ closed' = TRUE /\ cancelled' = TRUE
         /\ done' = [i \in Invocations |-> IF i \in Discarded THEN "closed" ELSE done[i]]
         /\ pending' = 0 /\ ready' = 0
         /\ Notify

\* AfterFunc of the processing context, or the case of the worker's select.
ContextStop ==
    /\ cancelled /\ ~closed
    /\ Stop
    /\ wpc' \in {wpc} \cup (IF wpc = "select" THEN {"next"} ELSE {})
    /\ UNCHANGED <<value, running, due, history, armed, flushVars, closer>>

CancelContext ==
    /\ ~cancelled
    /\ cancelled' = TRUE
    /\ UNCHANGED <<value, done, pending, ready, running, due, history, wake, wpc, armed, closed, flushVars, closer>>

\* run has returned: stop, and done is closed.
WorkerExits ==
    /\ wpc = "stop"
    /\ Stop
    /\ wpc' = "exited"
    /\ UNCHANGED <<value, running, due, history, armed, flushVars, closer>>

Close ==
    /\ closer = "new"
    /\ Stop
    /\ closer' = "waiting"
    /\ UNCHANGED <<value, running, due, history, wpc, armed, flushVars>>

WorkerGone == wpc = "exited"

CloseReturns ==
    /\ closer = "waiting"
    /\ WorkerGone
    /\ closer' = "returned"
    /\ UNCHANGED <<value, done, pending, ready, running, due, history, wake, wpc, armed, closed, cancelled, flushVars>>

-----------------------------------------------------------------------------
(* Flush *)

otherVars == <<value, done, running, due, ran, latest, wpc, armed, closed, cancelled, closer>>

Flush(f) ==
    /\ fpc[f] = "new"
    /\ seen' = [seen EXCEPT ![f] = latest]
    /\ fpc' = [fpc EXCEPT ![f] = "select"]
    /\ UNCHANGED <<otherVars, pending, ready, wake, call, retry>>

WaitFor(f, i, again) ==
    /\ call' = [call EXCEPT ![f] = i] /\ retry' = [retry EXCEPT ![f] = again]
    /\ fpc' = [fpc EXCEPT ![f] = IF i = 0 THEN "ran" ELSE "wait"]

\* Mutant: the frozen invocation stands for the pending one.
AgainNever == FALSE

\* A frozen invocation does not stand for a newer pending value.
Again == pending # 0

SelectFlush(f) ==
    /\ fpc[f] = "select"
    /\ \/ Shut /\ fpc' = [fpc EXCEPT ![f] = "closed"] /\ UNCHANGED <<call, retry, pending, ready, wake>>
       \/ ~Shut /\ ready # 0 /\ WaitFor(f, ready, Again) /\ UNCHANGED <<pending, ready, wake>>
       \/ /\ ~Shut /\ ready = 0 /\ pending # 0
          /\ ready' = pending /\ pending' = 0
          /\ Notify
          /\ WaitFor(f, pending, FALSE)
       \/ ~Shut /\ ready = 0 /\ pending = 0 /\ WaitFor(f, running, FALSE) /\ UNCHANGED <<pending, ready, wake>>
    /\ UNCHANGED <<otherVars, seen>>

Forget(f) == call' = [call EXCEPT ![f] = 0] /\ retry' = [retry EXCEPT ![f] = FALSE]

FlushReturns(f) ==
    /\ fpc[f] = "wait"
    /\ done[call[f]] # "no"
    /\ fpc' = [fpc EXCEPT ![f] = IF retry[f] THEN "select" ELSE done[call[f]]]
    /\ Forget(f)
    /\ UNCHANGED <<otherVars, pending, ready, wake, seen>>

\* The caller's context ends the admission or the wait.
FlushGivesUp(f) ==
    /\ fpc[f] \in {"new", "select", "wait"}
    /\ fpc[f] = "wait" => done[call[f]] = "no" \/ retry[f]
    /\ fpc' = [fpc EXCEPT ![f] = "context"]
    /\ Forget(f)
    /\ seen' = [seen EXCEPT ![f] = 0]
    /\ UNCHANGED <<otherVars, pending, ready, wake>>

-----------------------------------------------------------------------------
Worker == WorkerNext \/ Wake \/ HandlerReturns \/ WorkerExits

Next ==
    \/ Trigger \/ Elapse \/ Worker
    \/ ContextStop \/ CancelContext \/ Close \/ CloseReturns
    \/ \E f \in Flushers : Flush(f) \/ SelectFlush(f) \/ FlushReturns(f) \/ FlushGivesUp(f)

Spec == Init /\ [][Next]_vars

-----------------------------------------------------------------------------
(* Properties *)

\* A Flush that reports an outcome has covered every value triggered before it was
\* called, with one frozen slot shared by all of them.
FlushCoversLatest ==
    \A f \in Flushers : fpc[f] = "ran" =>
        seen[f] = 0 \/ \E i \in 1..Len(ran) : ran[i] >= seen[f]

=============================================================================
