---------------------------- MODULE QueueWorker ----------------------------
(***************************************************************************)
(* The queue worker of queue/worker.go: Run starts one loop per unit of    *)
(* concurrency, each loop receives a delivery, runs its handler and        *)
(* settles it; Stop drains the run or, when its context expires, cancels   *)
(* the handlers.  A worker may be run again after a run has finished, and  *)
(* any number of callers may call Run and Stop at any time.                *)
(*                                                                         *)
(* The Queue and Consumer interfaces are the environment here: they answer *)
(* with a delivery, with nothing, or with an error.  MemoryWorker replaces *)
(* this environment by the in-memory adapter.                              *)
(***************************************************************************)
EXTENDS Integers, Sequences, TaskOutcome

CONSTANTS
    Runs,         \* calls of Worker.Run
    Loops,        \* the loops of one run (workerConfig.concurrency)
    Stoppers,     \* calls of Worker.Stop
    Attempts,     \* the Task.Attempt values the queue may deliver
    NoRun         \* the nil of Worker.done, Worker.stop and Worker.interrupt

ASSUME RunsAssumption == NoRun \notin Runs

ASSUME AttemptsAssumption == Attempts \subseteq Nat

\* What a context error, ErrConsumerClosed and any other error of the queue
\* are to isStopError and isNormalStopError.
QueueError == {"stop", "closed", "other"}
NoError == "none"

VARIABLES
    current,    \* the run whose cancel functions and done channel w.mu guards
    runPc,      \* where each call of Run is
    runDone,    \* the context given to Run is done
    pollDone,   \* stop() was called
    intrDone,   \* interrupt() was called
    closed,     \* lifecycleDone is closed
    errs,       \* the buffered channel of loop errors
    result,     \* what Run returns
    loopPc,     \* where each loop is
    attempt,    \* Task.Attempt of the delivery the loop holds, 0 if none
    settling,   \* the settlement process chose
    loopErr,    \* the error the loop returns
    stopPc,     \* where each call of Stop is
    snapshot,   \* the lifecycle a call of Stop copied
    late        \* history: handlers a loop started after pollCtx was done

runVars == <<current, runPc, runDone, closed, result>>
ctxVars == <<pollDone, intrDone>>
loopVars == <<loopPc, attempt, settling, loopErr, late>>
stopVars == <<stopPc, snapshot>>
workerVars == <<runVars, ctxVars, errs, loopVars, stopVars>>

LoopId == Runs \X Loops

TypeOK ==
    /\ current \in Runs \cup {NoRun}
    /\ runPc \in [Runs -> {"new", "select", "drain", "finish", "returned", "rejected"}]
    /\ runDone \in [Runs -> BOOLEAN]
    /\ pollDone \in [Runs -> BOOLEAN]
    /\ intrDone \in [Runs -> BOOLEAN]
    /\ closed \in [Runs -> BOOLEAN]
    /\ errs \in [Runs -> Seq(QueueError)]
    /\ result \in [Runs -> QueueError \cup {NoError}]
    /\ loopPc \in [LoopId -> {"idle", "new", "top", "receive", "handle", "settle",
                              "report", "cancel", "exited"}]
    /\ attempt \in [LoopId -> Attempts \cup {0}]
    /\ settling \in [LoopId -> Settlement \cup {NoError}]
    /\ loopErr \in [LoopId -> QueueError \cup {NoError}]
    /\ stopPc \in [Stoppers -> {"new", "stop", "wait", "nil", "timeout"}]
    /\ snapshot \in [Stoppers -> Runs \cup {NoRun}]
    /\ late \in [LoopId -> Nat]

WorkerInit ==
    /\ current = NoRun
    /\ runPc = [r \in Runs |-> "new"]
    /\ runDone = [r \in Runs |-> FALSE]
    /\ pollDone = [r \in Runs |-> FALSE]
    /\ intrDone = [r \in Runs |-> FALSE]
    /\ closed = [r \in Runs |-> FALSE]
    /\ errs = [r \in Runs |-> <<>>]
    /\ result = [r \in Runs |-> NoError]
    /\ loopPc = [i \in LoopId |-> "idle"]
    /\ attempt = [i \in LoopId |-> 0]
    /\ settling = [i \in LoopId |-> NoError]
    /\ loopErr = [i \in LoopId |-> NoError]
    /\ stopPc = [s \in Stoppers |-> "new"]
    /\ snapshot = [s \in Stoppers |-> NoRun]
    /\ late = [i \in LoopId |-> 0]

-----------------------------------------------------------------------------
(* Contexts.  pollCtx is a child of the context given to Run; handlerCtx is *)
(* not: it is only cancelled by interrupt().                                *)

PollCtxDone(r) == runDone[r] \/ pollDone[r]

\* stop(); interrupt()
CancelBoth(r) ==
    /\ pollDone' = [pollDone EXCEPT ![r] = TRUE]
    /\ intrDone' = [intrDone EXCEPT ![r] = TRUE]

\* The caller cancels the context it gave to Run, or it expires.
CancelRunCtx(r) ==
    /\ runPc[r] \in {"select", "drain"}
    /\ ~runDone[r]
    /\ runDone' = [runDone EXCEPT ![r] = TRUE]
    /\ UNCHANGED <<current, runPc, closed, result, ctxVars, errs, loopVars, stopVars>>

\* context.AfterFunc: its function runs in a goroutine of its own, some time
\* after the context given to Run is done.
AfterFunc(r) ==
    /\ runDone[r]
    /\ runPc[r] \in {"select", "drain"}
    /\ ~intrDone[r]
    /\ CancelBoth(r)
    /\ UNCHANGED <<runVars, errs, loopVars, stopVars>>

-----------------------------------------------------------------------------
(* Worker.Run *)

LoopsExited(r) == \A l \in Loops : loopPc[<<r, l>>] = "exited"

\* start: a second Run is refused while w.done is set.
RunStart(r) ==
    /\ runPc[r] = "new"
    /\ current = NoRun
    /\ current' = r
    /\ runPc' = [runPc EXCEPT ![r] = "select"]
    /\ loopPc' = [i \in LoopId |-> IF i[1] = r THEN "new" ELSE loopPc[i]]
    /\ UNCHANGED <<runDone, closed, result, ctxVars, errs, attempt, settling, loopErr, late, stopVars>>

RunReject(r) ==
    /\ runPc[r] = "new"
    /\ current # NoRun
    /\ CancelBoth(r)
    /\ runPc' = [runPc EXCEPT ![r] = "rejected"]
    /\ UNCHANGED <<current, runDone, closed, result, errs, loopVars, stopVars>>

\* <-workersDone, then the non-blocking read of errs
RunWorkersDone(r) ==
    /\ runPc[r] = "select"
    /\ LoopsExited(r)
    /\ result' = [result EXCEPT ![r] = IF errs[r] = <<>> THEN NoError ELSE Head(errs[r])]
    /\ errs' = [errs EXCEPT ![r] = IF @ = <<>> THEN @ ELSE Tail(@)]
    /\ runPc' = [runPc EXCEPT ![r] = "finish"]
    /\ UNCHANGED <<current, runDone, closed, ctxVars, loopVars, stopVars>>

\* Mutant: Run returns the first error without waiting for the other loops.
RunLoopErrorNoWait(r) ==
    /\ runPc[r] = "select"
    /\ errs[r] # <<>>
    /\ result' = [result EXCEPT ![r] = Head(errs[r])]
    /\ errs' = [errs EXCEPT ![r] = Tail(@)]
    /\ runPc' = [runPc EXCEPT ![r] = "finish"]
    /\ CancelBoth(r)
    /\ UNCHANGED <<current, runDone, closed, loopVars, stopVars>>

\* <-errs, then stop(); interrupt(); <-workersDone
RunLoopError(r) ==
    /\ runPc[r] = "select"
    /\ errs[r] # <<>>
    /\ result' = [result EXCEPT ![r] = Head(errs[r])]
    /\ errs' = [errs EXCEPT ![r] = Tail(@)]
    /\ runPc' = [runPc EXCEPT ![r] = "drain"]
    /\ CancelBoth(r)
    /\ UNCHANGED <<current, runDone, closed, loopVars, stopVars>>

RunDrained(r) ==
    /\ runPc[r] = "drain"
    /\ LoopsExited(r)
    /\ runPc' = [runPc EXCEPT ![r] = "finish"]
    /\ UNCHANGED <<current, runDone, closed, result, ctxVars, errs, loopVars, stopVars>>

\* The deferred stop(); interrupt(); finish(lifecycleDone).
RunFinish(r) ==
    /\ runPc[r] = "finish"
    /\ CancelBoth(r)
    /\ current' = IF current = r THEN NoRun ELSE current
    /\ closed' = [closed EXCEPT ![r] = TRUE]
    /\ runPc' = [runPc EXCEPT ![r] = "returned"]
    /\ UNCHANGED <<runDone, result, errs, loopVars, stopVars>>

RunStep(r) == \/ RunStart(r) \/ RunReject(r) \/ RunWorkersDone(r)
              \/ RunLoopError(r) \/ RunDrained(r) \/ RunFinish(r)

-----------------------------------------------------------------------------
(* Worker.loop *)

IsStopError(e) == e = "stop"

IsNormalStopError(r, e) == IsStopError(e) \/ (e = "closed" /\ PollCtxDone(r))

\* The loop returns nil: its goroutine ends.
ExitNil(i) ==
    /\ loopPc' = [loopPc EXCEPT ![i] = "exited"]
    /\ UNCHANGED loopErr

\* The loop returns e: Run's goroutine still has to report it.
ExitErr(i, e) ==
    /\ loopPc' = [loopPc EXCEPT ![i] = "report"]
    /\ loopErr' = [loopErr EXCEPT ![i] = e]

\* NewConsumer succeeds.
LoopOpen(r, l) ==
    /\ loopPc[<<r, l>>] = "new"
    /\ loopPc' = [loopPc EXCEPT ![<<r, l>>] = "top"]
    /\ UNCHANGED <<runVars, ctxVars, errs, attempt, settling, loopErr, late, stopVars>>

\* NewConsumer or Receive fails with e.
LoopQueueError(r, l, e) ==
    /\ loopPc[<<r, l>>] \in {"new", "receive"}
    /\ IF IsNormalStopError(r, e) THEN ExitNil(<<r, l>>) ELSE ExitErr(<<r, l>>, e)
    /\ UNCHANGED <<runVars, ctxVars, errs, attempt, settling, late, stopVars>>

\* The non-blocking look at pollCtx.Done() at the top of the loop.
LoopTop(r, l) ==
    /\ loopPc[<<r, l>>] = "top"
    /\ loopPc' = [loopPc EXCEPT ![<<r, l>>] = IF PollCtxDone(r) THEN "exited" ELSE "receive"]
    /\ UNCHANGED <<runVars, ctxVars, errs, attempt, settling, loopErr, late, stopVars>>

\* Receive returns a nil delivery or a delivery with a nil task.
LoopReceiveNothing(r, l) ==
    /\ loopPc[<<r, l>>] = "receive"
    /\ loopPc' = [loopPc EXCEPT ![<<r, l>>] = "top"]
    /\ UNCHANGED <<runVars, ctxVars, errs, attempt, settling, loopErr, late, stopVars>>

\* Receive returns a task on its a-th attempt; nothing looks at pollCtx again
\* before the handler starts.
LoopReceive(r, l, a) ==
    /\ loopPc[<<r, l>>] = "receive"
    /\ loopPc' = [loopPc EXCEPT ![<<r, l>>] = "handle"]
    /\ attempt' = [attempt EXCEPT ![<<r, l>>] = a]
    /\ late' = [late EXCEPT ![<<r, l>>] = IF PollCtxDone(r) THEN @ + 1 ELSE @]
    /\ UNCHANGED <<runVars, ctxVars, errs, settling, loopErr, stopVars>>

\* The handler returns (or there is none).
LoopHandled(r, l, outcome) ==
    /\ loopPc[<<r, l>>] = "handle"
    /\ loopPc' = [loopPc EXCEPT ![<<r, l>>] = "settle"]
    /\ settling' = [settling EXCEPT ![<<r, l>>] = Decide(attempt[<<r, l>>], outcome)]
    /\ UNCHANGED <<runVars, ctxVars, errs, attempt, loopErr, late, stopVars>>

\* ack, retry or deadLetter succeeds.
LoopSettled(r, l) ==
    /\ loopPc[<<r, l>>] = "settle"
    /\ loopPc' = [loopPc EXCEPT ![<<r, l>>] = "top"]
    /\ attempt' = [attempt EXCEPT ![<<r, l>>] = 0]
    /\ settling' = [settling EXCEPT ![<<r, l>>] = NoError]
    /\ UNCHANGED <<runVars, ctxVars, errs, loopErr, late, stopVars>>

\* Mutant: every context error of a settlement is taken for a normal stop.
LoopSettleErrorSwallowed(r, l, e) ==
    /\ loopPc[<<r, l>>] = "settle"
    /\ IF IsStopError(e) THEN ExitNil(<<r, l>>) ELSE ExitErr(<<r, l>>, e)
    /\ settling' = [settling EXCEPT ![<<r, l>>] = NoError]
    /\ UNCHANGED <<runVars, ctxVars, errs, attempt, late, stopVars>>

\* ack, retry or deadLetter fails with e: the delivery stays unsettled, and the
\* error is swallowed only when the context given to Run is done.
LoopSettleError(r, l, e) ==
    /\ loopPc[<<r, l>>] = "settle"
    /\ IF runDone[r] /\ IsStopError(e) THEN ExitNil(<<r, l>>) ELSE ExitErr(<<r, l>>, e)
    /\ settling' = [settling EXCEPT ![<<r, l>>] = NoError]
    /\ UNCHANGED <<runVars, ctxVars, errs, attempt, late, stopVars>>

\* errs <- err in the goroutine Run started; the buffer has room for every loop.
LoopReport(r, l) ==
    /\ loopPc[<<r, l>>] = "report"
    /\ errs' = [errs EXCEPT ![r] = Append(@, loopErr[<<r, l>>])]
    /\ loopPc' = [loopPc EXCEPT ![<<r, l>>] = "cancel"]
    /\ UNCHANGED <<runVars, ctxVars, attempt, settling, loopErr, late, stopVars>>

LoopCancel(r, l) ==
    /\ loopPc[<<r, l>>] = "cancel"
    /\ CancelBoth(r)
    /\ loopPc' = [loopPc EXCEPT ![<<r, l>>] = "exited"]
    /\ UNCHANGED <<runVars, errs, attempt, settling, loopErr, late, stopVars>>

-----------------------------------------------------------------------------
(* Worker.Stop *)

\* lifecycle(): copy w.stop, w.interrupt and w.done under the mutex.
StopSnapshot(s) ==
    /\ stopPc[s] = "new"
    /\ snapshot' = [snapshot EXCEPT ![s] = current]
    /\ stopPc' = [stopPc EXCEPT ![s] = IF current = NoRun THEN "nil" ELSE "stop"]
    /\ UNCHANGED <<runVars, ctxVars, errs, loopVars>>

\* Mutant: Stop waits without calling stop().
StopPollingForgotten(s) ==
    /\ stopPc[s] = "stop"
    /\ stopPc' = [stopPc EXCEPT ![s] = IF closed[snapshot[s]] THEN "nil" ELSE "wait"]
    /\ UNCHANGED <<runVars, ctxVars, errs, loopVars, snapshot>>

\* Mutant: Stop cancels the handlers at once.
StopPollingInterrupts(s) ==
    /\ stopPc[s] = "stop"
    /\ CancelBoth(snapshot[s])
    /\ stopPc' = [stopPc EXCEPT ![s] = IF closed[snapshot[s]] THEN "nil" ELSE "wait"]
    /\ UNCHANGED <<runVars, errs, loopVars, snapshot>>

\* stop(), then the non-blocking look at done.
StopPolling(s) ==
    /\ stopPc[s] = "stop"
    /\ pollDone' = [pollDone EXCEPT ![snapshot[s]] = TRUE]
    /\ stopPc' = [stopPc EXCEPT ![s] = IF closed[snapshot[s]] THEN "nil" ELSE "wait"]
    /\ UNCHANGED <<runVars, intrDone, errs, loopVars, snapshot>>

StopDrained(s) ==
    /\ stopPc[s] = "wait"
    /\ closed[snapshot[s]]
    /\ stopPc' = [stopPc EXCEPT ![s] = "nil"]
    /\ UNCHANGED <<runVars, ctxVars, errs, loopVars, snapshot>>

\* Mutant: Stop calls w.interrupt of the run that is active by now.
StopTimeoutCurrent(s) ==
    /\ stopPc[s] = "wait"
    /\ intrDone' = [r \in Runs |-> intrDone[r] \/ r = current]
    /\ stopPc' = [stopPc EXCEPT ![s] = "timeout"]
    /\ UNCHANGED <<runVars, pollDone, errs, loopVars, snapshot>>

\* The context given to Stop is done: interrupt() and return its error.
StopTimeout(s) ==
    /\ stopPc[s] = "wait"
    /\ intrDone' = [intrDone EXCEPT ![snapshot[s]] = TRUE]
    /\ stopPc' = [stopPc EXCEPT ![s] = "timeout"]
    /\ UNCHANGED <<runVars, pollDone, errs, loopVars, snapshot>>

StopStep(s) == StopSnapshot(s) \/ StopPolling(s) \/ StopDrained(s) \/ StopTimeout(s)

-----------------------------------------------------------------------------
(* The worker with an arbitrary queue. *)

LoopStep(r, l) ==
    \/ LoopOpen(r, l)
    \/ LoopTop(r, l)
    \/ LoopReceiveNothing(r, l)
    \/ \E a \in Attempts : LoopReceive(r, l, a)
    \/ \E outcome \in Outcome : LoopHandled(r, l, outcome)
    \/ LoopSettled(r, l)
    \/ \E e \in QueueError : LoopQueueError(r, l, e) \/ LoopSettleError(r, l, e)
    \/ LoopReport(r, l)
    \/ LoopCancel(r, l)

\* Every call of Run and of Stop has returned.
AllReturned ==
    /\ \A r \in Runs : runPc[r] \in {"returned", "rejected"}
    /\ \A s \in Stoppers : stopPc[s] \in {"nil", "timeout"}

Returned == AllReturned /\ UNCHANGED workerVars

Next ==
    \/ \E r \in Runs : RunStep(r) \/ CancelRunCtx(r) \/ AfterFunc(r)
    \/ \E r \in Runs, l \in Loops : LoopStep(r, l)
    \/ \E s \in Stoppers : StopStep(s)
    \/ Returned

\* A goroutine that can run does.  Two calls wait on the outside: Receive
\* returns once its context is done, and a handler returns once its context
\* is cancelled; nothing is assumed of them before that.
Fairness ==
    /\ \A r \in Runs :
         /\ WF_workerVars(RunWorkersDone(r) \/ RunLoopError(r) \/ RunDrained(r) \/ RunFinish(r))
         /\ WF_workerVars(AfterFunc(r))
         /\ \A l \in Loops :
              /\ WF_workerVars(LoopStep(r, l) /\ loopPc[<<r, l>>] \notin {"receive", "handle"})
              /\ WF_workerVars(PollCtxDone(r) /\ loopPc[<<r, l>>] = "receive" /\ LoopStep(r, l))
              /\ WF_workerVars(intrDone[r] /\ loopPc[<<r, l>>] = "handle" /\ LoopStep(r, l))
    /\ \A s \in Stoppers : WF_workerVars(StopPolling(s) \/ StopDrained(s))

Spec == WorkerInit /\ [][Next]_workerVars /\ Fairness

-----------------------------------------------------------------------------
(* Properties *)

\* Stop returns nil only when the run it addressed is over: every loop of that
\* run has exited, so no handler and no settlement of it is still under way.
StopNilMeansDrained ==
    \A s \in Stoppers :
        stopPc[s] = "nil" /\ snapshot[s] # NoRun =>
            runPc[snapshot[s]] = "returned" /\ LoopsExited(snapshot[s])

\* Two calls of Run never have loops at work at the same time, however calls
\* of Run and Stop interleave: start refuses the second one until the first
\* has waited for all its loops.
OneRunAtATime ==
    \A i, j \in LoopId :
        loopPc[i] \notin {"idle", "exited"} /\ loopPc[j] \notin {"idle", "exited"} => i[1] = j[1]

\* Run returns nil only when no loop failed, and no delivery was left
\* unsettled unless the context given to Run was done: a settlement failure
\* caused by anything else (a Stop that timed out, a settlement timeout, the
\* failure of another loop) is reported by Run.
NilMeansSettled ==
    \A r \in Runs :
        runPc[r] = "returned" /\ result[r] = NoError =>
            \A l \in Loops :
                /\ loopErr[<<r, l>>] = NoError
                /\ attempt[<<r, l>>] # 0 => runDone[r]

\* An error Run returns is the error one of its own loops returned.
ResultIsALoopError ==
    \A r \in Runs : result[r] # NoError => \E l \in Loops : loopErr[<<r, l>>] = result[r]

\* Once pollCtx is done, each loop starts at most one more handler: the one
\* whose delivery its Receive was already waiting for.
AtMostOneLateHandler == \A i \in LoopId : late[i] <= 1

\* Handlers of a run are cancelled only after the context given to Run is
\* done, a Stop of this very run timed out, a loop of it failed, or it is
\* over; in particular a graceful Stop, or a Stop that addressed an earlier
\* run, never cancels them.
InterruptHasCause ==
    \A r \in Runs : intrDone[r] =>
        \/ runDone[r]
        \/ runPc[r] \in {"returned", "rejected"}
        \/ \E s \in Stoppers : snapshot[s] = r /\ stopPc[s] = "timeout"
        \/ \E l \in Loops : loopErr[<<r, l>>] # NoError

\* A run whose handlers were cancelled (by its context, a Stop that timed out
\* or a failed loop) returns, even if its handlers would never have returned
\* by themselves and its queue stays silent.
InterruptedRunReturns ==
    \A r \in Runs :
        (intrDone[r] \/ runDone[r]) ~> runPc[r] \in {"returned", "rejected"}

\* When handlers keep returning, every Stop returns without its context having
\* to expire.
StopReturns ==
    (\A i \in LoopId : []<>(loopPc[i] # "handle")) =>
        \A s \in Stoppers : stopPc[s] = "stop" ~> stopPc[s] \in {"nil", "timeout"}

\* Both: whoever stops the worker, and however, is not kept waiting.
RunsAndStopsReturn == InterruptedRunReturns /\ StopReturns

\* The comment of Run: "Queue operation errors stop the worker and are returned
\* to the caller unless they are normal stop signals caused by worker
\* shutdown."  A loop has returned nil, then, only in a shutdown.
LoopEndsOnlyInShutdown ==
    \A r \in Runs, l \in Loops :
        loopPc[<<r, l>>] = "exited" => PollCtxDone(r)

=============================================================================
