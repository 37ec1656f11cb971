---------------------------- MODULE MemoryWorker ----------------------------
(***************************************************************************)
(* A queue worker on the in-memory adapter: QueueWorker composed with      *)
(* MemoryQueue.  Each loop of a run is the consumer it opened; the context *)
(* given to Receive is the run's pollCtx and the one given to Ack, Retry   *)
(* and DeadLetter the run's handlerCtx, so what the adapter answers        *)
(* follows from the worker's own state.                                    *)
(***************************************************************************)
EXTENDS QueueWorker, FiniteSets

CONSTANTS Tasks, Delays, MaxTime, NoTask

VARIABLES clock, ready, dead, recvPc, now, wait, timer, notified, held,
          delivered, acked, lost

\* A loop closes its consumer only when it returns, after its last Receive, so
\* that no Receive ever meets a closed consumer.
M == INSTANCE MemoryQueue WITH
        Consumers <- LoopId,
        MaxTries <- MaxAttempts,
        ctxDone <- [i \in LoopId |-> PollCtxDone(i[1])],
        shut <- [i \in LoopId |-> FALSE]

queueVars == <<ready, dead, notified, delivered, acked, lost>>
recvVars == <<recvPc, now, wait, timer>>
memVars == <<clock, queueVars, recvVars, held>>
allVars == <<workerVars, memVars>>

MemoryWorkerInit == WorkerInit /\ M!MemInit

-----------------------------------------------------------------------------
(* The worker's steps that call the adapter *)

\* NewConsumer fails only if pollCtx is done.
Open(r, l) ==
    /\ IF PollCtxDone(r) THEN loopPc[<<r, l>>] = "new" /\ LoopQueueError(r, l, "stop")
                         ELSE LoopOpen(r, l)
    /\ UNCHANGED memVars

\* The top of the loop, and the call of Receive if pollCtx is not done.
Top(r, l) ==
    /\ LoopTop(r, l)
    /\ IF PollCtxDone(r) THEN UNCHANGED memVars ELSE M!Receive(<<r, l>>)

\* Receive looks for a due task, sleeps and wakes up.
Search(r, l) ==
    /\ UNCHANGED workerVars
    /\ \/ M!ReadNow(<<r, l>>)
       \/ M!FindNone(<<r, l>>)
       \/ M!Arm(<<r, l>>)
       \/ M!Wake(<<r, l>>)

\* Receive returns a task, or an error because pollCtx is done.
Deliver(r, l) ==
    \E a \in Attempts :
        /\ LoopReceive(r, l, a)
        /\ M!TakeDue(<<r, l>>)
        /\ held'[<<r, l>>].attempt = a

ReceiveStopped(r, l) ==
    /\ LoopQueueError(r, l, "stop")
    /\ M!ReceiveError(<<r, l>>)

Handle(r, l) ==
    /\ \E outcome \in Outcome : LoopHandled(r, l, outcome)
    /\ UNCHANGED memVars

\* The settlement process chose; it fails if handlerCtx is done.
SettleAck(r, l) ==
    /\ settling[<<r, l>>] = "ack" /\ ~intrDone[r]
    /\ LoopSettled(r, l) /\ M!Ack(<<r, l>>)

SettleRetry(r, l) ==
    /\ settling[<<r, l>>] = "retry" /\ ~intrDone[r]
    /\ LoopSettled(r, l) /\ \E d \in Delays : M!Retry(<<r, l>>, d)

SettleDead(r, l) ==
    /\ settling[<<r, l>>] = "dead" /\ ~intrDone[r]
    /\ LoopSettled(r, l) /\ M!DeadLetter(<<r, l>>)

SettleFails(r, l) ==
    /\ intrDone[r]
    /\ LoopSettleError(r, l, "stop") /\ M!SettleError(<<r, l>>)

Unwind(r, l) == (LoopReport(r, l) \/ LoopCancel(r, l)) /\ UNCHANGED memVars

-----------------------------------------------------------------------------
(* The whole system *)

MemLoopStep(r, l) ==
    \/ Open(r, l) \/ Top(r, l) \/ Search(r, l) \/ Deliver(r, l) \/ ReceiveStopped(r, l)
    \/ Handle(r, l) \/ SettleAck(r, l) \/ SettleRetry(r, l) \/ SettleDead(r, l)
    \/ SettleFails(r, l) \/ Unwind(r, l)

Produce == UNCHANGED workerVars /\ \E t \in Tasks, d \in Delays : M!Enqueue(t, d)

Advance == UNCHANGED workerVars /\ M!Tick

Idle == AllReturned /\ Tasks \subseteq M!Known /\ UNCHANGED allVars

MemNext ==
    \/ \E r \in Runs : (RunStep(r) \/ CancelRunCtx(r) \/ AfterFunc(r)) /\ UNCHANGED memVars
    \/ \E r \in Runs, l \in Loops : MemLoopStep(r, l)
    \/ \E s \in Stoppers : StopStep(s) /\ UNCHANGED memVars
    \/ Produce
    \/ Advance
    \/ Idle

\* A goroutine that can run does, and handlers return.
MemFairness ==
    /\ \A r \in Runs :
         /\ WF_allVars((RunWorkersDone(r) \/ RunLoopError(r) \/ RunDrained(r) \/ RunFinish(r))
                         /\ UNCHANGED memVars)
         /\ \A l \in Loops : WF_allVars(MemLoopStep(r, l))
    /\ WF_allVars(Advance)

MemSpec == MemoryWorkerInit /\ [][MemNext]_allVars /\ MemFairness

-----------------------------------------------------------------------------
(* Properties *)

\* A task is lost only by a run whose handlers were cancelled, and never in
\* silence: once all runs have returned, some run returned an error or had its
\* context done.
LossIsReported ==
    lost # {} =>
        /\ \E r \in Runs : intrDone[r] /\ (runDone[r] \/ \E l \in Loops : loopErr[<<r, l>>] # NoError)
        /\ AllReturned => \E r \in Runs : runDone[r] \/ result[r] # NoError

\* A graceful Stop loses nothing: while no run's context is done and no Stop
\* timed out, every task is waiting, with a loop, acknowledged or
\* dead-lettered.
GracefulStopLosesNothing ==
    (\A r \in Runs : ~runDone[r]) /\ (\A s \in Stoppers : stopPc[s] # "timeout") => lost = {}

\* A task that waits while a run is up is settled for good, by an
\* acknowledgement or in the dead letters, unless the run is told to stop.
TaskIsSettled ==
    \A t \in Tasks, r \in Runs :
        (runPc[r] = "select" /\ \E k \in DOMAIN ready : ready[k].id = t)
            ~> \/ t \in acked
               \/ \E k \in DOMAIN dead : dead[k].id = t
               \/ PollCtxDone(r)

=============================================================================
