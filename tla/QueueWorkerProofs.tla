------------------------- MODULE QueueWorkerProofs -------------------------
(***************************************************************************)
(* Proofs about QueueWorker, for any number of runs, loops per run and     *)
(* calls of Stop, and for any queue behind the worker.                     *)
(*                                                                         *)
(* The invariant has one part per mechanism of worker.go: the lifecycle    *)
(* under w.mu and the WaitGroup (Lifecycle), what a loop returns           *)
(* (LoopReturns), the buffered error channel (ErrorsReported) and the look *)
(* at pollCtx before Receive (LateBounded).                                *)
(*                                                                         *)
(* A worker on the in-memory adapter is one of these workers, step by      *)
(* step, so the invariant holds of MemoryWorker too.  What that module     *)
(* adds is the loss of a task (Losses): some settlement gave up, and only  *)
(* a cancelled context makes one give up.                                  *)
(***************************************************************************)
EXTENDS MemoryWorker, TLAPS

\* The run under way is the one w.done belongs to; its done channel is closed
\* when it returns, and it returns after its loops.
Lifecycle ==
    /\ \A r \in Runs :
          /\ runPc[r] \in {"select", "drain", "finish"} <=> current = r
          /\ closed[r] <=> runPc[r] = "returned"
          /\ runPc[r] \in {"new", "rejected"} => \A l \in Loops : loopPc[<<r, l>>] = "idle"
          /\ runPc[r] \in {"finish", "returned"} => LoopsExited(r)
    /\ \A s \in Stoppers :
          /\ snapshot[s] # NoRun => runPc[snapshot[s]] \notin {"new", "rejected"}
          /\ stopPc[s] \in {"stop", "wait", "timeout"} => snapshot[s] # NoRun
          /\ stopPc[s] = "new" => snapshot[s] = NoRun
          /\ stopPc[s] = "nil" /\ snapshot[s] # NoRun => closed[snapshot[s]]

\* A loop has an error exactly from the moment it returns one, and leaves a
\* delivery unsettled only with an error or when Run's context is done.
LoopReturns ==
    \A i \in LoopId :
        /\ loopPc[i] \in {"idle", "new", "top", "receive", "handle", "settle"} => loopErr[i] = NoError
        /\ loopPc[i] \in {"report", "cancel"} => loopErr[i] # NoError
        /\ loopPc[i] \in {"idle", "new", "top", "receive"} => attempt[i] = 0
        /\ loopPc[i] = "exited" /\ loopErr[i] = NoError /\ attempt[i] # 0 => runDone[i[1]]

\* What is in the error channel, or was taken from it, is the error of a loop
\* of the same run, and no error gets lost on the way.
ErrorsReported ==
    \A r \in Runs :
        /\ \A k \in 1..Len(errs[r]) : \E l \in Loops : loopErr[<<r, l>>] = errs[r][k]
        /\ result[r] # NoError => \E l \in Loops : loopErr[<<r, l>>] = result[r]
        /\ \A l \in Loops : loopErr[<<r, l>>] # NoError /\ loopPc[<<r, l>>] # "report" =>
              errs[r] # <<>> \/ result[r] # NoError
        /\ runPc[r] \in {"new", "rejected"} => result[r] = NoError /\ errs[r] = <<>>
        /\ runPc[r] = "select" => result[r] = NoError
        /\ runPc[r] = "drain" => result[r] # NoError
        /\ runPc[r] \in {"finish", "returned"} /\ result[r] = NoError => errs[r] = <<>>

\* A handler that started late is the last one of its loop.
LateBounded ==
    \A i \in LoopId :
        /\ late[i] \in {0, 1}
        /\ late[i] = 1 => PollCtxDone(i[1]) /\ loopPc[i] \notin {"idle", "new", "receive"}

IInv == TypeOK /\ Lifecycle /\ LoopReturns /\ ErrorsReported /\ LateBounded /\ InterruptHasCause

\* The loops of a run, as pairs.
LEMMA LoopIds ==
    /\ \A i \in LoopId : i[1] \in Runs /\ i[2] \in Loops /\ i = <<i[1], i[2]>>
    /\ \A r \in Runs, l \in Loops : <<r, l>> \in LoopId /\ <<r, l>>[1] = r
  BY DEF LoopId

\* process always chooses one of the three settlements.
LEMMA DecideType == \A a \in Nat, o \in Outcome : Decide(a, o) \in Settlement
  BY Zenon, MaxAttemptsAssumption DEF Decide, Outcome, Settlement

\* The inductive invariant holds before any call.
LEMMA InitIInv == WorkerInit => IInv
<1> SUFFICES ASSUME WorkerInit PROVE IInv
  BY Zenon
<1> USE LoopIds DEF WorkerInit
<1>1. TypeOK
  BY DEF TypeOK, QueueError
<1>2. Lifecycle
  BY Zenon, RunsAssumption DEF Lifecycle, LoopsExited
<1>3. LoopReturns /\ LateBounded /\ InterruptHasCause
  BY DEF LoopReturns, LateBounded, InterruptHasCause
<1>4. ErrorsReported
  BY DEF ErrorsReported
<1> QED
  BY Zenon, <1>1, <1>2, <1>3, <1>4 DEF IInv

-----------------------------------------------------------------------------
\* Every action keeps the types.
LEMMA TypeStep == TypeOK /\ Lifecycle /\ LoopReturns /\ [Next]_workerVars => TypeOK'
<1> SUFFICES ASSUME TypeOK, Lifecycle, LoopReturns, [Next]_workerVars PROVE TypeOK'
  BY Zenon
<1> USE LoopIds DEF TypeOK, runVars, ctxVars, loopVars, stopVars, CancelBoth
<1>1. ASSUME NEW r \in Runs, RunStart(r) PROVE TypeOK'
  BY Zenon, <1>1 DEF RunStart
<1>2. ASSUME NEW r \in Runs, RunReject(r) PROVE TypeOK'
  BY Zenon, <1>2 DEF RunReject
<1>3. ASSUME NEW r \in Runs, RunDrained(r) PROVE TypeOK'
  BY Zenon, <1>3 DEF RunDrained
<1>4. ASSUME NEW r \in Runs, RunFinish(r) PROVE TypeOK'
  BY Zenon, <1>4 DEF RunFinish
<1>5. ASSUME NEW r \in Runs, CancelRunCtx(r) PROVE TypeOK'
  BY Zenon, <1>5 DEF CancelRunCtx
<1>6. ASSUME NEW r \in Runs, AfterFunc(r) PROVE TypeOK'
  BY Zenon, <1>6 DEF AfterFunc
<1>7. ASSUME NEW r \in Runs, RunWorkersDone(r) PROVE TypeOK'
  <2>1. errs[r] # <<>> => Head(errs[r]) \in QueueError /\ Tail(errs[r]) \in Seq(QueueError)
    OBVIOUS
  <2> QED
    BY Zenon, <1>7, <2>1 DEF RunWorkersDone
<1>8. ASSUME NEW r \in Runs, RunLoopError(r) PROVE TypeOK'
  <2>1. Head(errs[r]) \in QueueError /\ Tail(errs[r]) \in Seq(QueueError)
    BY <1>8 DEF RunLoopError
  <2> QED
    BY Zenon, <1>8, <2>1 DEF RunLoopError
<1>9. ASSUME NEW r \in Runs, NEW l \in Loops, LoopOpen(r, l) PROVE TypeOK'
  BY Zenon, <1>9 DEF LoopOpen
<1>10. ASSUME NEW r \in Runs, NEW l \in Loops, LoopTop(r, l) PROVE TypeOK'
  BY Zenon, <1>10 DEF LoopTop
<1>11. ASSUME NEW r \in Runs, NEW l \in Loops, LoopReceiveNothing(r, l) PROVE TypeOK'
  BY Zenon, <1>11 DEF LoopReceiveNothing
<1>12. ASSUME NEW r \in Runs, NEW l \in Loops, LoopSettled(r, l) PROVE TypeOK'
  BY Zenon, <1>12 DEF LoopSettled
<1>13. ASSUME NEW r \in Runs, NEW l \in Loops, LoopCancel(r, l) PROVE TypeOK'
  BY Zenon, <1>13 DEF LoopCancel
<1>14. ASSUME NEW r \in Runs, NEW l \in Loops, NEW a \in Attempts, LoopReceive(r, l, a) PROVE TypeOK'
  <2>1. late' \in [LoopId -> Nat]
    <3>1. late[<<r, l>>] + 1 \in Nat
      OBVIOUS
    <3> QED
      BY Zenon, <1>14, <3>1 DEF LoopReceive
  <2> QED
    BY Zenon, <1>14, <2>1 DEF LoopReceive
<1>15. ASSUME NEW r \in Runs, NEW l \in Loops, NEW o \in Outcome, LoopHandled(r, l, o) PROVE TypeOK'
  <2>1. attempt[<<r, l>>] \in Nat
    BY AttemptsAssumption
  <2>2. Decide(attempt[<<r, l>>], o) \in Settlement
    BY Zenon, <2>1, DecideType
  <2> QED
    BY Zenon, <1>15, <2>2 DEF LoopHandled
<1>16. ASSUME NEW r \in Runs, NEW l \in Loops, NEW e \in QueueError, LoopQueueError(r, l, e) PROVE TypeOK'
  <2>1. CASE ExitNil(<<r, l>>)
    BY Zenon, <1>16, <2>1 DEF LoopQueueError, ExitNil
  <2>2. CASE ExitErr(<<r, l>>, e)
    BY Zenon, <1>16, <2>2 DEF LoopQueueError, ExitErr
  <2> QED
    BY Zenon, <1>16, <2>1, <2>2 DEF LoopQueueError
<1>17. ASSUME NEW r \in Runs, NEW l \in Loops, NEW e \in QueueError, LoopSettleError(r, l, e) PROVE TypeOK'
  <2>1. CASE ExitNil(<<r, l>>)
    BY Zenon, <1>17, <2>1 DEF LoopSettleError, ExitNil
  <2>2. CASE ExitErr(<<r, l>>, e)
    BY Zenon, <1>17, <2>2 DEF LoopSettleError, ExitErr
  <2> QED
    BY Zenon, <1>17, <2>1, <2>2 DEF LoopSettleError
<1>18. ASSUME NEW r \in Runs, NEW l \in Loops, LoopReport(r, l) PROVE TypeOK'
  <2>1. loopErr[<<r, l>>] \in QueueError
    BY <1>18 DEF LoopReport, LoopReturns
  <2>2. Append(errs[r], loopErr[<<r, l>>]) \in Seq(QueueError)
    BY <2>1
  <2> QED
    BY Zenon, <1>18, <2>2 DEF LoopReport
<1>19. ASSUME NEW s \in Stoppers, StopSnapshot(s) PROVE TypeOK'
  BY Zenon, <1>19 DEF StopSnapshot
<1>20. ASSUME NEW s \in Stoppers, StopPolling(s) PROVE TypeOK'
  BY Zenon, <1>20 DEF StopPolling, Lifecycle
<1>21. ASSUME NEW s \in Stoppers, StopDrained(s) PROVE TypeOK'
  BY Zenon, <1>21 DEF StopDrained
<1>22. ASSUME NEW s \in Stoppers, StopTimeout(s) PROVE TypeOK'
  BY Zenon, <1>22 DEF StopTimeout, Lifecycle
<1>23. CASE UNCHANGED workerVars
  BY Zenon, <1>23 DEF workerVars
<1> QED
  BY Zenon, <1>1, <1>2, <1>3, <1>4, <1>5, <1>6, <1>7, <1>8, <1>9, <1>10, <1>11, <1>12, <1>13,
     <1>14, <1>15, <1>16, <1>17, <1>18, <1>19, <1>20, <1>21, <1>22, <1>23
  DEF Next, RunStep, LoopStep, StopStep, Returned

-----------------------------------------------------------------------------
\* A step of a loop changes that loop only, and no run or Stop.
LEMMA LoopFrame ==
    ASSUME TypeOK, NEW r \in Runs, NEW l \in Loops, LoopStep(r, l)
    PROVE  /\ UNCHANGED <<runVars, stopVars>>
           /\ loopPc[<<r, l>>] \notin {"idle", "exited"}
           /\ loopPc'[<<r, l>>] # "idle"
           /\ \A i \in LoopId : i # <<r, l>> =>
                 /\ loopPc'[i] = loopPc[i] /\ loopErr'[i] = loopErr[i]
                 /\ attempt'[i] = attempt[i] /\ late'[i] = late[i]
<1> USE LoopIds DEF TypeOK, runVars, ctxVars, loopVars, stopVars, CancelBoth, ExitNil, ExitErr
<1>1. CASE LoopOpen(r, l) \/ LoopTop(r, l) \/ LoopReceiveNothing(r, l) \/ LoopSettled(r, l)
  BY <1>1 DEF LoopOpen, LoopTop, LoopReceiveNothing, LoopSettled
<1>2. ASSUME NEW a \in Attempts, LoopReceive(r, l, a)
      PROVE  /\ UNCHANGED <<runVars, stopVars>>
             /\ loopPc[<<r, l>>] \notin {"idle", "exited"}
             /\ loopPc'[<<r, l>>] # "idle"
             /\ \A i \in LoopId : i # <<r, l>> =>
                   /\ loopPc'[i] = loopPc[i] /\ loopErr'[i] = loopErr[i]
                   /\ attempt'[i] = attempt[i] /\ late'[i] = late[i]
  BY <1>2 DEF LoopReceive
<1>3. CASE \E o \in Outcome : LoopHandled(r, l, o)
  BY <1>3 DEF LoopHandled
<1>4. CASE \E e \in QueueError : LoopQueueError(r, l, e)
  BY <1>4 DEF LoopQueueError
<1>5. CASE \E e \in QueueError : LoopSettleError(r, l, e)
  BY <1>5 DEF LoopSettleError
<1>6. CASE LoopReport(r, l) \/ LoopCancel(r, l)
  BY <1>6 DEF LoopReport, LoopCancel
<1> QED
  BY Zenon, <1>1, <1>2, <1>3, <1>4, <1>5, <1>6 DEF LoopStep

\* Every action keeps the lifecycle.
LEMMA LifecycleStep == TypeOK /\ Lifecycle /\ [Next]_workerVars => Lifecycle'
<1> SUFFICES ASSUME TypeOK, Lifecycle, [Next]_workerVars PROVE Lifecycle'
  BY Zenon
<1> USE LoopIds, RunsAssumption DEF TypeOK, Lifecycle, LoopsExited, runVars, ctxVars, loopVars, stopVars
<1>1. ASSUME NEW r \in Runs, RunStart(r) PROVE Lifecycle'
  BY <1>1 DEF RunStart
<1>2. ASSUME NEW r \in Runs, RunReject(r) PROVE Lifecycle'
  BY <1>2 DEF RunReject
<1>3. ASSUME NEW r \in Runs, RunWorkersDone(r) PROVE Lifecycle'
  <2>1. /\ runPc[r] = "select" /\ LoopsExited(r)
        /\ runPc' = [runPc EXCEPT ![r] = "finish"]
        /\ UNCHANGED <<current, closed, loopPc, stopPc, snapshot>>
    BY Zenon, <1>3 DEF RunWorkersDone
  <2> QED
    BY <2>1
<1>4. ASSUME NEW r \in Runs, RunLoopError(r) PROVE Lifecycle'
  <2>1. /\ runPc[r] = "select"
        /\ runPc' = [runPc EXCEPT ![r] = "drain"]
        /\ UNCHANGED <<current, closed, loopPc, stopPc, snapshot>>
    BY Zenon, <1>4 DEF RunLoopError
  <2> QED
    BY <2>1
<1>5. ASSUME NEW r \in Runs, RunDrained(r) PROVE Lifecycle'
  BY <1>5 DEF RunDrained
<1>6. ASSUME NEW r \in Runs, RunFinish(r) PROVE Lifecycle'
  BY <1>6 DEF RunFinish
<1>7. ASSUME NEW r \in Runs, CancelRunCtx(r) \/ AfterFunc(r) PROVE Lifecycle'
  BY <1>7 DEF CancelRunCtx, AfterFunc
<1>8. ASSUME NEW r \in Runs, NEW l \in Loops, LoopStep(r, l) PROVE Lifecycle'
  <2>1. /\ UNCHANGED <<current, runPc, closed, stopPc, snapshot>>
        /\ loopPc[<<r, l>>] \notin {"idle", "exited"}
        /\ \A i \in LoopId : i # <<r, l>> => loopPc'[i] = loopPc[i]
    BY <1>8, LoopFrame
  <2>2. runPc[r] \in {"select", "drain"}
    <3>1. runPc[r] \notin {"new", "rejected"}
      BY <2>1
    <3>2. runPc[r] \notin {"finish", "returned"}
      BY Zenon, <2>1
    <3> QED
      BY <3>1, <3>2
  <2>3. \A q \in Runs, k \in Loops : runPc[q] \notin {"select", "drain"} =>
           loopPc'[<<q, k>>] = loopPc[<<q, k>>]
    BY Zenon, <2>1, <2>2
  <2>4. \A q \in Runs :
           /\ runPc'[q] \in {"select", "drain", "finish"} <=> current' = q
           /\ closed'[q] <=> runPc'[q] = "returned"
           /\ runPc'[q] \in {"new", "rejected"} => \A k \in Loops : loopPc'[<<q, k>>] = "idle"
           /\ runPc'[q] \in {"finish", "returned"} => LoopsExited(q)'
    BY <2>1, <2>3
  <2>5. UNCHANGED <<stopPc, snapshot, runPc, closed>>
    BY Zenon, <2>1
  <2> QED
    BY <2>4, <2>5
<1>9. ASSUME NEW s \in Stoppers, StopSnapshot(s) PROVE Lifecycle'
  <2>1. /\ UNCHANGED <<current, runPc, closed, loopPc>>
        /\ stopPc'[s] \in {"nil", "stop"} /\ snapshot'[s] = current
        /\ stopPc'[s] = "nil" <=> current = NoRun
        /\ \A u \in Stoppers : u # s => stopPc'[u] = stopPc[u] /\ snapshot'[u] = snapshot[u]
    BY <1>9 DEF StopSnapshot
  <2>2. current # NoRun => runPc[current] \notin {"new", "rejected"}
    BY Zenon
  <2>3. \A q \in Runs :
           /\ runPc'[q] \in {"select", "drain", "finish"} <=> current' = q
           /\ closed'[q] <=> runPc'[q] = "returned"
           /\ runPc'[q] \in {"new", "rejected"} => \A k \in Loops : loopPc'[<<q, k>>] = "idle"
           /\ runPc'[q] \in {"finish", "returned"} => LoopsExited(q)'
    BY <2>1
  <2>4. /\ snapshot'[s] # NoRun => runPc'[snapshot'[s]] \notin {"new", "rejected"}
        /\ stopPc'[s] \in {"stop", "wait", "timeout"} => snapshot'[s] # NoRun
        /\ stopPc'[s] # "new"
        /\ ~(stopPc'[s] = "nil" /\ snapshot'[s] # NoRun)
    BY Zenon, <2>1, <2>2
  <2>5. ASSUME NEW u \in Stoppers, u # s
        PROVE  /\ snapshot'[u] # NoRun => runPc'[snapshot'[u]] \notin {"new", "rejected"}
               /\ stopPc'[u] \in {"stop", "wait", "timeout"} => snapshot'[u] # NoRun
               /\ stopPc'[u] = "new" => snapshot'[u] = NoRun
               /\ stopPc'[u] = "nil" /\ snapshot'[u] # NoRun => closed'[snapshot'[u]]
    BY <2>1, <2>5
  <2> QED
    BY Zenon, <2>3, <2>4, <2>5
<1>10. ASSUME NEW s \in Stoppers, StopPolling(s) PROVE Lifecycle'
  BY <1>10 DEF StopPolling
<1>11. ASSUME NEW s \in Stoppers, StopDrained(s) \/ StopTimeout(s) PROVE Lifecycle'
  BY <1>11 DEF StopDrained, StopTimeout
<1>12. CASE UNCHANGED workerVars
  BY <1>12 DEF workerVars
<1> QED
  BY Zenon, <1>1, <1>2, <1>3, <1>4, <1>5, <1>6, <1>7, <1>8, <1>9, <1>10, <1>11, <1>12
  DEF Next, RunStep, StopStep, Returned

-----------------------------------------------------------------------------
\* Every action keeps what loops return.
LEMMA LoopReturnsStep ==
    TypeOK /\ Lifecycle /\ LoopReturns /\ [Next]_workerVars => LoopReturns'
<1> SUFFICES ASSUME TypeOK, Lifecycle, LoopReturns, [Next]_workerVars PROVE LoopReturns'
  BY Zenon
<1> USE LoopIds DEF runVars, ctxVars, loopVars, stopVars
<1>1. CASE /\ UNCHANGED <<loopPc, loopErr, attempt>>
           /\ \A r \in Runs : runDone[r] => runDone'[r]
  BY Zenon, <1>1 DEF LoopReturns
<1>2. ASSUME NEW r \in Runs, RunStart(r) PROVE LoopReturns'
  <2>1. \A i \in LoopId : i[1] = r => loopPc[i] = "idle"
    BY <1>2 DEF RunStart, Lifecycle
  <2> QED
    BY Zenon, <1>2, <2>1 DEF RunStart, LoopReturns, TypeOK
<1>3. ASSUME NEW r \in Runs,
             \/ RunReject(r) \/ RunWorkersDone(r) \/ RunLoopError(r) \/ RunDrained(r)
             \/ RunFinish(r) \/ AfterFunc(r)
      PROVE  LoopReturns'
  BY Zenon, <1>1, <1>3 DEF RunReject, RunWorkersDone, RunLoopError, RunDrained, RunFinish, AfterFunc
<1>4. ASSUME NEW r \in Runs, CancelRunCtx(r) PROVE LoopReturns'
  BY Zenon, <1>1, <1>4 DEF CancelRunCtx, TypeOK
<1>5. ASSUME NEW r \in Runs, NEW l \in Loops, LoopStep(r, l) PROVE LoopReturns'
  <2> DEFINE i == <<r, l>>
             Mine == /\ loopPc'[i] \in {"idle", "new", "top", "receive", "handle", "settle"} => loopErr'[i] = NoError
                     /\ loopPc'[i] \in {"report", "cancel"} => loopErr'[i] # NoError
                     /\ loopPc'[i] \in {"idle", "new", "top", "receive"} => attempt'[i] = 0
                     /\ loopPc'[i] = "exited" /\ loopErr'[i] = NoError /\ attempt'[i] # 0 => runDone[i[1]]
  <2>1. CASE LoopOpen(r, l) \/ LoopTop(r, l) \/ LoopReceiveNothing(r, l) \/ LoopSettled(r, l)
    <3>1. Mine
      BY <2>1 DEF LoopOpen, LoopTop, LoopReceiveNothing, LoopSettled, LoopReturns, TypeOK
    <3> QED
      BY <3>1, <1>5, LoopFrame DEF LoopReturns
  <2>2. CASE \E a \in Attempts : LoopReceive(r, l, a)
    <3>1. Mine
      BY <2>2 DEF LoopReceive, LoopReturns, TypeOK
    <3> QED
      BY <3>1, <1>5, LoopFrame DEF LoopReturns
  <2>3. CASE \E o \in Outcome : LoopHandled(r, l, o)
    <3>1. Mine
      BY <2>3 DEF LoopHandled, LoopReturns, TypeOK
    <3> QED
      BY <3>1, <1>5, LoopFrame DEF LoopReturns
  <2>4. CASE \E e \in QueueError : LoopQueueError(r, l, e)
    <3>1. Mine
      BY <2>4 DEF LoopQueueError, ExitNil, ExitErr, LoopReturns, TypeOK, QueueError, NoError
    <3> QED
      BY <3>1, <1>5, LoopFrame DEF LoopReturns
  <2>5. CASE \E e \in QueueError : LoopSettleError(r, l, e)
    <3>1. Mine
      BY <2>5 DEF LoopSettleError, ExitNil, ExitErr, LoopReturns, TypeOK, QueueError, NoError
    <3> QED
      BY <3>1, <1>5, LoopFrame DEF LoopReturns
  <2>6. CASE LoopReport(r, l) \/ LoopCancel(r, l)
    <3>1. Mine
      BY <2>6 DEF LoopReport, LoopCancel, LoopReturns, TypeOK
    <3> QED
      BY <3>1, <1>5, LoopFrame DEF LoopReturns
  <2> QED
    BY Zenon, <1>5, <2>1, <2>2, <2>3, <2>4, <2>5, <2>6 DEF LoopStep
<1>6. ASSUME NEW s \in Stoppers, StopStep(s) PROVE LoopReturns'
  BY Zenon, <1>1, <1>6 DEF StopStep, StopSnapshot, StopPolling, StopDrained, StopTimeout
<1>7. CASE UNCHANGED workerVars
  BY Zenon, <1>1, <1>7 DEF workerVars
<1> QED
  BY Zenon, <1>2, <1>3, <1>4, <1>5, <1>6, <1>7 DEF Next, RunStep, Returned

-----------------------------------------------------------------------------
\* Every action keeps the bound on late handlers.
LEMMA LateStep == TypeOK /\ Lifecycle /\ LateBounded /\ [Next]_workerVars => LateBounded'
<1> SUFFICES ASSUME TypeOK, Lifecycle, LateBounded, [Next]_workerVars PROVE LateBounded'
  BY Zenon
<1> USE LoopIds DEF runVars, ctxVars, loopVars, stopVars
<1>1. CASE /\ UNCHANGED <<loopPc, late>>
           /\ \A r \in Runs : PollCtxDone(r) => PollCtxDone(r)'
  BY Zenon, <1>1 DEF LateBounded
<1>2. ASSUME NEW r \in Runs, RunStart(r) PROVE LateBounded'
  <2>1. \A i \in LoopId : i[1] = r => loopPc[i] = "idle"
    BY <1>2 DEF RunStart, Lifecycle
  <2> QED
    BY Zenon, <1>2, <2>1 DEF RunStart, LateBounded, PollCtxDone, TypeOK
<1>3. ASSUME NEW r \in Runs, RunWorkersDone(r) \/ RunDrained(r) PROVE LateBounded'
  BY Zenon, <1>1, <1>3 DEF RunWorkersDone, RunDrained, PollCtxDone
<1>4. ASSUME NEW r \in Runs,
             RunReject(r) \/ RunLoopError(r) \/ RunFinish(r) \/ AfterFunc(r) \/ CancelRunCtx(r)
      PROVE  LateBounded'
  <2>1. UNCHANGED <<loopPc, late>>
    BY Zenon, <1>4 DEF RunReject, RunLoopError, RunFinish, AfterFunc, CancelRunCtx
  <2>2. \/ pollDone' = [pollDone EXCEPT ![r] = TRUE] /\ UNCHANGED runDone
        \/ runDone' = [runDone EXCEPT ![r] = TRUE] /\ UNCHANGED pollDone
    BY Zenon, <1>4 DEF RunReject, RunLoopError, RunFinish, AfterFunc, CancelRunCtx, CancelBoth
  <2>3. \A q \in Runs : (runDone[q] => runDone'[q]) /\ (pollDone[q] => pollDone'[q])
    <3>1. CASE pollDone' = [pollDone EXCEPT ![r] = TRUE] /\ UNCHANGED runDone
      BY Zenon, <3>1 DEF TypeOK
    <3>2. CASE runDone' = [runDone EXCEPT ![r] = TRUE] /\ UNCHANGED pollDone
      BY Zenon, <3>2 DEF TypeOK
    <3> QED
      BY Zenon, <2>2, <3>1, <3>2
  <2>4. \A q \in Runs : PollCtxDone(q) => PollCtxDone(q)'
    BY Zenon, <2>3 DEF PollCtxDone
  <2> QED
    BY Zenon, <1>1, <2>1, <2>4
<1>5. ASSUME NEW r \in Runs, NEW l \in Loops, LoopStep(r, l) PROVE LateBounded'
  <2> DEFINE i == <<r, l>>
             Mine == /\ late'[i] \in {0, 1}
                     /\ late'[i] = 1 => PollCtxDone(r)' /\ loopPc'[i] \notin {"idle", "new", "receive"}
                     /\ \A q \in Runs : PollCtxDone(q) => PollCtxDone(q)'
  <2>0. ASSUME Mine PROVE LateBounded'
    BY <1>5, <2>0, LoopFrame DEF LateBounded
  <2>1. CASE LoopOpen(r, l) \/ LoopTop(r, l) \/ LoopReceiveNothing(r, l) \/ LoopSettled(r, l)
    BY <2>0, <2>1 DEF LoopOpen, LoopTop, LoopReceiveNothing, LoopSettled, LateBounded, TypeOK, PollCtxDone
  <2>2. CASE \E a \in Attempts : LoopReceive(r, l, a)
    <3>1. late[i] = 0 /\ loopPc'[i] = "handle" /\ UNCHANGED <<runDone, pollDone>>
      BY <2>2 DEF LoopReceive, LateBounded, TypeOK
    <3>2. late'[i] = IF PollCtxDone(r) THEN 0 + 1 ELSE 0
      BY <2>2, <3>1 DEF LoopReceive, TypeOK
    <3> QED
      BY <2>0, <3>1, <3>2 DEF PollCtxDone
  <2>3. CASE \E o \in Outcome : LoopHandled(r, l, o)
    BY <2>0, <2>3 DEF LoopHandled, LateBounded, TypeOK, PollCtxDone
  <2>4. CASE \E e \in QueueError : LoopQueueError(r, l, e) \/ LoopSettleError(r, l, e)
    BY <2>0, <2>4 DEF LoopQueueError, LoopSettleError, ExitNil, ExitErr, LateBounded, TypeOK, PollCtxDone
  <2>5. CASE LoopReport(r, l)
    BY Zenon, <2>0, <2>5 DEF LoopReport, LateBounded, TypeOK, PollCtxDone
  <2>6. CASE LoopCancel(r, l)
    BY <2>0, <2>6 DEF LoopCancel, CancelBoth, LateBounded, TypeOK, PollCtxDone
  <2> QED
    BY Zenon, <1>5, <2>1, <2>2, <2>3, <2>4, <2>5, <2>6 DEF LoopStep
<1>6. ASSUME NEW s \in Stoppers, StopSnapshot(s) \/ StopDrained(s) \/ StopTimeout(s) PROVE LateBounded'
  BY Zenon, <1>1, <1>6 DEF StopSnapshot, StopDrained, StopTimeout, PollCtxDone
<1>7. ASSUME NEW s \in Stoppers, StopPolling(s) PROVE LateBounded'
  BY Zenon, <1>1, <1>7 DEF StopPolling, PollCtxDone, TypeOK
<1>8. CASE UNCHANGED workerVars
  BY Zenon, <1>1, <1>8 DEF workerVars, PollCtxDone
<1> QED
  BY Zenon, <1>2, <1>3, <1>4, <1>5, <1>6, <1>7, <1>8 DEF Next, RunStep, StopStep, Returned

-----------------------------------------------------------------------------
\* A loop at work belongs to a run that waits for its loops.
LEMMA LoopOfRun ==
    ASSUME TypeOK, Lifecycle, NEW r \in Runs, NEW l \in Loops,
           loopPc[<<r, l>>] \notin {"idle", "exited"}
    PROVE  runPc[r] \in {"select", "drain"}
<1>1. runPc[r] \notin {"new", "rejected"}
  BY Zenon DEF Lifecycle
<1>2. runPc[r] \notin {"finish", "returned"}
  BY Zenon DEF Lifecycle, LoopsExited
<1> QED
  BY <1>1, <1>2 DEF TypeOK

\* The first error of a nonempty channel, and the rest.
LEMMA TakeError ==
    ASSUME NEW es \in Seq(QueueError), es # <<>>
    PROVE  /\ Head(es) = es[1] /\ 1 \in 1..Len(es) /\ Head(es) # NoError
           /\ \A k \in 1..Len(Tail(es)) : k + 1 \in 1..Len(es) /\ Tail(es)[k] = es[k + 1]
<1>1. Len(es) \in Nat \ {0} /\ Head(es) = es[1] /\ es[1] \in QueueError
  OBVIOUS
<1>2. Len(Tail(es)) = Len(es) - 1 /\ \A k \in 1..Len(Tail(es)) : Tail(es)[k] = es[k + 1]
  OBVIOUS
<1>3. Head(es) # NoError
  BY Zenon, <1>1 DEF QueueError, NoError
<1> QED
  BY <1>1, <1>2, <1>3

\* Loop l of run r ended with error e, for some l.
Failed(r, e) == \E l \in Loops : loopErr[<<r, l>>] = e

\* What ErrorsReported says of one run.
ReportedBy(r) ==
    /\ \A k \in 1..Len(errs[r]) : Failed(r, errs[r][k])
    /\ result[r] # NoError => Failed(r, result[r])
    /\ \A l \in Loops : loopErr[<<r, l>>] # NoError /\ loopPc[<<r, l>>] # "report" =>
          errs[r] # <<>> \/ result[r] # NoError
    /\ runPc[r] \in {"new", "rejected"} => result[r] = NoError /\ errs[r] = <<>>
    /\ runPc[r] = "select" => result[r] = NoError
    /\ runPc[r] = "drain" => result[r] # NoError
    /\ runPc[r] \in {"finish", "returned"} /\ result[r] = NoError => errs[r] = <<>>

\* A step that leaves the channel and the result alone: errors stay errors,
\* and a loop that has one now and is not to report it had it before.
LEMMA SameReport ==
    ASSUME TypeOK, NEW q \in Runs, ReportedBy(q),
           errs'[q] = errs[q], result'[q] = result[q], runPc'[q] = runPc[q],
           \A e \in QueueError : Failed(q, e) => Failed(q, e)',
           \A l \in Loops : loopErr'[<<q, l>>] # NoError /\ loopPc'[<<q, l>>] # "report" =>
               loopErr[<<q, l>>] # NoError /\ loopPc[<<q, l>>] # "report"
    PROVE  ReportedBy(q)'
<1>1. \A k \in 1..Len(errs[q]) : errs[q][k] \in QueueError
  BY DEF TypeOK
<1>2. \A k \in 1..Len(errs'[q]) : Failed(q, errs[q][k])'
  BY Zenon, <1>1 DEF ReportedBy
<1>3. result'[q] # NoError => Failed(q, result[q])'
  BY Zenon DEF ReportedBy, TypeOK
<1>4. \A l \in Loops : loopErr'[<<q, l>>] # NoError /\ loopPc'[<<q, l>>] # "report" =>
         errs'[q] # <<>> \/ result'[q] # NoError
  BY Zenon DEF ReportedBy
<1>5. /\ runPc'[q] \in {"new", "rejected"} => result'[q] = NoError /\ errs'[q] = <<>>
      /\ runPc'[q] = "select" => result'[q] = NoError
      /\ runPc'[q] = "drain" => result'[q] # NoError
      /\ runPc'[q] \in {"finish", "returned"} /\ result'[q] = NoError => errs'[q] = <<>>
  BY Zenon DEF ReportedBy
<1> QED
  BY Zenon, <1>2, <1>3, <1>4, <1>5 DEF ReportedBy

\* Every action keeps errors from getting lost.
LEMMA ReportedStep ==
    TypeOK /\ Lifecycle /\ LoopReturns /\ ErrorsReported /\ [Next]_workerVars => ErrorsReported'
<1> SUFFICES ASSUME TypeOK, Lifecycle, LoopReturns, ErrorsReported, [Next]_workerVars,
                    NEW q \in Runs
             PROVE  ReportedBy(q)'
  BY Zenon DEF ErrorsReported, ReportedBy, Failed
<1> USE LoopIds DEF runVars, ctxVars, loopVars, stopVars
<1>0. ReportedBy(q)
  BY Zenon DEF ErrorsReported, ReportedBy, Failed
<1>1. CASE /\ errs'[q] = errs[q] /\ result'[q] = result[q] /\ runPc'[q] = runPc[q]
           /\ \A l \in Loops : loopPc'[<<q, l>>] = loopPc[<<q, l>>] /\ loopErr'[<<q, l>>] = loopErr[<<q, l>>]
  BY Zenon, <1>0, <1>1, SameReport DEF Failed
<1>2. ASSUME NEW r \in Runs, RunStart(r) PROVE ReportedBy(q)'
  <2>1. CASE q # r
    <3>1. /\ errs'[q] = errs[q] /\ result'[q] = result[q] /\ runPc'[q] = runPc[q]
          /\ \A l \in Loops : loopPc'[<<q, l>>] = loopPc[<<q, l>>] /\ loopErr'[<<q, l>>] = loopErr[<<q, l>>]
      BY Zenon, <1>2, <2>1 DEF RunStart, TypeOK
    <3> QED
      BY Zenon, <1>1, <3>1
  <2>2. CASE q = r
    <3>1. result[q] = NoError /\ errs[q] = <<>> /\ UNCHANGED <<result, errs, loopErr>>
          /\ runPc'[q] = "select"
      BY Zenon, <1>0, <1>2, <2>2 DEF RunStart, ReportedBy, TypeOK
    <3>2. \A l \in Loops : loopErr[<<q, l>>] = NoError
      BY Zenon, <1>2, <2>2 DEF RunStart, Lifecycle, LoopReturns
    <3> QED
      BY <3>1, <3>2 DEF ReportedBy
  <2> QED
    BY Zenon, <2>1, <2>2
<1>3. ASSUME NEW r \in Runs, RunReject(r) \/ RunFinish(r) \/ RunDrained(r) PROVE ReportedBy(q)'
  <2>1. /\ UNCHANGED <<errs, result, loopPc, loopErr>>
        /\ \A p \in Runs : p # r => runPc'[p] = runPc[p]
        /\ \/ runPc[r] = "new" /\ runPc'[r] = "rejected"
           \/ runPc[r] = "finish" /\ runPc'[r] = "returned"
           \/ runPc[r] = "drain" /\ runPc'[r] = "finish"
    BY <1>3 DEF RunReject, RunFinish, RunDrained, TypeOK
  <2>2. CASE q # r
    BY Zenon, <1>1, <2>1, <2>2
  <2>3. CASE q = r
    BY Zenon, <1>0, <2>1, <2>3 DEF ReportedBy, Failed
  <2> QED
    BY Zenon, <2>2, <2>3
<1>4. ASSUME NEW r \in Runs, RunWorkersDone(r) \/ RunLoopError(r) PROVE ReportedBy(q)'
  <2>1. CASE q # r
    <3>1. /\ errs'[q] = errs[q] /\ result'[q] = result[q] /\ runPc'[q] = runPc[q]
          /\ UNCHANGED <<loopPc, loopErr>>
      BY <1>4, <2>1 DEF RunWorkersDone, RunLoopError, TypeOK
    <3> QED
      BY Zenon, <1>1, <3>1
  <2>2. CASE q = r /\ errs[r] # <<>>
    <3>1. /\ errs'[q] = Tail(errs[q]) /\ result'[q] = Head(errs[q])
          /\ runPc'[q] \in {"finish", "drain"} /\ UNCHANGED <<loopPc, loopErr>>
      BY <1>4, <2>2 DEF RunWorkersDone, RunLoopError, TypeOK
    <3>2. /\ Head(errs[q]) = errs[q][1] /\ 1 \in 1..Len(errs[q]) /\ Head(errs[q]) # NoError
          /\ \A k \in 1..Len(Tail(errs[q])) :
                k + 1 \in 1..Len(errs[q]) /\ Tail(errs[q])[k] = errs[q][k + 1]
      <4>1. errs[q] \in Seq(QueueError) /\ errs[q] # <<>>
        BY Zenon, <2>2 DEF TypeOK
      <4> QED
        BY Zenon, <4>1, TakeError
    <3>3. \A k \in 1..Len(errs'[q]) : Failed(q, errs[q][k])'
      BY <1>0, <3>1, <3>2 DEF ReportedBy, Failed
    <3>4. Failed(q, result[q])'
      BY <1>0, <3>1, <3>2 DEF ReportedBy, Failed
    <3> QED
      BY Zenon, <3>1, <3>2, <3>3, <3>4 DEF ReportedBy
  <2>3. CASE q = r /\ errs[r] = <<>>
    <3>1. /\ errs'[q] = <<>> /\ errs[q] = <<>> /\ result[q] = NoError /\ result'[q] = NoError
          /\ runPc'[q] = "finish" /\ UNCHANGED <<loopPc, loopErr>>
      BY <1>0, <1>4, <2>3 DEF RunWorkersDone, RunLoopError, TypeOK, ReportedBy
    <3> QED
      BY <1>0, <3>1 DEF ReportedBy
  <2> QED
    BY Zenon, <2>1, <2>2, <2>3
<1>5. ASSUME NEW r \in Runs, NEW l \in Loops, LoopStep(r, l) PROVE ReportedBy(q)'
  <2> DEFINE i == <<r, l>>
  <2>0. /\ UNCHANGED <<result, runPc>>
        /\ loopPc[i] \notin {"idle", "exited"}
        /\ \A k \in Loops : <<q, k>> # i =>
              loopPc'[<<q, k>>] = loopPc[<<q, k>>] /\ loopErr'[<<q, k>>] = loopErr[<<q, k>>]
    BY <1>5, LoopFrame
  <2>1. CASE /\ UNCHANGED errs /\ loopErr'[i] = loopErr[i]
             /\ loopPc[i] # "report" \/ loopErr[i] = NoError
    <3>1. /\ \A e \in QueueError : Failed(q, e) => Failed(q, e)'
          /\ \A k \in Loops : loopErr'[<<q, k>>] # NoError /\ loopPc'[<<q, k>>] # "report" =>
               loopErr[<<q, k>>] # NoError /\ loopPc[<<q, k>>] # "report"
      BY Zenon, <2>0, <2>1 DEF Failed
    <3> QED
      BY Zenon, <1>0, <2>0, <2>1, <3>1, SameReport
  <2>2. CASE UNCHANGED errs /\ loopErr[i] = NoError /\ loopPc'[i] = "report"
    <3>1. /\ \A e \in QueueError : Failed(q, e) => Failed(q, e)'
          /\ \A k \in Loops : loopErr'[<<q, k>>] # NoError /\ loopPc'[<<q, k>>] # "report" =>
               loopErr[<<q, k>>] # NoError /\ loopPc[<<q, k>>] # "report"
      <4>1. NoError \notin QueueError
        BY Zenon DEF QueueError, NoError
      <4> QED
        BY <2>0, <2>2, <4>1 DEF Failed
    <3> QED
      BY Zenon, <1>0, <2>0, <2>2, <3>1, SameReport
  <2>3. CASE LoopOpen(r, l) \/ LoopTop(r, l) \/ LoopReceiveNothing(r, l) \/ LoopSettled(r, l)
    BY Zenon, <2>1, <2>3 DEF LoopOpen, LoopTop, LoopReceiveNothing, LoopSettled
  <2>4. CASE \E a \in Attempts : LoopReceive(r, l, a)
    BY Zenon, <2>1, <2>4 DEF LoopReceive
  <2>5. CASE \E o \in Outcome : LoopHandled(r, l, o)
    BY Zenon, <2>1, <2>5 DEF LoopHandled
  <2>6. ASSUME NEW e \in QueueError, LoopQueueError(r, l, e) \/ LoopSettleError(r, l, e)
        PROVE  ReportedBy(q)'
    <3>1. UNCHANGED errs /\ loopPc[i] \in {"new", "receive", "settle"} /\ loopErr[i] = NoError
      BY Zenon, <2>6 DEF LoopQueueError, LoopSettleError, LoopReturns
    <3>2. loopErr'[i] = loopErr[i] \/ loopPc'[i] = "report"
      BY <2>6 DEF LoopQueueError, LoopSettleError, ExitNil, ExitErr, TypeOK
    <3> QED
      BY Zenon, <2>1, <2>2, <3>1, <3>2
  <2>7. CASE LoopReport(r, l)
    <3>1. UNCHANGED loopErr /\ \A p \in Runs : p # r => errs'[p] = errs[p]
      BY Zenon, <2>7 DEF LoopReport, TypeOK
    <3>2. CASE q # r
      BY Zenon, <1>1, <2>0, <3>1, <3>2
    <3>3. CASE q = r
      <4>1. errs'[q] = Append(errs[q], loopErr[i]) /\ errs[q] \in Seq(QueueError)
            /\ loopErr[i] \in QueueError
        BY <2>7, <3>3 DEF LoopReport, LoopReturns, TypeOK
      <4>2. errs'[q] # <<>> /\ \A k \in 1..Len(errs'[q]) :
               errs'[q][k] = loopErr[i] \/ (k \in 1..Len(errs[q]) /\ errs'[q][k] = errs[q][k])
        BY <4>1
      <4>3. \A k \in 1..Len(errs'[q]) : Failed(q, errs[q][k])'
        BY <1>0, <3>1, <3>3, <4>2 DEF ReportedBy, Failed
      <4>4. runPc[q] \in {"select", "drain"}
        BY Zenon, <2>0, <3>3, LoopOfRun
      <4> QED
        BY Zenon, <1>0, <2>0, <3>1, <4>2, <4>3, <4>4 DEF ReportedBy, Failed
    <3> QED
      BY Zenon, <3>2, <3>3
  <2>8. CASE LoopCancel(r, l)
    BY Zenon, <2>1, <2>8 DEF LoopCancel
  <2> QED
    BY Zenon, <1>5, <2>3, <2>4, <2>5, <2>6, <2>7, <2>8 DEF LoopStep
<1>6. ASSUME NEW r \in Runs, CancelRunCtx(r) \/ AfterFunc(r) PROVE ReportedBy(q)'
  BY Zenon, <1>1, <1>6 DEF CancelRunCtx, AfterFunc
<1>7. ASSUME NEW s \in Stoppers, StopStep(s) PROVE ReportedBy(q)'
  BY Zenon, <1>1, <1>7 DEF StopStep, StopSnapshot, StopPolling, StopDrained, StopTimeout
<1>8. CASE UNCHANGED workerVars
  BY Zenon, <1>1, <1>8 DEF workerVars
<1> QED
  BY Zenon, <1>2, <1>3, <1>4, <1>5, <1>6, <1>7, <1>8 DEF Next, RunStep, Returned

-----------------------------------------------------------------------------
\* What may cancel the handlers of run r.
Cause(r) ==
    \/ runDone[r]
    \/ runPc[r] \in {"returned", "rejected"}
    \/ \E s \in Stoppers : snapshot[s] = r /\ stopPc[s] = "timeout"
    \/ \E l \in Loops : loopErr[<<r, l>>] # NoError

\* A cause stays one as long as nothing is undone.
LEMMA CauseStable ==
    ASSUME InterruptHasCause,
           \A q \in Runs : runDone[q] => runDone'[q],
           \A q \in Runs : runPc[q] \in {"returned", "rejected"} => runPc'[q] = runPc[q],
           \A s \in Stoppers : stopPc[s] = "timeout" => stopPc'[s] = stopPc[s] /\ snapshot'[s] = snapshot[s],
           \A i \in LoopId : loopErr[i] # NoError => loopErr'[i] # NoError,
           \A q \in Runs : intrDone'[q] => intrDone[q] \/ Cause(q)'
    PROVE  InterruptHasCause'
<1>1. \A q \in Runs : Cause(q) => Cause(q)'
  BY Zenon, LoopIds DEF Cause
<1>2. \A q \in Runs : intrDone[q] => Cause(q)
  BY Zenon DEF InterruptHasCause, Cause
<1>3. \A q \in Runs : intrDone'[q] => Cause(q)'
  BY Zenon, <1>1, <1>2
<1> QED
  BY Zenon, <1>3 DEF InterruptHasCause, Cause

\* Every action keeps cancellations justified.
LEMMA InterruptStep ==
    TypeOK /\ Lifecycle /\ LoopReturns /\ ErrorsReported /\ InterruptHasCause /\ [Next]_workerVars
        => InterruptHasCause'
<1> SUFFICES ASSUME TypeOK, Lifecycle, LoopReturns, ErrorsReported, InterruptHasCause,
                    [Next]_workerVars
             PROVE  InterruptHasCause'
  BY Zenon
<1> USE LoopIds DEF runVars, ctxVars, loopVars, stopVars, CancelBoth
<1>1. ASSUME NEW r \in Runs, RunStart(r) \/ RunWorkersDone(r) \/ RunDrained(r) PROVE InterruptHasCause'
  <2>1. /\ UNCHANGED <<runDone, stopPc, snapshot, loopErr, intrDone>>
        /\ \A q \in Runs : runPc[q] \in {"returned", "rejected"} => runPc'[q] = runPc[q]
    BY Zenon, <1>1 DEF RunStart, RunWorkersDone, RunDrained, TypeOK
  <2> QED
    BY Zenon, <2>1, CauseStable
<1>2. ASSUME NEW r \in Runs, RunReject(r) \/ RunFinish(r) PROVE InterruptHasCause'
  <2>1. /\ UNCHANGED <<runDone, stopPc, snapshot, loopErr>>
        /\ \A q \in Runs : runPc[q] \in {"returned", "rejected"} => runPc'[q] = runPc[q]
        /\ runPc'[r] \in {"returned", "rejected"}
        /\ \A q \in Runs : q # r => intrDone'[q] = intrDone[q]
    BY <1>2 DEF RunReject, RunFinish, TypeOK
  <2>2. Cause(r)'
    BY Zenon, <2>1 DEF Cause
  <2>3. \A q \in Runs : intrDone'[q] => intrDone[q] \/ Cause(q)'
    BY Zenon, <2>1, <2>2
  <2> QED
    BY Zenon, <2>1, <2>3, CauseStable
<1>3. ASSUME NEW r \in Runs, RunLoopError(r) PROVE InterruptHasCause'
  <2>1. /\ UNCHANGED <<runDone, stopPc, snapshot, loopErr>>
        /\ \A q \in Runs : runPc[q] \in {"returned", "rejected"} => runPc'[q] = runPc[q]
        /\ \A q \in Runs : q # r => intrDone'[q] = intrDone[q]
    BY Zenon, <1>3 DEF RunLoopError, TypeOK
  <2>2. errs[r] \in Seq(QueueError) /\ errs[r] # <<>>
    BY Zenon, <1>3 DEF RunLoopError, TypeOK
  <2>3. \E l \in Loops : loopErr[<<r, l>>] # NoError
    BY <2>2, TakeError DEF ErrorsReported
  <2>4. Cause(r)'
    BY Zenon, <2>1, <2>3 DEF Cause
  <2>5. \A q \in Runs : intrDone'[q] => intrDone[q] \/ Cause(q)'
    BY Zenon, <2>1, <2>4
  <2> QED
    BY Zenon, <2>1, <2>5, CauseStable
<1>4. ASSUME NEW r \in Runs, CancelRunCtx(r) PROVE InterruptHasCause'
  <2>1. /\ UNCHANGED <<runPc, stopPc, snapshot, loopErr, intrDone>>
        /\ \A q \in Runs : runDone[q] => runDone'[q]
    BY Zenon, <1>4 DEF CancelRunCtx, TypeOK
  <2> QED
    BY Zenon, <2>1, CauseStable
<1>5. ASSUME NEW r \in Runs, AfterFunc(r) PROVE InterruptHasCause'
  <2>1. /\ UNCHANGED <<runPc, runDone, stopPc, snapshot, loopErr>>
        /\ \A q \in Runs : q # r => intrDone'[q] = intrDone[q]
        /\ runDone[r]
    BY Zenon, <1>5 DEF AfterFunc, TypeOK
  <2>2. \A q \in Runs : intrDone'[q] => intrDone[q] \/ Cause(q)'
    BY Zenon, <2>1 DEF Cause
  <2> QED
    BY Zenon, <2>1, <2>2, CauseStable
<1>6. ASSUME NEW r \in Runs, NEW l \in Loops, LoopStep(r, l) PROVE InterruptHasCause'
  <2>1. /\ UNCHANGED <<runPc, runDone, stopPc, snapshot>>
        /\ \A i \in LoopId : i # <<r, l>> => loopErr'[i] = loopErr[i]
    BY Zenon, <1>6, LoopFrame
  <2>2. CASE UNCHANGED intrDone /\ (loopErr[<<r, l>>] # NoError => loopErr'[<<r, l>>] # NoError)
    BY Zenon, <2>1, <2>2, CauseStable
  <2>3. CASE LoopOpen(r, l) \/ LoopTop(r, l) \/ LoopReceiveNothing(r, l) \/ LoopSettled(r, l)
    BY Zenon, <2>2, <2>3 DEF LoopOpen, LoopTop, LoopReceiveNothing, LoopSettled
  <2>4. CASE \E a \in Attempts : LoopReceive(r, l, a)
    BY Zenon, <2>2, <2>4 DEF LoopReceive
  <2>5. CASE \E o \in Outcome : LoopHandled(r, l, o)
    BY Zenon, <2>2, <2>5 DEF LoopHandled
  <2>6. CASE \E e \in QueueError : LoopQueueError(r, l, e) \/ LoopSettleError(r, l, e)
    <3>1. UNCHANGED intrDone /\ loopErr[<<r, l>>] = NoError
      BY Zenon, <2>6 DEF LoopQueueError, LoopSettleError, LoopReturns
    <3> QED
      BY Zenon, <2>2, <3>1
  <2>7. CASE LoopReport(r, l)
    BY Zenon, <2>2, <2>7 DEF LoopReport
  <2>8. CASE LoopCancel(r, l)
    <3>1. UNCHANGED loopErr /\ loopErr[<<r, l>>] # NoError
          /\ \A q \in Runs : q # r => intrDone'[q] = intrDone[q]
      BY <2>8 DEF LoopCancel, LoopReturns, TypeOK
    <3>2. \A q \in Runs : intrDone'[q] => intrDone[q] \/ Cause(q)'
      BY Zenon, <3>1 DEF Cause
    <3> QED
      BY Zenon, <2>1, <3>1, <3>2, CauseStable
  <2> QED
    BY Zenon, <1>6, <2>3, <2>4, <2>5, <2>6, <2>7, <2>8 DEF LoopStep
<1>7. ASSUME NEW s \in Stoppers, StopSnapshot(s) \/ StopPolling(s) \/ StopDrained(s) PROVE InterruptHasCause'
  <2>1. /\ UNCHANGED <<runPc, runDone, loopErr, intrDone>>
        /\ \A u \in Stoppers : stopPc[u] = "timeout" => stopPc'[u] = stopPc[u] /\ snapshot'[u] = snapshot[u]
    BY <1>7 DEF StopSnapshot, StopPolling, StopDrained, TypeOK
  <2> QED
    BY Zenon, <2>1, CauseStable
<1>8. ASSUME NEW s \in Stoppers, StopTimeout(s) PROVE InterruptHasCause'
  <2>1. /\ UNCHANGED <<runPc, runDone, loopErr, snapshot>>
        /\ \A u \in Stoppers : stopPc[u] = "timeout" => stopPc'[u] = stopPc[u]
        /\ stopPc'[s] = "timeout"
        /\ \A q \in Runs : q # snapshot[s] => intrDone'[q] = intrDone[q]
    BY <1>8 DEF StopTimeout, TypeOK
  <2>2. \A q \in Runs : intrDone'[q] => intrDone[q] \/ Cause(q)'
    BY Zenon, <2>1 DEF Cause
  <2> QED
    BY Zenon, <2>1, <2>2, CauseStable
<1>9. CASE UNCHANGED workerVars
  BY Zenon, <1>9, CauseStable DEF workerVars
<1> QED
  BY Zenon, <1>1, <1>2, <1>3, <1>4, <1>5, <1>6, <1>7, <1>8, <1>9 DEF Next, RunStep, StopStep, Returned

-----------------------------------------------------------------------------
\* IInv is inductive.
LEMMA IInvStep == IInv /\ [Next]_workerVars => IInv'
  BY Zenon, TypeStep, LifecycleStep, LoopReturnsStep, ReportedStep, LateStep, InterruptStep DEF IInv

\* IInv is an invariant of the worker.
LEMMA IInvHolds == Spec => []IInv
  BY InitIInv, IInvStep, PTL DEF Spec

\* Everything Run, loop and Stop assign has its type.
THEOREM TypeCorrect == Spec => []TypeOK
<1>1. IInv => TypeOK
  BY Zenon DEF IInv
<1> QED
  BY <1>1, IInvHolds, PTL

\* Stop returns nil only after every loop of the run it addressed has exited
\* and Run has returned.
THEOREM StopNilIsDrained == Spec => []StopNilMeansDrained
<1>1. IInv => StopNilMeansDrained
  BY DEF IInv, TypeOK, Lifecycle, StopNilMeansDrained
<1> QED
  BY <1>1, IInvHolds, PTL

\* Loops of two runs are never at work at the same time.
THEOREM RunsExclude == Spec => []OneRunAtATime
<1>1. ASSUME IInv, NEW i \in LoopId, loopPc[i] \notin {"idle", "exited"} PROVE current = i[1]
  <2>1. i[1] \in Runs /\ i[2] \in Loops /\ loopPc[<<i[1], i[2]>>] \notin {"idle", "exited"}
    BY Zenon, <1>1, LoopIds
  <2>2. runPc[i[1]] \in {"select", "drain"}
    BY Zenon, <1>1, <2>1, LoopOfRun DEF IInv
  <2> QED
    BY Zenon, <1>1, <2>1, <2>2 DEF IInv, Lifecycle
<1>2. IInv => OneRunAtATime
  BY Zenon, <1>1 DEF OneRunAtATime
<1> QED
  BY <1>2, IInvHolds, PTL

\* Run returns nil only when no loop failed and nothing was left unsettled
\* that the end of Run's own context does not explain.
THEOREM NilIsSettled == Spec => []NilMeansSettled
<1>1. ASSUME IInv, NEW r \in Runs, NEW l \in Loops, runPc[r] = "returned", result[r] = NoError
      PROVE  loopErr[<<r, l>>] = NoError /\ (attempt[<<r, l>>] # 0 => runDone[r])
  <2>1. loopPc[<<r, l>>] = "exited"
    BY Zenon, <1>1 DEF IInv, Lifecycle, LoopsExited
  <2>2. errs[r] = <<>>
    BY Zenon, <1>1 DEF IInv, ErrorsReported
  <2>3. loopErr[<<r, l>>] = NoError
    BY Zenon, <1>1, <2>1, <2>2 DEF IInv, ErrorsReported
  <2> QED
    BY Zenon, <1>1, <2>1, <2>3, LoopIds DEF IInv, LoopReturns
<1>2. IInv => NilMeansSettled
  BY Zenon, <1>1 DEF NilMeansSettled
<1> QED
  BY <1>2, IInvHolds, PTL

\* The error Run returns is one of its loops' errors.
THEOREM ResultFromLoop == Spec => []ResultIsALoopError
<1>1. IInv => ResultIsALoopError
  BY Zenon DEF IInv, ErrorsReported, ResultIsALoopError
<1> QED
  BY <1>1, IInvHolds, PTL

\* A loop starts at most one handler after pollCtx is done.
THEOREM LateHandlers == Spec => []AtMostOneLateHandler
<1>1. IInv => AtMostOneLateHandler
  BY DEF IInv, LateBounded, AtMostOneLateHandler
<1> QED
  BY <1>1, IInvHolds, PTL

\* The handlers of a run are cancelled for a reason of that run.
THEOREM InterruptsJustified == Spec => []InterruptHasCause
<1>1. IInv => InterruptHasCause
  BY Zenon DEF IInv
<1> QED
  BY <1>1, IInvHolds, PTL

-----------------------------------------------------------------------------
(* The worker on the in-memory adapter *)

\* A step of the composition is a step of the worker or leaves it alone.
LEMMA MemoryStep == MemNext => [Next]_workerVars
<1>1. ASSUME NEW r \in Runs, NEW l \in Loops, MemLoopStep(r, l) PROVE [Next]_workerVars
  <2>1. CASE Search(r, l)
    BY Zenon, <2>1 DEF Search
  <2>2. CASE ~Search(r, l)
    <3>1. LoopStep(r, l)
      BY Zenon, <1>1, <2>2 DEF MemLoopStep, Open, Top, Deliver, ReceiveStopped, Handle, SettleAck, SettleRetry, SettleDead,
                        SettleFails, Unwind, LoopStep, QueueError
    <3> QED BY Zenon, <3>1 DEF Next
  <2> QED BY Zenon, <2>1, <2>2
<1>2. CASE Produce \/ Advance
  BY Zenon, <1>2 DEF Produce, Advance
<1>3. CASE Idle
  BY Zenon, <1>3 DEF Idle, allVars
<1>4. CASE \/ \E r \in Runs : (RunStep(r) \/ CancelRunCtx(r) \/ AfterFunc(r)) /\ UNCHANGED memVars
           \/ \E s \in Stoppers : StopStep(s) /\ UNCHANGED memVars
  BY Zenon, <1>4 DEF Next
<1> QED BY Zenon, <1>1, <1>2, <1>3, <1>4 DEF MemNext

\* The worker on the in-memory adapter is the worker: the adapter answers as some
\* queue does, so all that is proved of QueueWorker holds of it.
THEOREM MemoryWorkerIsWorker == MemSpec => WorkerInit /\ [][Next]_workerVars
<1>1. MemoryWorkerInit => WorkerInit
  BY Zenon DEF MemoryWorkerInit
<1>2. [MemNext]_allVars => [Next]_workerVars
  BY Zenon, MemoryStep DEF allVars
<1> QED BY <1>1, <1>2, PTL DEF MemSpec

\* Somebody asked for the handlers to be cancelled.
Blame == (\E r \in Runs : runDone[r]) \/ (\E s \in Stoppers : stopPc[s] = "timeout")

\* No loop fails and no task is lost before somebody did, and the run that lost a
\* task has its context done or an error to report.
Losses ==
    /\ \A r \in Runs, l \in Loops : loopErr[<<r, l>>] # NoError => Blame
    /\ lost # {} => Blame /\ \E r \in Runs : intrDone[r] /\ (runDone[r] \/ \E l \in Loops : loopErr[<<r, l>>] # NoError)

\* A context that is done stays so, a cancelled run cancelled and a failed loop failed.
LEMMA Monotone ==
    ASSUME IInv, [Next]_workerVars
    PROVE  /\ \A r \in Runs : (runDone[r] => runDone'[r]) /\ (intrDone[r] => intrDone'[r])
           /\ \A i \in LoopId : loopErr[i] # NoError => loopErr'[i] # NoError
           /\ \A s \in Stoppers : stopPc[s] = "timeout" => stopPc'[s] = "timeout"
<1> USE DEF IInv, TypeOK, runVars, ctxVars, loopVars, stopVars, CancelBoth
<1>1. CASE UNCHANGED workerVars
  BY Zenon, <1>1 DEF workerVars
<1>2. ASSUME NEW r \in Runs, RunStep(r) \/ CancelRunCtx(r) \/ AfterFunc(r)
      PROVE  /\ \A q \in Runs : (runDone[q] => runDone'[q]) /\ (intrDone[q] => intrDone'[q])
             /\ UNCHANGED <<loopErr, stopPc>>
  <2>1. CASE RunStart(r) \/ RunReject(r) \/ RunWorkersDone(r) \/ RunDrained(r) \/ RunFinish(r)
    <3>1. CASE RunStart(r) \/ RunReject(r)
      BY Zenon, <3>1 DEF RunStart, RunReject
    <3>2. CASE RunWorkersDone(r) \/ RunDrained(r)
      BY Zenon, <3>2 DEF RunWorkersDone, RunDrained
    <3>3. CASE RunFinish(r)
      BY Zenon, <3>3 DEF RunFinish
    <3> QED BY Zenon, <2>1, <3>1, <3>2, <3>3
  <2>2. CASE RunLoopError(r)
    BY <2>2 DEF RunLoopError
  <2>3. CASE CancelRunCtx(r) \/ AfterFunc(r)
    BY Zenon, <2>3 DEF CancelRunCtx, AfterFunc
  <2> QED BY Zenon, <1>2, <2>1, <2>2, <2>3 DEF RunStep
<1>3. ASSUME NEW s \in Stoppers, StopStep(s)
      PROVE  /\ \A q \in Runs : (runDone[q] => runDone'[q]) /\ (intrDone[q] => intrDone'[q])
             /\ UNCHANGED loopErr /\ \A u \in Stoppers : stopPc[u] = "timeout" => stopPc'[u] = "timeout"
  <2>1. CASE StopSnapshot(s)
    BY Zenon, <2>1 DEF StopSnapshot
  <2>2. CASE StopPolling(s)
    BY Zenon, <2>2 DEF StopPolling
  <2>3. CASE StopDrained(s)
    BY Zenon, <2>3 DEF StopDrained
  <2>4. CASE StopTimeout(s)
    BY Zenon, <2>4 DEF StopTimeout
  <2> QED BY Zenon, <1>3, <2>1, <2>2, <2>3, <2>4 DEF StopStep
<1>4. ASSUME NEW r \in Runs, NEW l \in Loops, LoopStep(r, l)
      PROVE  /\ \A q \in Runs : (runDone[q] => runDone'[q]) /\ (intrDone[q] => intrDone'[q])
             /\ UNCHANGED stopPc /\ \A i \in LoopId : loopErr[i] # NoError => loopErr'[i] # NoError
  <2>1. UNCHANGED <<runDone, stopPc>> /\ \A q \in Runs : intrDone[q] => intrDone'[q]
    <3>1. CASE LoopOpen(r, l) \/ LoopTop(r, l) \/ LoopReceiveNothing(r, l) \/ LoopSettled(r, l) \/ LoopReport(r, l)
      BY Zenon, <3>1 DEF LoopOpen, LoopTop, LoopReceiveNothing, LoopSettled, LoopReport
    <3>2. ASSUME NEW a \in Attempts, LoopReceive(r, l, a) PROVE UNCHANGED <<runDone, intrDone, stopPc>>
      BY Zenon, <3>2 DEF LoopReceive
    <3>3. ASSUME NEW outcome \in Outcome, LoopHandled(r, l, outcome) PROVE UNCHANGED <<runDone, intrDone, stopPc>>
      BY Zenon, <3>3 DEF LoopHandled
    <3>4. ASSUME NEW e \in QueueError, LoopQueueError(r, l, e) \/ LoopSettleError(r, l, e)
          PROVE  UNCHANGED <<runDone, intrDone, stopPc>>
      BY Zenon, <3>4 DEF LoopQueueError, LoopSettleError
    <3>5. CASE LoopCancel(r, l)
      BY Zenon, <3>5 DEF LoopCancel
    <3> QED BY Zenon, <1>4, <3>1, <3>2, <3>3, <3>4, <3>5 DEF LoopStep
  <2>2. \/ UNCHANGED loopErr
        \/ \E e \in QueueError : loopErr' = [loopErr EXCEPT ![<<r, l>>] = e]
    BY Zenon, <1>4 DEF LoopStep, LoopOpen, LoopTop, LoopReceiveNothing, LoopReceive, LoopHandled, LoopSettled, LoopQueueError,
                LoopSettleError, LoopReport, LoopCancel, ExitNil, ExitErr
  <2> QED BY Zenon, <2>1, <2>2 DEF QueueError, NoError
<1> QED BY Zenon, <1>1, <1>2, <1>3, <1>4 DEF Next, Returned, workerVars

\* Handlers are cancelled by somebody or after a failure.
LEMMA CancelledForBlame ==
    ASSUME IInv, Losses, NEW r \in Runs, NEW l \in Loops, loopPc[<<r, l>>] = "settle", intrDone[r]
    PROVE  Blame
<1>1. runPc[r] \in {"select", "drain"}
  BY Zenon, LoopOfRun DEF IInv
<1> QED BY Zenon, <1>1 DEF IInv, InterruptHasCause, Losses, Blame

\* Only a settlement that fails loses a task or makes a loop fail.
LEMMA OnlySettleFails ==
    ASSUME IInv, [MemNext]_allVars, ~\E r \in Runs, l \in Loops : SettleFails(r, l)
    PROVE  UNCHANGED <<loopErr, lost>>
<1> USE DEF memVars, queueVars, recvVars
<1>1. ASSUME NEW r \in Runs, NEW l \in Loops, MemLoopStep(r, l) PROVE UNCHANGED <<loopErr, lost>>
  <2>1. CASE Open(r, l) \/ Top(r, l)
    BY Zenon, <2>1 DEF Open, Top, LoopQueueError, LoopOpen, LoopTop, IsNormalStopError, IsStopError, ExitNil, M!Receive, M!queueVars
  <2>2. CASE Search(r, l)
    BY Zenon, <2>2 DEF Search, M!ReadNow, M!FindNone, M!Arm, M!Wake, M!queueVars, workerVars, loopVars
  <2>3. CASE Deliver(r, l) \/ ReceiveStopped(r, l)
    BY Zenon, <2>3 DEF Deliver, ReceiveStopped, LoopReceive, LoopQueueError, IsNormalStopError, IsStopError, ExitNil, M!TakeDue,
                M!ReceiveError, M!queueVars
  <2>4. CASE Handle(r, l) \/ Unwind(r, l)
    BY Zenon, <2>4 DEF Handle, Unwind, LoopHandled, LoopReport, LoopCancel
  <2>5. CASE SettleAck(r, l) \/ SettleRetry(r, l) \/ SettleDead(r, l)
    BY Zenon, <2>5 DEF SettleAck, SettleRetry, SettleDead, LoopSettled, M!Ack, M!Retry, M!DeadLetter
  <2> QED BY Zenon, <1>1, <2>1, <2>2, <2>3, <2>4, <2>5 DEF MemLoopStep
<1>2. CASE Produce \/ Advance
  BY Zenon, <1>2 DEF Produce, Advance, M!Enqueue, M!Tick, M!queueVars, workerVars, loopVars
<1>3. CASE Idle \/ UNCHANGED allVars
  BY Zenon, <1>3 DEF Idle, allVars, workerVars, loopVars
<1>4. ASSUME NEW r \in Runs, (RunStep(r) \/ CancelRunCtx(r) \/ AfterFunc(r)) /\ UNCHANGED memVars
      PROVE  UNCHANGED <<loopErr, lost>>
  BY Zenon, <1>4 DEF RunStep, RunStart, RunReject, RunWorkersDone, RunLoopError, RunDrained, RunFinish, CancelRunCtx, AfterFunc,
              loopVars
<1>5. ASSUME NEW s \in Stoppers, StopStep(s) /\ UNCHANGED memVars PROVE UNCHANGED <<loopErr, lost>>
  BY Zenon, <1>5 DEF StopStep, StopSnapshot, StopPolling, StopDrained, StopTimeout, loopVars
<1> QED BY Zenon, <1>1, <1>2, <1>3, <1>4, <1>5 DEF MemNext

\* Every step of the composition keeps both invariants.
LEMMA LossesStep == IInv /\ Losses /\ [MemNext]_allVars => IInv' /\ Losses'
<1> SUFFICES ASSUME IInv, Losses, [MemNext]_allVars PROVE IInv' /\ Losses'
  BY Zenon
<1>1. [Next]_workerVars
  BY Zenon, MemoryStep DEF allVars
<1>2. IInv'
  BY Zenon, <1>1, IInvStep
<1>3. /\ \A r \in Runs : (runDone[r] => runDone'[r]) /\ (intrDone[r] => intrDone'[r])
      /\ \A r \in Runs, l \in Loops : loopErr[<<r, l>>] # NoError => loopErr'[<<r, l>>] # NoError
      /\ \A s \in Stoppers : stopPc[s] = "timeout" => stopPc'[s] = "timeout"
  BY Zenon, <1>1, Monotone, LoopIds
<1>4. Blame => Blame'
  BY Zenon, <1>3 DEF Blame
<1>5. ASSUME NEW r \in Runs, NEW l \in Loops, SettleFails(r, l) PROVE Losses'
  <2>1. Blame'
    BY Zenon, <1>4, <1>5, CancelledForBlame DEF SettleFails, LoopSettleError
  <2>2. intrDone'[r] /\ (runDone'[r] \/ loopErr'[<<r, l>>] # NoError)
    <3>1. intrDone'[r] /\ (runDone[r] => runDone'[r])
      BY Zenon, <1>3, <1>5 DEF SettleFails
    <3>2. ~runDone[r] => loopErr' = [loopErr EXCEPT ![<<r, l>>] = "stop"]
      BY Zenon, <1>5 DEF SettleFails, LoopSettleError, ExitErr
    <3>3. ~runDone[r] => loopErr'[<<r, l>>] # NoError
      BY <3>2, LoopIds DEF IInv, TypeOK, NoError
    <3> QED BY Zenon, <3>1, <3>3
  <2> QED BY Zenon, <2>1, <2>2 DEF Losses
<1>6. CASE ~\E r \in Runs, l \in Loops : SettleFails(r, l)
  <2>1. UNCHANGED <<loopErr, lost>>
    BY Zenon, <1>6, OnlySettleFails
  <2>2. \A r \in Runs, l \in Loops : loopErr'[<<r, l>>] # NoError => Blame'
    BY Zenon, <1>4, <2>1 DEF Losses
  <2>3. ASSUME lost' # {}
        PROVE  /\ Blame'
               /\ \E r \in Runs : intrDone'[r] /\ (runDone'[r] \/ \E l \in Loops : loopErr'[<<r, l>>] # NoError)
    <3>1. Blame /\ \E r \in Runs : intrDone[r] /\ (runDone[r] \/ \E l \in Loops : loopErr[<<r, l>>] # NoError)
      BY Zenon, <2>1, <2>3 DEF Losses
    <3> QED BY Zenon, <1>3, <1>4, <3>1
  <2> QED BY Zenon, <1>2, <2>2, <2>3 DEF Losses
<1> QED BY Zenon, <1>2, <1>5, <1>6

\* Both invariants hold of the composition.
LEMMA LossesHold == MemSpec => [](IInv /\ Losses)
<1>1. MemoryWorkerInit => IInv /\ Losses
  <2> SUFFICES ASSUME MemoryWorkerInit PROVE IInv /\ Losses
    BY Zenon
  <2>1. IInv
    BY Zenon, InitIInv DEF MemoryWorkerInit
  <2>2. Losses
    BY Zenon, LoopIds DEF MemoryWorkerInit, WorkerInit, M!MemInit, Losses
  <2> QED BY Zenon, <2>1, <2>2
<1> QED BY <1>1, LossesStep, PTL DEF MemSpec

\* A task is lost only by a run whose handlers were cancelled, and some run reports
\* it, for any number of runs, loops, calls of Stop and tasks.
THEOREM LossReported == MemSpec => []LossIsReported
<1>1. ASSUME IInv, Losses PROVE LossIsReported
  <2>1. ASSUME AllReturned, NEW r \in Runs, NEW l \in Loops, loopErr[<<r, l>>] # NoError PROVE result[r] # NoError
    <3>1. runPc[r] = "returned"
      <4>1. loopPc[<<r, l>>] # "idle"
        BY Zenon, <1>1, <2>1, LoopIds DEF IInv, LoopReturns
      <4> QED BY <1>1, <2>1, <4>1 DEF AllReturned, IInv, Lifecycle
    <3>2. loopPc[<<r, l>>] = "exited"
      BY Zenon, <1>1, <3>1 DEF IInv, Lifecycle, LoopsExited
    <3> QED BY Zenon, <1>1, <2>1, <3>1, <3>2 DEF IInv, ErrorsReported
  <2> QED BY Zenon, <1>1, <2>1 DEF Losses, LossIsReported
<1>2. IInv /\ Losses => LossIsReported
  BY Zenon, <1>1
<1> QED BY <1>2, LossesHold, PTL

\* A graceful Stop loses no task: one is lost only after Run's context is done or a
\* Stop timed out.
THEOREM GracefulStopKeeps == MemSpec => []GracefulStopLosesNothing
<1>1. IInv /\ Losses => GracefulStopLosesNothing
  BY Zenon DEF Losses, Blame, GracefulStopLosesNothing
<1> QED BY <1>1, LossesHold, PTL

=============================================================================
