------------------------------- MODULE Batcher -------------------------------
(***************************************************************************)
(* batcher.Batcher (batcher/batcher.go, worker.go): Add, TryAdd, Flush and *)
(* Shutdown by concurrent callers, one worker that collects accepted items *)
(* in batches and calls the handler when a batch is full, when the flush   *)
(* interval of its first item is over, at a barrier, and at the end.       *)
(***************************************************************************)
EXTENDS Naturals, Sequences, FiniteSets, SequencesExt

CONSTANTS
    Items,      \* one Add or TryAdd each
    Barriers,   \* one Flush each
    QueueSize,  \* capacity of requests
    BatchSize   \* items of a full batch

VARIABLES
    at,         \* where the call of each request is
    queue,      \* the channel requests
    accepted,   \* history: the requests in the order of acceptance
    closed,     \* admission is closed, and closing with it
    ended,      \* the channel requests is closed
    wpc,        \* the worker: in its "select", in the handler ("handle"), "exited"
    then,       \* where the worker goes on after the handler
    batch,      \* worker.batch, or the batch in the handler
    armed,      \* worker.tick is set
    calls,      \* history: the handler's calls <<batch, whether it failed>>
    firstErr,   \* worker.firstErr: the number of the call, 0 for nil
    barrier,    \* result of each barrier's completion
    finished,   \* Batcher.finished
    shutdown    \* the caller of Shutdown

vars == <<at, queue, accepted, closed, ended, wpc, then, batch, armed, calls, firstErr,
          barrier, finished, shutdown>>

Requests == Items \cup Barriers
Pending == 99                       \* of a completion that is not done

Init ==
    /\ at = [r \in Requests |-> "new"]
    /\ queue = <<>> /\ accepted = <<>> /\ batch = <<>> /\ calls = <<>>
    /\ closed = FALSE /\ ended = FALSE /\ armed = FALSE
    /\ wpc = "select" /\ then = "select"
    /\ firstErr = 0 /\ finished = Pending /\ barrier = [b \in Barriers |-> Pending]
    /\ shutdown = "new"

workerVars == <<wpc, then, batch, armed, calls, firstErr, barrier, finished>>

-----------------------------------------------------------------------------
(* Admission *)

\* A channel without a buffer takes a request while the worker is receiving.
HasRoom == \/ Len(queue) < QueueSize
           \/ QueueSize = 0 /\ wpc = "select" /\ queue = <<>>

Accept(r) == queue' = Append(queue, r) /\ accepted' = Append(accepted, r)

Answer(r, a) == at' = [at EXCEPT ![r] = a]

\* submit: registered as a submitter, or refused.
Submit(r) ==
    /\ at[r] = "new"
    /\ Answer(r, IF closed THEN "closed" ELSE "sending")
    /\ UNCHANGED <<queue, accepted, closed, ended, shutdown, workerVars>>

\* The select of submit takes the channel; a barrier then waits.
Send(r) ==
    /\ at[r] = "sending"
    /\ HasRoom
    /\ Accept(r)
    /\ Answer(r, IF r \in Items THEN "nil" ELSE "waiting")
    /\ UNCHANGED <<closed, ended, shutdown, workerVars>>

\* It takes the caller's context, which may be done at any time, or closing.
SubmitFails(r) ==
    /\ \/ at[r] \in {"new", "sending"} /\ Answer(r, "context")
       \/ at[r] = "sending" /\ closed /\ Answer(r, "closed")
    /\ UNCHANGED <<queue, accepted, closed, ended, shutdown, workerVars>>

TryAdd(r) ==
    /\ at[r] = "new"
    /\ IF ~closed /\ HasRoom THEN Accept(r) ELSE UNCHANGED <<queue, accepted>>
    /\ Answer(r, IF closed THEN "closed" ELSE IF HasRoom THEN "nil" ELSE "full")
    /\ UNCHANGED <<closed, ended, shutdown, workerVars>>

\* Flush after its barrier was accepted: completion.wait.
FlushReturns(b) ==
    /\ at[b] = "waiting"
    /\ barrier[b] # Pending
    /\ Answer(b, IF barrier[b] = 0 THEN "nil" ELSE "failed")
    /\ UNCHANGED <<queue, accepted, closed, ended, shutdown, workerVars>>

FlushGivesUp(b) ==
    /\ at[b] = "waiting" /\ barrier[b] = Pending
    /\ Answer(b, "context")
    /\ UNCHANGED <<queue, accepted, closed, ended, shutdown, workerVars>>

-----------------------------------------------------------------------------
(* The worker *)

\* What follows the handler's return, with the first error so far.
Resume(next, err) ==
    /\ wpc' = IF next = "exit" THEN "exited" ELSE "select"
    /\ finished' = IF next = "exit" THEN err ELSE finished
    /\ barrier' = IF next \in Barriers THEN [barrier EXCEPT ![next] = err] ELSE barrier

\* worker.flush of the items in b, on to next.
Flush(b, next) ==
    /\ batch' = b
    /\ armed' = FALSE
    /\ IF b = <<>>
         THEN Resume(next, firstErr) /\ UNCHANGED then
         ELSE wpc' = "handle" /\ then' = next /\ UNCHANGED <<barrier, finished>>
    /\ UNCHANGED <<calls, firstErr>>

\* An item of a batch that is not full.
Collect(r) ==
    /\ batch' = Append(batch, r)
    /\ armed' = TRUE
    /\ UNCHANGED <<wpc, then, barrier, finished, calls, firstErr>>

\* Mutant: a barrier leaves the partial batch to the timer.
BarrierKeepsBatch(r) ==
    /\ Resume(r, firstErr)
    /\ UNCHANGED <<batch, armed, then, calls, firstErr>>

Barrier(r) == Flush(batch, r)

Full(b) == Len(b) = BatchSize

\* worker.accept
Receive ==
    /\ wpc = "select" /\ queue # <<>>
    /\ queue' = Tail(queue)
    /\ LET r == Head(queue) IN
         IF r \in Barriers THEN Barrier(r)
         ELSE IF Full(Append(batch, r)) THEN Flush(Append(batch, r), "select")
         ELSE Collect(r)
    /\ UNCHANGED <<at, accepted, closed, ended, shutdown>>

\* The flush interval is over.
Tick ==
    /\ wpc = "select" /\ armed
    /\ ~(QueueSize = 0 /\ queue # <<>>)
    /\ Flush(batch, "select")
    /\ UNCHANGED <<at, queue, accepted, closed, ended, shutdown>>

\* The channel is closed and empty.
Drain ==
    /\ wpc = "select" /\ ended /\ queue = <<>>
    /\ Flush(batch, "exit")
    /\ UNCHANGED <<at, queue, accepted, closed, ended, shutdown>>

HandlerReturns(failed) ==
    /\ wpc = "handle"
    /\ calls' = Append(calls, <<batch, failed>>)
    /\ firstErr' = IF failed /\ firstErr = 0 THEN Len(calls) + 1 ELSE firstErr
    /\ batch' = <<>>
    /\ Resume(then, firstErr')
    /\ UNCHANGED <<at, queue, accepted, closed, ended, then, armed, shutdown>>

-----------------------------------------------------------------------------
(* Shutdown, and stop on behalf of the processing context *)

Stop ==
    /\ ~closed
    /\ closed' = TRUE
    /\ UNCHANGED <<at, queue, accepted, ended, shutdown, workerVars>>

SubmittersGone == \A r \in Requests : at[r] # "sending"

CloseRequests ==
    /\ closed /\ ~ended
    /\ SubmittersGone
    /\ ended' = TRUE
    /\ UNCHANGED <<at, queue, accepted, closed, shutdown, workerVars>>

Shutdown ==
    /\ shutdown = "new"
    /\ shutdown' = "waiting"
    /\ closed' = TRUE
    /\ UNCHANGED <<at, queue, accepted, ended, workerVars>>

ShutdownReturns ==
    /\ shutdown = "waiting"
    /\ finished # Pending
    /\ shutdown' = IF finished = 0 THEN "nil" ELSE "failed"
    /\ UNCHANGED <<at, queue, accepted, closed, ended, workerVars>>

ShutdownGivesUp ==
    /\ shutdown = "waiting" /\ finished = Pending
    /\ shutdown' = "context"
    /\ UNCHANGED <<at, queue, accepted, closed, ended, workerVars>>

-----------------------------------------------------------------------------
Worker == Receive \/ Tick \/ Drain \/ \E failed \in BOOLEAN : HandlerReturns(failed)

Next ==
    \/ \E r \in Requests : Submit(r) \/ Send(r) \/ SubmitFails(r)
    \/ \E r \in Items : TryAdd(r)
    \/ \E b \in Barriers : FlushReturns(b) \/ FlushGivesUp(b)
    \/ Worker \/ Stop \/ CloseRequests \/ Shutdown \/ ShutdownReturns \/ ShutdownGivesUp

Spec == Init /\ [][Next]_vars

-----------------------------------------------------------------------------
(* Properties *)

Handled == FlattenSeq([i \in 1..Len(calls) |-> calls[i][1]])
ItemsOf(s) == SelectSeq(s, LAMBDA r : r \in Items)
Before(r) == SubSeq(accepted, 1, CHOOSE i \in 1..Len(accepted) : accepted[i] = r)

\* A completed barrier stands for every item accepted before it, and reports the
\* first handler error up to it, also one that an earlier call reported already.
FlushCoversEarlierItems ==
    \A b \in Barriers : barrier[b] # Pending =>
        LET before == ItemsOf(Before(b))
            mine == {i \in 1..Len(calls) : \E k \in 1..Len(before) : before[k] \in ToSet(calls[i][1])}
        IN  /\ IsPrefix(before, Handled)
            /\ barrier[b] # 0 <=> \E i \in mine : calls[i][2]
            /\ \A i \in mine : calls[i][2] => barrier[b] <= i

=============================================================================
