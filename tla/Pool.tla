-------------------------------- MODULE Pool --------------------------------
(***************************************************************************)
(* parallel.Pool (parallel/pool.go, parallel/value.go): a fixed number of  *)
(* workers take tasks from a bounded channel.  Submit registers itself     *)
(* under the mutex and then waits in a select; Shutdown closes the pool    *)
(* under the mutex and leaves it to a goroutine to wait for the registered *)
(* submitters, close the channel, and wait for the workers.                *)
(***************************************************************************)
EXTENDS Naturals, Sequences

CONSTANTS
    Calls,        \* calls of Submit, SubmitValue, Execute or TrySubmit
    TryCalls,     \* ... those of TrySubmit
    Workers,
    QueueSize,    \* poolConfig.queueSize
    Stops,        \* calls of Shutdown
    NoCall        \* what an idle worker has in hand

VARIABLES
    call,         \* where each call is; "done" when its future is complete
    cancelled,    \* the calls whose context is done
    queue,        \* Pool.tasks, the buffer
    tasksClosed,  \* whether it is closed
    closed,       \* Pool.closed, and Pool.closing with it
    worker,       \* where each worker is
    item,         \* the task it holds
    ran,          \* history: the tasks a worker has called
    stopper,      \* the goroutine that stop starts
    stop          \* where each call of Shutdown is

vars == <<call, cancelled, queue, tasksClosed, closed, worker, item, ran, stopper, stop>>

Init ==
    /\ call = [s \in Calls |-> "new"]
    /\ cancelled = {}
    /\ queue = <<>>
    /\ tasksClosed = FALSE /\ closed = FALSE
    /\ worker = [w \in Workers |-> "recv"]
    /\ item = [w \in Workers |-> NoCall]
    /\ ran = {}
    /\ stopper = "none"
    /\ stop = [k \in Stops |-> "new"]

-----------------------------------------------------------------------------
(* Submit and TrySubmit *)

Becomes(s, status) == call' = [call EXCEPT ![s] = status]

\* The context of a call ends.
Cancel(s) ==
    /\ s \notin cancelled
    /\ cancelled' = cancelled \cup {s}
    /\ UNCHANGED <<call, queue, tasksClosed, closed, worker, item, ran, stopper, stop>>

HasRoom == Len(queue) < QueueSize

Answer == "accepted"

\* p.tasks <- item: into the buffer or, without one, into the hand of a worker
\* that is receiving.
Push(s) ==
    /\ ~tasksClosed
    /\ Becomes(s, Answer)
    /\ \/ /\ HasRoom
          /\ queue' = Append(queue, s)
          /\ UNCHANGED <<worker, item>>
       \/ /\ QueueSize = 0
          /\ \E w \in Workers :
               /\ worker[w] = "recv"
               /\ worker' = [worker EXCEPT ![w] = "got"]
               /\ item' = [item EXCEPT ![w] = s]
          /\ UNCHANGED queue

\* What a call sees before it registers: ctx first, then closed under the mutex.
Admission(s) == IF s \in cancelled THEN "cancelled" ELSE IF closed THEN "closed" ELSE "wait"

Submit(s) ==
    /\ call[s] = "new" /\ s \notin TryCalls
    /\ Becomes(s, Admission(s))
    /\ UNCHANGED <<cancelled, queue, tasksClosed, closed, worker, item, ran, stopper, stop>>

\* The select of Submit.
Send(s) ==
    /\ call[s] = "wait"
    /\ Push(s)
    /\ UNCHANGED <<cancelled, tasksClosed, closed, ran, stopper, stop>>

SubmitFails(s) ==
    /\ call[s] = "wait"
    /\ \/ closed /\ Becomes(s, "closed")
       \/ s \in cancelled /\ Becomes(s, "cancelled")
    /\ UNCHANGED <<cancelled, queue, tasksClosed, closed, worker, item, ran, stopper, stop>>

\* TrySubmit sends while it holds the mutex.  Without a buffer it finds the
\* pool full also when a worker has not quite reached its receive.
TrySubmit(s) ==
    /\ call[s] = "new" /\ s \in TryCalls
    /\ \/ Admission(s) = "wait" /\ Push(s)
       \/ /\ Admission(s) = "wait" => Len(queue) = QueueSize
          /\ Becomes(s, IF Admission(s) = "wait" THEN "full" ELSE Admission(s))
          /\ UNCHANGED <<queue, worker, item>>
    /\ UNCHANGED <<cancelled, tasksClosed, closed, ran, stopper, stop>>

-----------------------------------------------------------------------------
(* Workers *)

Take(w) ==
    /\ worker[w] = "recv"
    /\ queue # <<>>
    /\ worker' = [worker EXCEPT ![w] = "got"]
    /\ item' = [item EXCEPT ![w] = Head(queue)]
    /\ queue' = Tail(queue)
    /\ UNCHANGED <<call, cancelled, tasksClosed, closed, ran, stopper, stop>>

\* Future.complete
Complete(w) ==
    /\ Becomes(item[w], "done")
    /\ worker' = [worker EXCEPT ![w] = "recv"]
    /\ item' = [item EXCEPT ![w] = NoCall]

\* execute: a task whose context is done is not called.
Execute(w) ==
    /\ worker[w] = "got"
    /\ IF item[w] \in cancelled
         THEN Complete(w) /\ UNCHANGED ran
         ELSE /\ worker' = [worker EXCEPT ![w] = "run"]
              /\ ran' = ran \cup {item[w]}
              /\ UNCHANGED <<call, item>>
    /\ UNCHANGED <<cancelled, queue, tasksClosed, closed, stopper, stop>>

TaskReturns(w) ==
    /\ worker[w] = "run"
    /\ Complete(w)
    /\ UNCHANGED <<cancelled, queue, tasksClosed, closed, ran, stopper, stop>>

\* Mutant: a worker leaves as soon as the pool is closing.
DrainedAtClosing == closed

\* The range over p.tasks ends.
Drained == tasksClosed /\ queue = <<>>

Exit(w) ==
    /\ worker[w] = "recv"
    /\ Drained
    /\ worker' = [worker EXCEPT ![w] = "exited"]
    /\ UNCHANGED <<call, cancelled, queue, tasksClosed, closed, item, ran, stopper, stop>>

-----------------------------------------------------------------------------
(* Shutdown *)

Shutdown(k) ==
    /\ stop[k] = "new"
    /\ stop' = [stop EXCEPT ![k] = "wait"]
    /\ closed' = TRUE
    /\ stopper' = IF stopper = "none" THEN "submitters" ELSE stopper
    /\ UNCHANGED <<call, cancelled, queue, tasksClosed, worker, item, ran>>

\* submitters.Wait
SubmittersGone == \A s \in Calls : call[s] # "wait"

CloseTasks ==
    /\ stopper = "submitters"
    /\ SubmittersGone
    /\ tasksClosed' = TRUE
    /\ stopper' = "workers"
    /\ UNCHANGED <<call, cancelled, queue, closed, worker, item, ran, stop>>

\* Mutant: done is closed when the workers have no task in hand.
WorkersGoneIdle == \A w \in Workers : item[w] = NoCall

\* workers.Wait
WorkersGone == \A w \in Workers : worker[w] = "exited"

CloseDone ==
    /\ stopper = "workers"
    /\ WorkersGone
    /\ stopper' = "done"
    /\ UNCHANGED <<call, cancelled, queue, tasksClosed, closed, worker, item, ran, stop>>

\* Shutdown prefers done to its own context.
ShutdownReturns(k) ==
    /\ stop[k] = "wait"
    /\ stop' = [stop EXCEPT ![k] = IF stopper = "done" THEN "nil" ELSE "gaveup"]
    /\ UNCHANGED <<call, cancelled, queue, tasksClosed, closed, worker, item, ran, stopper>>

-----------------------------------------------------------------------------
WorkerStep(w) == Take(w) \/ Execute(w) \/ TaskReturns(w) \/ Exit(w)

Next ==
    \/ \E s \in Calls : Cancel(s) \/ Submit(s) \/ Send(s) \/ SubmitFails(s) \/ TrySubmit(s)
    \/ \E w \in Workers : WorkerStep(w)
    \/ \E k \in Stops : Shutdown(k) \/ ShutdownReturns(k)
    \/ CloseTasks \/ CloseDone

\* Workers are scheduled and tasks return.
Fairness == \A w \in Workers : WF_vars(WorkerStep(w))

Spec == Init /\ [][Next]_vars /\ Fairness

-----------------------------------------------------------------------------
(* Properties *)

\* When Shutdown returns nil, every future that was handed out is complete and
\* no task can be accepted any more.
ShutdownNilMeansFinished ==
    (\E k \in Stops : stop[k] = "nil") => \A s \in Calls : call[s] \notin {"wait", "accepted"}

\* A future that was handed out completes, also when the pool is shut down
\* between the Submit and a worker: no call stays accepted, and only the
\* completion of its future takes it on from there.
FuturesComplete == []<>(\A s \in Calls : call[s] # "accepted")

=============================================================================
