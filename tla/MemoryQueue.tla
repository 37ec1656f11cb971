---------------------------- MODULE MemoryQueue ----------------------------
(***************************************************************************)
(* The in-memory queue adapter, queue/adapter/memory/queue.go: one mutex,  *)
(* a list of waiting tasks, a notify channel that every Enqueue closes and *)
(* replaces, and consumers whose Receive sleeps until it is notified, a    *)
(* task becomes due, its context is done or it is closed.                  *)
(*                                                                         *)
(* The clock is discrete.  Receive reads it before it takes the mutex, and *)
(* arms its timer after it has released it, so time may pass in between.   *)
(***************************************************************************)
EXTENDS Integers, Sequences, FiniteSets

CONSTANTS
    Tasks,      \* Task.ID of the tasks producers enqueue
    Consumers,  \* the consumers NewConsumer returns
    Delays,     \* the delays given to Enqueue and Retry
    MaxTime,    \* bound on due times, and on the clock while no timer runs
    MaxTries,   \* bound on the attempts a consumer asks for with Retry
    NoTask      \* no delivery in hand

Envelope == [id : Tasks, attempt : Nat, at : Nat]

ASSUME DelaysAssumption == Delays \subseteq Nat /\ MaxTime \in Nat /\ MaxTries \in Nat
ASSUME NoTaskAssumption == NoTask \notin Envelope

VARIABLES
    clock,      \* time.Now()
    ready,      \* Queue.queues of the one queue name used: waiting tasks in order
    dead,       \* Queue.deadLetter
    recvPc,     \* where each consumer's Receive is
    now,        \* the time its last call of next read
    wait,       \* what its last call of next returned: 0, or the time to sleep
    timer,      \* when its timer fires, 0 if it has none
    notified,   \* the notify channel it holds is closed
    ctxDone,    \* the context given to Receive is done
    shut,       \* consumer.done is closed
    held,       \* the delivery Receive returned and nobody settled yet
    delivered,  \* history: how often each task was delivered
    acked,      \* history: tasks acknowledged
    lost        \* history: tasks whose settlement failed

queueVars == <<ready, dead, notified, delivered, acked, lost>>
recvVars == <<recvPc, now, wait, timer>>
memVars == <<clock, queueVars, recvVars, ctxDone, shut, held>>

TypeOK ==
    /\ clock \in Nat
    /\ ready \in Seq(Envelope)
    /\ dead \in Seq(Envelope)
    /\ recvPc \in [Consumers -> {"idle", "now", "lock", "arm", "wait"}]
    /\ now \in [Consumers -> Nat]
    /\ wait \in [Consumers -> Nat]
    /\ timer \in [Consumers -> Nat]
    /\ notified \in [Consumers -> BOOLEAN]
    /\ ctxDone \in [Consumers -> BOOLEAN]
    /\ shut \in [Consumers -> BOOLEAN]
    /\ held \in [Consumers -> Envelope \cup {NoTask}]
    /\ delivered \in [Tasks -> Nat]
    /\ acked \subseteq Tasks
    /\ lost \subseteq Tasks

MemInit ==
    /\ clock = 0
    /\ ready = <<>>
    /\ dead = <<>>
    /\ recvPc = [c \in Consumers |-> "idle"]
    /\ now = [c \in Consumers |-> 0]
    /\ wait = [c \in Consumers |-> 0]
    /\ timer = [c \in Consumers |-> 0]
    /\ notified = [c \in Consumers |-> FALSE]
    /\ ctxDone = [c \in Consumers |-> FALSE]
    /\ shut = [c \in Consumers |-> FALSE]
    /\ held = [c \in Consumers |-> NoTask]
    /\ delivered = [t \in Tasks |-> 0]
    /\ acked = {}
    /\ lost = {}

\* Time passes up to MaxTime, and beyond it while a timer is running.
Tick ==
    /\ clock < MaxTime \/ \E c \in Consumers : timer[c] > clock
    /\ clock' = clock + 1
    /\ UNCHANGED <<queueVars, recvVars, ctxDone, shut, held>>

-----------------------------------------------------------------------------
(* Queue.Enqueue *)

\* Mutant: Enqueue does not signal.
PushSilent(task) ==
    /\ ready' = Append(ready, task)
    /\ UNCHANGED notified

\* append, then close(q.notify): every channel handed out so far is closed.
Push(task) ==
    /\ ready' = Append(ready, task)
    /\ notified' = [c \in Consumers |-> TRUE]

\* The tasks the queue has accepted and still knows of, or has handed out.
Known == {ready[i].id : i \in DOMAIN ready} \cup {dead[i].id : i \in DOMAIN dead}
            \cup {held[c].id : c \in {k \in Consumers : held[k] # NoTask}} \cup acked \cup lost

\* A producer enqueues task t with delay d (a task ID is used once).
Enqueue(t, d) ==
    /\ t \notin Known
    /\ Push([id |-> t, attempt |-> 0, at |-> clock + d])
    /\ UNCHANGED <<clock, dead, recvVars, ctxDone, shut, held, delivered, acked, lost>>

-----------------------------------------------------------------------------
(* consumer.Receive *)

Receive(c) ==
    /\ recvPc[c] = "idle"
    /\ held[c] = NoTask
    /\ recvPc' = [recvPc EXCEPT ![c] = "now"]
    /\ UNCHANGED <<clock, queueVars, now, wait, timer, ctxDone, shut, held>>

\* next: now is read before the mutex is taken.
ReadNow(c) ==
    /\ recvPc[c] = "now"
    /\ now' = [now EXCEPT ![c] = clock]
    /\ recvPc' = [recvPc EXCEPT ![c] = "lock"]
    /\ UNCHANGED <<clock, queueVars, wait, timer, ctxDone, shut, held>>

\* The least element of a set of numbers, and a list without its i-th element.
Min(S) == CHOOSE x \in S : \A y \in S : x <= y
RemoveAt(s, i) == SubSeq(s, 1, i - 1) \o SubSeq(s, i + 1, Len(s))

Due(c) == {i \in DOMAIN ready : ready[i].at <= now[c]}

\* next finds a due task: the first one leaves the list, on its next attempt.
TakeDue(c) ==
    /\ recvPc[c] = "lock"
    /\ Due(c) # {}
    /\ LET i == Min(Due(c))
           task == [ready[i] EXCEPT !.attempt = @ + 1]
       IN  /\ ready' = RemoveAt(ready, i)
           /\ held' = [held EXCEPT ![c] = task]
           /\ delivered' = [delivered EXCEPT ![task.id] = @ + 1]
    /\ recvPc' = [recvPc EXCEPT ![c] = "idle"]
    /\ now' = [now EXCEPT ![c] = 0]
    /\ UNCHANGED <<clock, dead, notified, acked, lost, wait, timer, ctxDone, shut>>

\* next finds none: it returns the current notify channel and the time until
\* the first task is due, 0 if there is no task at all.
FindNone(c) ==
    /\ recvPc[c] = "lock"
    /\ Due(c) = {}
    /\ wait' = [wait EXCEPT ![c] = IF ready = <<>> THEN 0
                                   ELSE Min({ready[i].at - now[c] : i \in DOMAIN ready})]
    /\ notified' = [notified EXCEPT ![c] = FALSE]
    /\ recvPc' = [recvPc EXCEPT ![c] = "arm"]
    /\ UNCHANGED <<clock, ready, dead, delivered, acked, lost, now, timer, ctxDone, shut, held>>

\* time.NewTimer(wait), only if wait > 0; then the select.
Arm(c) ==
    /\ recvPc[c] = "arm"
    /\ timer' = [timer EXCEPT ![c] = IF wait[c] > 0 THEN clock + wait[c] ELSE 0]
    /\ recvPc' = [recvPc EXCEPT ![c] = "wait"]
    /\ UNCHANGED <<clock, queueVars, now, wait, ctxDone, shut, held>>

\* The select is over: the timer is stopped and next's results are dropped.
EndSelect(c) ==
    /\ timer' = [timer EXCEPT ![c] = 0]
    /\ now' = [now EXCEPT ![c] = 0]
    /\ wait' = [wait EXCEPT ![c] = 0]

\* case <-notify, case <-timerC: look again.
Wake(c) ==
    /\ recvPc[c] = "wait"
    /\ notified[c] \/ (timer[c] # 0 /\ timer[c] <= clock)
    /\ recvPc' = [recvPc EXCEPT ![c] = "now"]
    /\ EndSelect(c)
    /\ UNCHANGED <<clock, queueVars, ctxDone, shut, held>>

\* case <-ctx.Done(), case <-c.done: return an error.
ReceiveError(c) ==
    /\ recvPc[c] = "wait"
    /\ ctxDone[c] \/ shut[c]
    /\ recvPc' = [recvPc EXCEPT ![c] = "idle"]
    /\ EndSelect(c)
    /\ UNCHANGED <<clock, queueVars, ctxDone, shut, held>>

CancelCtx(c) ==
    /\ ~ctxDone[c]
    /\ ctxDone' = [ctxDone EXCEPT ![c] = TRUE]
    /\ UNCHANGED <<clock, queueVars, recvVars, shut, held>>

Close(c) ==
    /\ ~shut[c]
    /\ shut' = [shut EXCEPT ![c] = TRUE]
    /\ UNCHANGED <<clock, queueVars, recvVars, ctxDone, held>>

-----------------------------------------------------------------------------
(* delivery.Ack, Retry and DeadLetter, with a context that is not done *)

Settle(c) ==
    /\ held[c] # NoTask
    /\ held' = [held EXCEPT ![c] = NoTask]
    /\ UNCHANGED <<clock, recvVars, ctxDone, shut, delivered>>

Ack(c) ==
    /\ Settle(c)
    /\ acked' = acked \cup {held[c].id}
    /\ UNCHANGED <<ready, dead, notified, lost>>

Retry(c, d) ==
    /\ Settle(c)
    /\ Push([held[c] EXCEPT !.at = clock + d])
    /\ UNCHANGED <<dead, acked, lost>>

DeadLetter(c) ==
    /\ Settle(c)
    /\ dead' = Append(dead, held[c])
    /\ UNCHANGED <<ready, notified, acked, lost>>

\* Any of the three with a context that is done: the call fails and the task,
\* which left the list when it was delivered, is nowhere.
SettleError(c) ==
    /\ Settle(c)
    /\ lost' = lost \cup {held[c].id}
    /\ UNCHANGED <<ready, dead, notified, acked>>

-----------------------------------------------------------------------------
(* The adapter with producers and consumers that use it in any order. *)

ReceiveStep(c) == Receive(c) \/ ReadNow(c) \/ TakeDue(c) \/ FindNone(c) \/ Arm(c) \/ Wake(c)

Next ==
    \/ Tick
    \/ \E t \in Tasks, d \in Delays : clock + d <= MaxTime /\ Enqueue(t, d)
    \/ \E c \in Consumers :
         \/ ReceiveStep(c) \/ ReceiveError(c) \/ CancelCtx(c) \/ Close(c)
         \/ Ack(c) \/ DeadLetter(c) \/ SettleError(c)
         \/ \E d \in Delays :
              /\ held[c] # NoTask
              /\ held[c].attempt < MaxTries
              /\ clock + d <= MaxTime
              /\ Retry(c, d)

Spec == MemInit /\ [][Next]_memVars

-----------------------------------------------------------------------------
(* Properties *)

\* The places task t is in.
Places(t) ==
    {<<"ready", i>> : i \in {k \in DOMAIN ready : ready[k].id = t}}
    \cup {<<"dead", i>> : i \in {k \in DOMAIN dead : dead[k].id = t}}
    \cup {<<"held", c>> : c \in {k \in Consumers : held[k] # NoTask /\ held[k].id = t}}
    \cup {<<"acked", t>> : u \in acked \cap {t}}
    \cup {<<"lost", t>> : u \in lost \cap {t}}

\* However consumers race for tasks, a task is in at most one place: waiting
\* once, or in the hands of one consumer, or acknowledged, dead-lettered or
\* given up.  A task that was delivered does not vanish.
OnePlace ==
    \A t \in Tasks :
        /\ Cardinality(Places(t)) <= 1
        /\ delivered[t] > 0 => Places(t) # {}

\* Task.Attempt, across retries, is the number of times the task was delivered.
AttemptCountsDeliveries ==
    /\ \A i \in DOMAIN ready : ready[i].attempt = delivered[ready[i].id]
    /\ \A c \in Consumers : held[c] # NoTask => held[c].attempt = delivered[held[c].id]

\* A consumer that sleeps while tasks wait has a wake-up coming: it is notified,
\* or its timer fires no later after each task is due than the time it took to
\* arm it.
NoLostWakeup ==
    \A c \in Consumers : recvPc[c] = "wait" /\ ~notified[c] =>
        \A i \in DOMAIN ready :
            /\ timer[c] # 0
            /\ timer[c] - wait[c] >= now[c]
            /\ timer[c] - ready[i].at <= timer[c] - wait[c] - now[c]

\* No task is handed out before it is due.
NeverEarly == \A c \in Consumers : held[c] # NoTask => held[c].at <= clock

=============================================================================
