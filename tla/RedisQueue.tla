----------------------------- MODULE RedisQueue -----------------------------
(***************************************************************************)
(* The Redis Streams queue adapter, queue/adapter/redis, with the workers  *)
(* that use it.  A task is enqueued as an entry of the stream or, when it  *)
(* is delayed, of a sorted set whose due entries a script moves to the     *)
(* stream.  XREADGROUP puts an entry on the group's pending list; an entry *)
(* that stays there for claimMinIdle is claimed by whoever receives next.  *)
(* Retry and DeadLetter write the new entry first and acknowledge the old  *)
(* one in a second command.                                                *)
(*                                                                         *)
(* Every Redis command is one atomic step; between two commands of a       *)
(* worker anything may happen, a crash of that worker included.  Entries   *)
(* are numbered in the order they are created.  Which of several entries a *)
(* command picks is left open: nothing here depends on the order.          *)
(***************************************************************************)
EXTENDS Integers, FiniteSets, TaskOutcome

CONSTANTS
    Tasks,        \* what entries carry: the Task.ID of a task, or
    Malformed,    \* ... something another program wrote that does not decode
    Workers,      \* worker loops, each with one delivery at a time
    MaxEntries,   \* bound on the entries ever created
    MaxClaims,    \* bound on the deliveries of an entry a live worker holds
    MaxCrashes,   \* bound on crashes
    PromoteSize,  \* config.promoteSize: due entries one script call moves
    MaxInt,       \* math.MaxInt
    NoEntry,      \* no entry in hand
    NoTask        \* what an entry that does not exist yet carries

Entry == 1..MaxEntries

ASSUME RedisAssumption ==
    /\ MaxEntries \in Nat
    /\ MaxClaims \in Nat
    /\ MaxCrashes \in Nat
    /\ PromoteSize \in Nat \ {0}
    /\ MaxInt \in Nat \ {0}
    /\ NoEntry \notin Entry
    /\ NoTask \notin Tasks
    /\ Malformed \subseteq Tasks

VARIABLES
    next,      \* the number of the next entry
    task,      \* the task of each entry
    base,      \* Task.Attempt stored in each entry
    delayed,   \* entries of the sorted set
    due,       \* those whose score has been reached
    unread,    \* stream entries the group has not read
    pending,   \* the group's pending entries
    idle,      \* those idle for claimMinIdle or longer
    count,     \* the delivery count of each pending entry
    pc,        \* where each worker is
    entry,     \* the entry a worker is claiming or holds
    attempt,   \* Task.Attempt of the delivery it holds
    settling,  \* the settlement its handler's outcome asks for
    crashes,   \* crashes so far
    handled,   \* history: tasks whose handler succeeded or discarded them
    dead,      \* tasks in the dead-letter stream
    newest,    \* history: the newest entry of each task, 0 if none
    handouts   \* history: how often Redis handed out each task

entryVars == <<next, task, base, newest>>
storeVars == <<delayed, due, unread>>
groupVars == <<pending, idle, count, handouts>>
workVars == <<pc, entry, attempt, settling>>
doneVars == <<handled, dead>>
vars == <<entryVars, storeVars, groupVars, workVars, doneVars, crashes>>

TypeOK ==
    /\ next \in 1..(MaxEntries + 1)
    /\ task \in [Entry -> Tasks \cup {NoTask}]
    /\ base \in [Entry -> Nat]
    /\ delayed \subseteq Entry
    /\ due \subseteq delayed
    /\ unread \subseteq Entry
    /\ pending \subseteq Entry
    /\ idle \subseteq pending
    /\ count \in [Entry -> Nat]
    /\ pc \in [Workers -> {"idle", "claim", "list", "xclaim", "count", "read",
                           "handle", "settle", "ack", "malformed"}]
    /\ entry \in [Workers -> Entry \cup {NoEntry}]
    /\ attempt \in [Workers -> Nat]
    /\ settling \in [Workers -> Settlement \cup {"none"}]
    /\ crashes \in Nat
    /\ handled \subseteq Tasks
    /\ dead \subseteq Tasks
    /\ newest \in [Tasks -> 0..MaxEntries]
    /\ handouts \in [Tasks -> Nat]

Init ==
    /\ next = 1
    /\ task = [e \in Entry |-> NoTask]
    /\ base = [e \in Entry |-> 0]
    /\ delayed = {} /\ due = {} /\ unread = {}
    /\ pending = {} /\ idle = {}
    /\ count = [e \in Entry |-> 0]
    /\ pc = [w \in Workers |-> "idle"]
    /\ entry = [w \in Workers |-> NoEntry]
    /\ attempt = [w \in Workers |-> 0]
    /\ settling = [w \in Workers |-> "none"]
    /\ crashes = 0
    /\ handled = {} /\ dead = {}
    /\ newest = [t \in Tasks |-> 0]
    /\ handouts = [t \in Tasks |-> 0]

-----------------------------------------------------------------------------
(* Queue.Enqueue *)

\* One entry is reserved for every worker that is about to retry.
Room == next + Cardinality({w \in Workers : settling[w] = "retry"}) <= MaxEntries

\* ZADD if the task is delayed, XADD to the stream if not.
Add(t, a, isDelayed) ==
    /\ next \in Entry
    /\ next' = next + 1
    /\ task' = [task EXCEPT ![next] = t]
    /\ base' = [base EXCEPT ![next] = a]
    /\ newest' = [newest EXCEPT ![t] = next]
    /\ delayed' = IF isDelayed THEN delayed \cup {next} ELSE delayed
    /\ unread' = IF isDelayed THEN unread ELSE unread \cup {next}
    /\ due' = due

\* A producer's Enqueue (a task ID is used once).
Enqueue(t, isDelayed) ==
    /\ newest[t] = 0
    /\ Room
    /\ Add(t, 0, isDelayed)
    /\ UNCHANGED <<groupVars, workVars, doneVars, crashes>>

-----------------------------------------------------------------------------
(* Time *)

BecomeDue(e) ==
    /\ e \in delayed \ due
    /\ due' = due \cup {e}
    /\ UNCHANGED <<entryVars, delayed, unread, groupVars, workVars, doneVars, crashes>>

Abandoned(e) == \A w \in Workers : entry[w] # e

\* A pending entry reaches claimMinIdle: its worker died, or is just slow.
BecomeIdle(e) ==
    /\ e \in pending \ idle
    /\ count[e] < MaxClaims \/ Abandoned(e)
    /\ idle' = idle \cup {e}
    /\ UNCHANGED <<entryVars, storeVars, pending, count, handouts, workVars, doneVars, crashes>>

-----------------------------------------------------------------------------
(* consumer.Receive, one pass of receiveForConsumer *)

Goto(w, label) == pc' = [pc EXCEPT ![w] = label]

\* Mutant: the script removes every due entry but adds at most PromoteSize.
PromoteTruncated(w) ==
    /\ pc[w] = "idle"
    /\ \E moved \in SUBSET due :
         /\ moved = due \/ Cardinality(moved) = PromoteSize
         /\ Cardinality(moved) <= PromoteSize
         /\ delayed' = delayed \ due
         /\ due' = {}
         /\ unread' = unread \cup moved
    /\ Goto(w, "claim")
    /\ UNCHANGED <<entryVars, groupVars, entry, attempt, settling, doneVars, crashes>>

\* Mutant: Receive goes on to XREADGROUP without claiming pending entries.
PromoteNoClaim(w) ==
    /\ pc[w] = "idle"
    /\ \E moved \in SUBSET due :
         /\ moved = due \/ Cardinality(moved) = PromoteSize
         /\ Cardinality(moved) <= PromoteSize
         /\ delayed' = delayed \ moved
         /\ due' = due \ moved
         /\ unread' = unread \cup moved
    /\ Goto(w, "read")
    /\ UNCHANGED <<entryVars, groupVars, entry, attempt, settling, doneVars, crashes>>

\* promoteDue: the script moves due entries to the stream, at most PromoteSize.
Promote(w) ==
    /\ pc[w] = "idle"
    /\ \E moved \in SUBSET due :
         /\ moved = due \/ Cardinality(moved) = PromoteSize
         /\ Cardinality(moved) <= PromoteSize
         /\ delayed' = delayed \ moved
         /\ due' = due \ moved
         /\ unread' = unread \cup moved
    /\ Goto(w, "claim")
    /\ UNCHANGED <<entryVars, groupVars, entry, attempt, settling, doneVars, crashes>>

\* Redis hands e to w once more: it is w's, on the clock again.
HandOut(e) ==
    /\ pending' = pending \cup {e}
    /\ idle' = idle \ {e}
    /\ count' = [count EXCEPT ![e] = @ + 1]
    /\ handouts' = [handouts EXCEPT ![task[e]] = @ + 1]

\* XAUTOCLAIM
Claim(w) ==
    /\ pc[w] = "claim"
    /\ \E e \in idle :
         /\ HandOut(e)
         /\ entry' = [entry EXCEPT ![w] = e]
    /\ Goto(w, "count")
    /\ UNCHANGED <<entryVars, storeVars, attempt, settling, doneVars, crashes>>

ClaimNone(w) ==
    /\ pc[w] = "claim"
    /\ idle = {}
    /\ Goto(w, "list")
    /\ UNCHANGED <<entryVars, storeVars, groupVars, entry, attempt, settling, doneVars, crashes>>

\* claimPendingWithXClaim: XPENDING names an idle entry ...
List(w) ==
    /\ pc[w] = "list"
    /\ \/ \E e \in idle : entry' = [entry EXCEPT ![w] = e] /\ Goto(w, "xclaim")
       \/ idle = {} /\ UNCHANGED entry /\ Goto(w, "read")
    /\ UNCHANGED <<entryVars, storeVars, groupVars, attempt, settling, doneVars, crashes>>

\* ... and XCLAIM takes it if it still is pending and idle.
XClaim(w) ==
    /\ pc[w] = "xclaim"
    /\ entry[w] \in idle
    /\ HandOut(entry[w])
    /\ Goto(w, "count")
    /\ UNCHANGED <<entryVars, storeVars, entry, attempt, settling, doneVars, crashes>>

XClaimNone(w) ==
    /\ pc[w] = "xclaim"
    /\ entry[w] \notin idle
    /\ entry' = [entry EXCEPT ![w] = NoEntry]
    /\ Goto(w, "read")
    /\ UNCHANGED <<entryVars, storeVars, groupVars, attempt, settling, doneVars, crashes>>

AtMost(a, b) == IF a <= b THEN a ELSE b

\* attemptWithDeliveryCount saturates at math.MaxInt; a count of 0 stands for
\* "not known".
AttemptWithDeliveryCount(baseAttempt, deliveryCount) ==
    IF deliveryCount = 0 THEN AtMost(baseAttempt + 1, MaxInt)
                         ELSE AtMost(baseAttempt + deliveryCount, MaxInt)

\* leaseFromMessageWithDeliveryCount: the delivery of entry e, if it decodes.
Lease(w, e, deliveryCount) ==
    /\ attempt' = [attempt EXCEPT ![w] =
            IF task[e] \in Malformed THEN 0 ELSE AttemptWithDeliveryCount(base[e], deliveryCount)]
    /\ Goto(w, IF task[e] \in Malformed THEN "malformed" ELSE "handle")

\* deliveryCount: the entry's count on the pending list, 0 if it was
\* acknowledged since it was claimed.
Count(w) ==
    /\ pc[w] = "count"
    /\ Lease(w, entry[w], IF entry[w] \in pending THEN count[entry[w]] ELSE 0)
    /\ UNCHANGED <<entryVars, storeVars, groupVars, entry, settling, doneVars, crashes>>

\* XREADGROUP ">"
Read(w) ==
    /\ pc[w] = "read"
    /\ \E e \in unread :
         /\ unread' = unread \ {e}
         /\ HandOut(e)
         /\ entry' = [entry EXCEPT ![w] = e]
         /\ Lease(w, e, 0)
    /\ UNCHANGED <<entryVars, delayed, due, settling, doneVars, crashes>>

\* XREADGROUP times out: ErrNoTask, and Receive starts over.
ReadNone(w) ==
    /\ pc[w] = "read"
    /\ unread = {}
    /\ Goto(w, "idle")
    /\ UNCHANGED <<entryVars, storeVars, groupVars, entry, attempt, settling, doneVars, crashes>>

-----------------------------------------------------------------------------
(* Worker.process and the delivery's settlement *)

\* The handler returns.
Handle(w, outcome) ==
    LET s == Decide(attempt[w], outcome)
    IN  /\ pc[w] = "handle"
        /\ s = "retry" => Room
        /\ settling' = [settling EXCEPT ![w] = s]
        /\ handled' = IF s = "ack" THEN handled \cup {task[entry[w]]} ELSE handled
        /\ Goto(w, IF s = "ack" THEN "ack" ELSE "settle")
        /\ UNCHANGED <<entryVars, storeVars, groupVars, entry, attempt, dead, crashes>>

\* Retry: the new entry carries the attempt of this delivery.
RetryAdd(w, isDelayed) ==
    /\ pc[w] = "settle"
    /\ settling[w] = "retry"
    /\ Add(task[entry[w]], attempt[w], isDelayed)
    /\ settling' = [settling EXCEPT ![w] = "ack"]
    /\ Goto(w, "ack")
    /\ UNCHANGED <<groupVars, entry, attempt, doneVars, crashes>>

\* DeadLetter: XADD to the dead-letter stream.
DeadAdd(w) ==
    /\ pc[w] = "settle"
    /\ settling[w] = "dead"
    /\ dead' = dead \cup {task[entry[w]]}
    /\ settling' = [settling EXCEPT ![w] = "ack"]
    /\ Goto(w, "ack")
    /\ UNCHANGED <<entryVars, storeVars, groupVars, entry, attempt, handled, crashes>>

\* The worker drops what it holds and starts over.
Reset(w) ==
    /\ pc' = [pc EXCEPT ![w] = "idle"]
    /\ entry' = [entry EXCEPT ![w] = NoEntry]
    /\ attempt' = [attempt EXCEPT ![w] = 0]
    /\ settling' = [settling EXCEPT ![w] = "none"]

\* XACK: the entry leaves the pending list, whoever it is assigned to by now.
Ack(w) ==
    /\ pc[w] = "ack"
    /\ pending' = pending \ {entry[w]}
    /\ idle' = idle \ {entry[w]}
    /\ Reset(w)
    /\ UNCHANGED <<entryVars, storeVars, count, handouts, doneVars, crashes>>

\* ackMalformed, after which Receive returns the decoding error and the worker
\* stops; it starts over when it is run again.
AckMalformed(w) ==
    /\ pc[w] = "malformed"
    /\ pending' = pending \ {entry[w]}
    /\ idle' = idle \ {entry[w]}
    /\ Reset(w)
    /\ UNCHANGED <<entryVars, storeVars, count, handouts, doneVars, crashes>>

\* The process dies, or a command of it fails: Receive, Retry, DeadLetter or
\* Ack return the error and the run ends without undoing anything.
Crash(w) ==
    /\ pc[w] # "idle"
    /\ crashes < MaxCrashes
    /\ crashes' = crashes + 1
    /\ Reset(w)
    /\ UNCHANGED <<entryVars, storeVars, groupVars, doneVars>>

-----------------------------------------------------------------------------
ReceiveStep(w) == Promote(w) \/ Claim(w) \/ ClaimNone(w) \/ List(w) \/ XClaim(w)
                    \/ XClaimNone(w) \/ Count(w) \/ Read(w) \/ ReadNone(w) \/ AckMalformed(w)

SettleStep(w) ==
    \/ \E outcome \in Outcome : Handle(w, outcome)
    \/ \E isDelayed \in BOOLEAN : RetryAdd(w, isDelayed)
    \/ DeadAdd(w)
    \/ Ack(w)

Next ==
    \/ \E t \in Tasks, isDelayed \in BOOLEAN : Enqueue(t, isDelayed)
    \/ \E e \in Entry : BecomeDue(e) \/ BecomeIdle(e)
    \/ \E w \in Workers : ReceiveStep(w) \/ SettleStep(w) \/ Crash(w)

\* Time passes, Redis answers, and handlers return; workers are restarted
\* after a crash.  Crash itself is bounded by MaxCrashes.
Fairness ==
    /\ \A e \in Entry : WF_vars(BecomeDue(e)) /\ WF_vars(BecomeIdle(e))
    /\ \A w \in Workers : WF_vars(ReceiveStep(w)) /\ WF_vars(SettleStep(w))

Spec == Init /\ [][Next]_vars /\ Fairness

-----------------------------------------------------------------------------
(* Properties *)

\* An entry Redis will deliver, now or after its delay or idle time.
Deliverable == delayed \cup unread \cup pending

Finished == handled \cup dead

\* Whatever crashes and however claims, retries and acknowledgements of
\* several workers interleave, a task that was enqueued and is not finished
\* has an entry that will be delivered.
NoTaskLost ==
    \A t \in Tasks \ Malformed : newest[t] # 0 /\ t \notin Finished =>
        \E e \in Deliverable : task[e] = t

\* The reason NoTaskLost holds through any chain of retries: the newest entry
\* of an unfinished task is deliverable, and a worker about to acknowledge an
\* entry has finished its task or has put a newer entry in.
NewestIsDeliverable ==
    /\ \A t \in Tasks \ Malformed :
          newest[t] # 0 /\ t \notin Finished => newest[t] \in Deliverable
    /\ \A w \in Workers : pc[w] = "ack" =>
          task[entry[w]] \in Finished \/ newest[task[entry[w]]] > entry[w]

\* The attempt a handler sees never exceeds the number of times Redis handed
\* the task out, so a task is never declared exhausted before it was handed
\* out MaxAttempts times, even when claims race with acknowledgements.
AttemptNeverAhead ==
    \A w \in Workers : pc[w] \in {"handle", "settle"} =>
        attempt[w] \in 1..handouts[task[entry[w]]]

\* WithMaxAttempts: "the total number of allowed task deliveries, including the
\* initial delivery."  No handler then runs on a later attempt.
DeliveriesWithinMaxAttempts ==
    \A w \in Workers : pc[w] = "handle" => attempt[w] <= MaxAttempts

\* Every task that was enqueued is finished in the end, and an entry that does
\* not decode is dropped: it neither reaches a handler nor comes back for ever.
\* (What is enqueued stays so, and what is finished or dropped too.)
TasksFinish ==
    []<>(\A t \in Tasks : newest[t] # 0 =>
            IF t \in Malformed THEN newest[t] \notin Deliverable /\ t \notin Finished ELSE t \in Finished)

\* The tasks with a deliverable entry.
Live == {t \in Tasks \ Malformed : \E e \in Deliverable : task[e] = t}

ALO == INSTANCE AtLeastOnce WITH
        Tasks <- Tasks \ Malformed,
        live <- Live,
        finished <- Finished

\* The adapter implements the queue's promise: a task that was enqueued stays
\* live until it is finished (Enqueue, Retry, DeadLetter, Ack, promoteDue).
AtLeastOnceDelivery == ALO!Spec

=============================================================================
