------------------------- MODULE RedisQueueProofs -------------------------
(***************************************************************************)
(* Proofs about RedisQueue, for any number of tasks, workers, entries,     *)
(* claims and crashes.                                                     *)
(*                                                                         *)
(* NoTaskLost is not inductive: when a worker acknowledges the entry it    *)
(* retried, the entry it put in may itself be gone, retried in its turn.   *)
(* The invariant follows the newest entry of each task instead             *)
(* (NewestIsDeliverable): a task that is not finished has a deliverable    *)
(* newest entry, and a worker that is about to acknowledge holds an entry  *)
(* which is not the newest one, or whose task is finished.                 *)
(***************************************************************************)
EXTENDS RedisQueue, TLAPS

\* Entries are used in order; every entry in use carries a task, and so does
\* everything a worker holds.
EntriesInUse ==
    /\ \A e \in Entry : e < next => task[e] \in Tasks /\ newest[task[e]] # 0
    /\ \A t \in Tasks : newest[t] # 0 => newest[t] < next /\ task[newest[t]] = t
    /\ \A e \in Deliverable : e < next
    /\ \A w \in Workers :
          pc[w] \in {"xclaim", "count", "handle", "settle", "ack", "malformed"} =>
             entry[w] \in Entry /\ entry[w] < next
    /\ Finished \subseteq {t \in Tasks : newest[t] # 0}

\* What decodes is handled, what does not is dropped.
Decoded ==
    \A w \in Workers :
        /\ pc[w] \in {"handle", "settle", "ack"} => task[entry[w]] \notin Malformed
        /\ pc[w] = "malformed" => task[entry[w]] \in Malformed

IInv == TypeOK /\ EntriesInUse /\ Decoded /\ NewestIsDeliverable

\* process always chooses one of the three settlements.
LEMMA DecideType == \A a \in Nat, o \in Outcome : Decide(a, o) \in Settlement
  BY Zenon, MaxAttemptsAssumption DEF Decide, Outcome, Settlement

\* The attempt of a delivery is a natural number.
LEMMA AttemptType ==
    \A a \in Nat, c \in Nat : AttemptWithDeliveryCount(a, c) \in Nat
  BY RedisAssumption DEF AttemptWithDeliveryCount, AtMost

\* The inductive invariant holds of an empty queue.
LEMMA InitIInv == Init => IInv
  BY RedisAssumption DEF Init, IInv, TypeOK, EntriesInUse, Decoded, NewestIsDeliverable,
     Deliverable, Finished, Entry

\* HandOut keeps the types of the group's state.
LEMMA HandOutType ==
    ASSUME TypeOK, NEW e \in Entry, task[e] \in Tasks, HandOut(e)
    PROVE  /\ pending' \subseteq Entry
           /\ idle' \subseteq pending'
           /\ count' \in [Entry -> Nat]
           /\ handouts' \in [Tasks -> Nat]
<1>1. count[e] + 1 \in Nat /\ handouts[task[e]] + 1 \in Nat
  BY DEF TypeOK
<1> QED
  BY Zenon, <1>1 DEF TypeOK, HandOut

\* Add keeps the types of the store and of the entries.
LEMMA AddType ==
    ASSUME TypeOK, NEW t \in Tasks, NEW a \in Nat, NEW d \in BOOLEAN, Add(t, a, d)
    PROVE  /\ next' \in 1..(MaxEntries + 1)
           /\ task' \in [Entry -> Tasks \cup {NoTask}]
           /\ base' \in [Entry -> Nat]
           /\ newest' \in [Tasks -> 0..MaxEntries]
           /\ delayed' \subseteq Entry
           /\ due' \subseteq delayed'
           /\ unread' \subseteq Entry
<1>1. next \in Entry /\ next \in 0..MaxEntries /\ next + 1 \in 1..(MaxEntries + 1)
  BY RedisAssumption DEF Add, Entry, TypeOK
<1>2. newest' \in [Tasks -> 0..MaxEntries]
  BY Zenon, <1>1 DEF TypeOK, Add
<1> QED
  BY Zenon, <1>1, <1>2 DEF TypeOK, Add

\* Every action keeps the types.
LEMMA TypeStep == TypeOK /\ EntriesInUse /\ [Next]_vars => TypeOK'
<1> SUFFICES ASSUME TypeOK, EntriesInUse, [Next]_vars PROVE TypeOK'
  BY Zenon
<1> USE DEF TypeOK
<1> USE DEF entryVars, storeVars, groupVars, workVars, doneVars
<1>1. ASSUME NEW t \in Tasks, NEW d \in BOOLEAN, Enqueue(t, d) PROVE TypeOK'
  BY <1>1, AddType DEF Enqueue
<1>2. ASSUME NEW e \in Entry, BecomeDue(e) PROVE TypeOK'
  BY Zenon, <1>2 DEF BecomeDue
<1>3. ASSUME NEW e \in Entry, BecomeIdle(e) PROVE TypeOK'
  BY Zenon, <1>3 DEF BecomeIdle
<1>4. ASSUME NEW w \in Workers, Promote(w) PROVE TypeOK'
  BY Zenon, <1>4 DEF Promote, Goto
<1>5. ASSUME NEW w \in Workers, Claim(w) PROVE TypeOK'
  <2> PICK e \in idle : HandOut(e) /\ entry' = [entry EXCEPT ![w] = e]
    BY Zenon, <1>5 DEF Claim
  <2>1. e \in Entry /\ task[e] \in Tasks
    BY Zenon DEF EntriesInUse, Deliverable
  <2> QED
    BY Zenon, <1>5, <2>1, HandOutType DEF Claim, Goto
<1>6. ASSUME NEW w \in Workers, ClaimNone(w) PROVE TypeOK'
  BY Zenon, <1>6 DEF ClaimNone, Goto
<1>7. ASSUME NEW w \in Workers, List(w) PROVE TypeOK'
  BY <1>7 DEF List, Goto
<1>8. ASSUME NEW w \in Workers, XClaim(w) PROVE TypeOK'
  <2>1. entry[w] \in Entry /\ task[entry[w]] \in Tasks
    BY Zenon, <1>8 DEF XClaim, EntriesInUse
  <2> QED
    BY Zenon, <1>8, <2>1, HandOutType DEF XClaim, Goto
<1>9. ASSUME NEW w \in Workers, XClaimNone(w) PROVE TypeOK'
  BY Zenon, <1>9 DEF XClaimNone, Goto
<1>10. ASSUME NEW w \in Workers, Count(w) PROVE TypeOK'
  <2>1. entry[w] \in Entry
    BY Zenon, <1>10 DEF Count, EntriesInUse
  <2>2. attempt' \in [Workers -> Nat]
    BY Zenon, <1>10, <2>1, AttemptType DEF Count, Lease
  <2> QED
    BY Zenon, <1>10, <2>1, <2>2 DEF Count, Lease, Goto
<1>11. ASSUME NEW w \in Workers, Read(w) PROVE TypeOK'
  <2> PICK e \in unread : /\ unread' = unread \ {e}
                          /\ HandOut(e)
                          /\ entry' = [entry EXCEPT ![w] = e]
                          /\ Lease(w, e, 0)
    BY Zenon, <1>11 DEF Read
  <2>1. e \in Entry /\ task[e] \in Tasks
    BY Zenon DEF EntriesInUse, Deliverable
  <2>2. attempt' \in [Workers -> Nat]
    BY Zenon, <2>1, AttemptType DEF Lease
  <2> QED
    BY Zenon, <1>11, <2>1, <2>2, HandOutType DEF Read, Lease, Goto
<1>12. ASSUME NEW w \in Workers, ReadNone(w) PROVE TypeOK'
  BY Zenon, <1>12 DEF ReadNone, Goto
<1>13. ASSUME NEW w \in Workers, AckMalformed(w) PROVE TypeOK'
  BY Zenon, <1>13 DEF AckMalformed, Reset
<1>14. ASSUME NEW w \in Workers, NEW o \in Outcome, Handle(w, o) PROVE TypeOK'
  <2>1. Decide(attempt[w], o) \in Settlement
    BY Zenon, DecideType
  <2>2. entry[w] \in Entry /\ task[entry[w]] \in Tasks
    BY Zenon, <1>14 DEF Handle, EntriesInUse
  <2> QED
    BY Zenon, <1>14, <2>1, <2>2 DEF Handle, Goto, Settlement
<1>15. ASSUME NEW w \in Workers, NEW d \in BOOLEAN, RetryAdd(w, d) PROVE TypeOK'
  <2>1. entry[w] \in Entry /\ task[entry[w]] \in Tasks
    BY Zenon, <1>15 DEF RetryAdd, EntriesInUse
  <2> QED
    BY <1>15, <2>1, AddType DEF RetryAdd, Goto, Settlement
<1>16. ASSUME NEW w \in Workers, DeadAdd(w) PROVE TypeOK'
  <2>1. entry[w] \in Entry /\ task[entry[w]] \in Tasks
    BY Zenon, <1>16 DEF DeadAdd, EntriesInUse
  <2> QED
    BY Zenon, <1>16, <2>1 DEF DeadAdd, Goto, Settlement
<1>17. ASSUME NEW w \in Workers, Ack(w) PROVE TypeOK'
  BY Zenon, <1>17 DEF Ack, Reset
<1>18. ASSUME NEW w \in Workers, Crash(w) PROVE TypeOK'
  <2>1. crashes' \in Nat
    BY <1>18 DEF Crash
  <2> QED
    BY Zenon, <1>18, <2>1 DEF Crash, Reset
<1>19. CASE UNCHANGED vars
  BY Zenon, <1>19 DEF vars
<1> QED
  BY Zenon, <1>1, <1>2, <1>3, <1>4, <1>5, <1>6, <1>7, <1>8, <1>9, <1>10, <1>11, <1>12, <1>13,
     <1>14, <1>15, <1>16, <1>17, <1>18, <1>19 DEF Next, ReceiveStep, SettleStep

\* Add writes one new entry and leaves the tasks of the others alone.
LEMMA AddTask ==
    ASSUME TypeOK, NEW t \in Tasks, NEW a \in Nat, NEW d \in BOOLEAN, Add(t, a, d)
    PROVE  /\ task'[next] = t
           /\ newest'[t] = next
           /\ \A e \in Entry : e < next => task'[e] = task[e]
<1>1. next \in Entry /\ Entry \subseteq Int
  BY DEF Add, Entry
<1>2. \A e \in Entry : e < next => e # next
  BY <1>1
<1>3. \A e \in Entry : e # next => task'[e] = task[e]
  BY Zenon, <1>1 DEF Add, TypeOK
<1>4. task'[next] = t /\ newest'[t] = next
  BY Zenon, <1>1 DEF Add, TypeOK
<1> QED
  BY Zenon, <1>2, <1>3, <1>4

-----------------------------------------------------------------------------
\* Adding an entry keeps the facts about entries in use.
LEMMA AddEntries ==
    ASSUME TypeOK, EntriesInUse, NEW t \in Tasks, NEW a \in Nat, NEW d \in BOOLEAN,
           Add(t, a, d), UNCHANGED <<pending, handled>>
    PROVE  /\ next' = next + 1
           /\ \A e \in Entry : e < next => e < next' /\ task'[e] = task[e]
           /\ task'[next] = t /\ newest'[t] = next
           /\ \A u \in Tasks : u # t => newest'[u] = newest[u]
           /\ \A u \in Tasks : newest[u] # 0 => newest'[u] # 0
           /\ Deliverable' = Deliverable \cup {next}
           /\ \A e \in Entry : e < next' => task'[e] \in Tasks /\ newest'[task'[e]] # 0
           /\ \A u \in Tasks : newest'[u] # 0 => newest'[u] < next' /\ task'[newest'[u]] = u
           /\ \A e \in Deliverable' : e < next'
<1>1. /\ next \in Entry /\ next \in Nat /\ next # 0 /\ next' = next + 1 /\ Entry \subseteq Int
      /\ next' \in Int
  BY RedisAssumption DEF Add, TypeOK, Entry
<1>2. /\ \A e \in Entry : e # next => task'[e] = task[e]
      /\ task'[next] = t /\ newest'[t] = next
      /\ \A u \in Tasks : u # t => newest'[u] = newest[u]
  BY Zenon, <1>1 DEF Add, TypeOK
<1>3. Deliverable' = Deliverable \cup {next}
  BY Zenon DEF Add, Deliverable
<1>4. \A e \in Entry : e < next' => e < next \/ e = next
  BY <1>1
<1>5. \A e \in Entry : e < next => e # next /\ e < next'
  BY <1>1
<1>6. ASSUME NEW e \in Entry, e < next' PROVE task'[e] \in Tasks /\ newest'[task'[e]] # 0
  BY Zenon, <1>1, <1>2, <1>4, <1>5, <1>6 DEF EntriesInUse
<1>7. ASSUME NEW u \in Tasks, newest'[u] # 0 PROVE newest'[u] < next' /\ task'[newest'[u]] = u
  <2>1. CASE u = t
    BY <1>1, <1>2, <2>1
  <2>2. CASE u # t
    <3>1. newest[u] # 0 /\ newest[u] < next /\ task[newest[u]] = u
      BY Zenon, <1>2, <1>7, <2>2 DEF EntriesInUse
    <3>2. newest[u] \in Entry
      BY <3>1, RedisAssumption DEF TypeOK, Entry
    <3>3. newest[u] < next'
      BY Zenon, <1>5, <3>1, <3>2
    <3> QED
      BY Zenon, <1>2, <1>5, <2>2, <3>1, <3>2, <3>3
  <2> QED
    BY Zenon, <2>1, <2>2
<1>8. ASSUME NEW e \in Deliverable' PROVE e < next'
  <2>1. CASE e = next
    BY <1>1, <2>1
  <2>2. CASE e \in Deliverable
    <3>1. e < next /\ e \in Entry
      BY Zenon, <2>2 DEF EntriesInUse, Deliverable, TypeOK
    <3> QED
      BY <1>1, <3>1
  <2> QED
    BY Zenon, <1>3, <2>1, <2>2
<1> QED
  BY Zenon, <1>1, <1>2, <1>3, <1>5, <1>6, <1>7, <1>8

\* The entries and the tasks stay as they are; what a worker holds is in use.
LEMMA SameEntries ==
    ASSUME EntriesInUse, UNCHANGED entryVars,
           \A e \in Deliverable' : e \in Deliverable,
           \A w \in Workers :
              pc'[w] \in {"xclaim", "count", "handle", "settle", "ack", "malformed"} =>
                 entry'[w] \in Entry /\ entry'[w] < next,
           Finished' \subseteq {t \in Tasks : newest[t] # 0}
    PROVE  EntriesInUse'
  BY Zenon DEF EntriesInUse, entryVars

\* Every step of producers, workers and time keeps entries in use: a worker only
\* holds an entry that Enqueue or Retry created.
LEMMA EntriesStep == TypeOK /\ EntriesInUse /\ [Next]_vars => EntriesInUse'
<1> SUFFICES ASSUME TypeOK, EntriesInUse, [Next]_vars PROVE EntriesInUse'
  BY Zenon
<1> USE DEF storeVars, groupVars, workVars, doneVars
<1>a. \A e \in Deliverable : e \in Entry /\ e < next
  BY Zenon DEF EntriesInUse, Deliverable, TypeOK
<1>b. idle \subseteq pending
  BY Zenon DEF TypeOK
<1>1. ASSUME NEW t \in Tasks, NEW d \in BOOLEAN, Enqueue(t, d) PROVE EntriesInUse'
  <2>1. Add(t, 0, d) /\ UNCHANGED <<pending, handled>>
    BY Zenon, <1>1 DEF Enqueue
  <2>2. /\ \A e \in Entry : e < next => e < next'
        /\ \A u \in Tasks : newest[u] # 0 => newest'[u] # 0
        /\ \A e \in Entry : e < next' => task'[e] \in Tasks /\ newest'[task'[e]] # 0
        /\ \A u \in Tasks : newest'[u] # 0 => newest'[u] < next' /\ task'[newest'[u]] = u
        /\ \A e \in Deliverable' : e < next'
    BY Zenon, <2>1, AddEntries
  <2>3. \A v \in Workers : pc'[v] \in {"xclaim", "count", "handle", "settle", "ack", "malformed"} =>
           entry'[v] \in Entry /\ entry'[v] < next'
    BY Zenon, <1>1, <2>2 DEF Enqueue, EntriesInUse
  <2>4. Finished' \subseteq {u \in Tasks : newest'[u] # 0}
    BY Zenon, <1>1, <2>2 DEF Enqueue, EntriesInUse, Finished
  <2> QED
    BY Zenon, <2>2, <2>3, <2>4 DEF EntriesInUse
<1>2. ASSUME NEW e \in Entry, BecomeDue(e) PROVE EntriesInUse'
  <2>1. UNCHANGED entryVars /\ (\A f \in Deliverable' : f \in Deliverable) /\ Finished' = Finished
    BY Zenon, <1>2 DEF BecomeDue, Deliverable, Finished
  <2>2. \A v \in Workers :
           pc'[v] \in {"xclaim", "count", "handle", "settle", "ack", "malformed"} =>
              entry'[v] \in Entry /\ entry'[v] < next
    BY Zenon, <1>2 DEF BecomeDue, Goto, EntriesInUse, TypeOK
  <2> QED
    BY Zenon, <2>1, <2>2, SameEntries DEF EntriesInUse
<1>3. ASSUME NEW e \in Entry, BecomeIdle(e) PROVE EntriesInUse'
  <2>1. UNCHANGED entryVars /\ (\A f \in Deliverable' : f \in Deliverable) /\ Finished' = Finished
    BY Zenon, <1>3 DEF BecomeIdle, Deliverable, Finished
  <2>2. \A v \in Workers :
           pc'[v] \in {"xclaim", "count", "handle", "settle", "ack", "malformed"} =>
              entry'[v] \in Entry /\ entry'[v] < next
    BY Zenon, <1>3 DEF BecomeIdle, Goto, EntriesInUse, TypeOK
  <2> QED
    BY Zenon, <2>1, <2>2, SameEntries DEF EntriesInUse
<1>4. ASSUME NEW w \in Workers, Promote(w) PROVE EntriesInUse'
  <2>1. \A e \in Deliverable' : e \in Deliverable
    BY Zenon, <1>4 DEF Promote, Deliverable, TypeOK
  <2>2. UNCHANGED entryVars /\ Finished' = Finished
    BY Zenon, <1>4 DEF Promote, Finished
  <2>3. \A v \in Workers :
           pc'[v] \in {"xclaim", "count", "handle", "settle", "ack", "malformed"} =>
              entry'[v] \in Entry /\ entry'[v] < next
    BY Zenon, <1>4 DEF Promote, EntriesInUse, Goto, TypeOK
  <2> QED
    BY Zenon, <2>1, <2>2, <2>3, SameEntries DEF EntriesInUse
<1>5. ASSUME NEW w \in Workers, Claim(w) PROVE EntriesInUse'
  <2> PICK e \in idle : HandOut(e) /\ entry' = [entry EXCEPT ![w] = e]
    BY Zenon, <1>5 DEF Claim
  <2>1. e \in Entry /\ e < next
    BY Zenon, <1>a, <1>b DEF Deliverable
  <2>a. UNCHANGED entryVars /\ \A f \in Deliverable' : f \in Deliverable
    BY Zenon, <1>5, <1>b DEF Claim, HandOut, Deliverable
  <2>b. \A v \in Workers :
        pc'[v] \in {"xclaim", "count", "handle", "settle", "ack", "malformed"} =>
           entry'[v] \in Entry /\ entry'[v] < next
    BY <1>5, <2>1 DEF Claim, Goto, EntriesInUse, TypeOK
  <2>c. Finished' \subseteq {t \in Tasks : newest[t] # 0}
    BY Zenon, <1>5 DEF Claim, EntriesInUse, Finished
  <2> QED
    BY Zenon, <2>a, <2>b, <2>c, SameEntries
<1>6. ASSUME NEW w \in Workers, ClaimNone(w) PROVE EntriesInUse'
  <2>1. UNCHANGED entryVars /\ (\A f \in Deliverable' : f \in Deliverable) /\ Finished' = Finished
    BY Zenon, <1>6 DEF ClaimNone, Deliverable, Finished
  <2>2. \A v \in Workers :
           pc'[v] \in {"xclaim", "count", "handle", "settle", "ack", "malformed"} =>
              entry'[v] \in Entry /\ entry'[v] < next
    BY Zenon, <1>6 DEF ClaimNone, Goto, EntriesInUse, TypeOK
  <2> QED
    BY Zenon, <2>1, <2>2, SameEntries DEF EntriesInUse
<1>7. ASSUME NEW w \in Workers, List(w) PROVE EntriesInUse'
  <2>1. \A e \in idle : e \in Entry /\ e < next
    BY Zenon, <1>a, <1>b DEF Deliverable
  <2>2. \A v \in Workers : pc'[v] \in {"xclaim", "count", "handle", "settle", "ack", "malformed"} =>
           entry'[v] \in Entry /\ entry'[v] < next
    BY <1>7, <2>1 DEF List, Goto, EntriesInUse, TypeOK
  <2>3. UNCHANGED entryVars /\ Deliverable' = Deliverable /\ Finished' = Finished
    BY Zenon, <1>7 DEF List, Deliverable, Finished
  <2> QED
    BY Zenon, <2>2, <2>3, SameEntries DEF EntriesInUse
<1>8. ASSUME NEW w \in Workers, XClaim(w) PROVE EntriesInUse'
  <2>1. UNCHANGED entryVars /\ \A f \in Deliverable' : f \in Deliverable
    BY Zenon, <1>8, <1>b DEF XClaim, HandOut, Deliverable
  <2>2. \A v \in Workers : pc'[v] \in {"xclaim", "count", "handle", "settle", "ack", "malformed"} =>
           entry'[v] \in Entry /\ entry'[v] < next
    BY Zenon, <1>8 DEF XClaim, Goto, EntriesInUse, TypeOK
  <2>3. Finished' = Finished
    BY Zenon, <1>8 DEF XClaim, Finished
  <2> QED
    BY Zenon, <2>1, <2>2, <2>3, SameEntries DEF EntriesInUse
<1>9. ASSUME NEW w \in Workers, XClaimNone(w) PROVE EntriesInUse'
  <2>1. UNCHANGED entryVars /\ (\A f \in Deliverable' : f \in Deliverable) /\ Finished' = Finished
    BY Zenon, <1>9 DEF XClaimNone, Deliverable, Finished
  <2>2. \A v \in Workers :
           pc'[v] \in {"xclaim", "count", "handle", "settle", "ack", "malformed"} =>
              entry'[v] \in Entry /\ entry'[v] < next
    BY <1>9 DEF XClaimNone, Goto, EntriesInUse, TypeOK
  <2> QED
    BY Zenon, <2>1, <2>2, SameEntries DEF EntriesInUse
<1>10. ASSUME NEW w \in Workers, Count(w) PROVE EntriesInUse'
  <2>1. UNCHANGED entryVars /\ (\A f \in Deliverable' : f \in Deliverable) /\ Finished' = Finished
    BY Zenon, <1>10 DEF Count, Deliverable, Finished
  <2>2. \A v \in Workers :
           pc'[v] \in {"xclaim", "count", "handle", "settle", "ack", "malformed"} =>
              entry'[v] \in Entry /\ entry'[v] < next
    BY Zenon, <1>10 DEF Count, Lease, Goto, EntriesInUse, TypeOK
  <2> QED
    BY Zenon, <2>1, <2>2, SameEntries DEF EntriesInUse
<1>11. ASSUME NEW w \in Workers, Read(w) PROVE EntriesInUse'
  <2> PICK e \in unread : /\ unread' = unread \ {e}
                          /\ HandOut(e)
                          /\ entry' = [entry EXCEPT ![w] = e]
                          /\ Lease(w, e, 0)
    BY Zenon, <1>11 DEF Read
  <2>1. e \in Entry /\ e < next
    BY Zenon, <1>a DEF Deliverable
  <2>a. UNCHANGED entryVars /\ \A f \in Deliverable' : f \in Deliverable
    BY Zenon, <1>11 DEF Read, HandOut, Deliverable
  <2>b. \A v \in Workers :
        pc'[v] \in {"xclaim", "count", "handle", "settle", "ack", "malformed"} =>
           entry'[v] \in Entry /\ entry'[v] < next
    BY Zenon, <1>11, <2>1 DEF Read, Lease, Goto, EntriesInUse, TypeOK
  <2>c. Finished' \subseteq {t \in Tasks : newest[t] # 0}
    BY Zenon, <1>11 DEF Read, EntriesInUse, Finished
  <2> QED
    BY Zenon, <2>a, <2>b, <2>c, SameEntries
<1>12. ASSUME NEW w \in Workers, ReadNone(w) PROVE EntriesInUse'
  <2>1. UNCHANGED entryVars /\ (\A f \in Deliverable' : f \in Deliverable) /\ Finished' = Finished
    BY Zenon, <1>12 DEF ReadNone, Deliverable, Finished
  <2>2. \A v \in Workers :
           pc'[v] \in {"xclaim", "count", "handle", "settle", "ack", "malformed"} =>
              entry'[v] \in Entry /\ entry'[v] < next
    BY Zenon, <1>12 DEF ReadNone, Goto, EntriesInUse, TypeOK
  <2> QED
    BY Zenon, <2>1, <2>2, SameEntries DEF EntriesInUse
<1>13. ASSUME NEW w \in Workers, AckMalformed(w) PROVE EntriesInUse'
  <2>1. UNCHANGED entryVars /\ (\A f \in Deliverable' : f \in Deliverable) /\ Finished' = Finished
    BY Zenon, <1>13 DEF AckMalformed, Deliverable, Finished
  <2>2. \A v \in Workers :
           pc'[v] \in {"xclaim", "count", "handle", "settle", "ack", "malformed"} =>
              entry'[v] \in Entry /\ entry'[v] < next
    BY Zenon, <1>13 DEF AckMalformed, Reset, EntriesInUse, TypeOK
  <2> QED
    BY Zenon, <2>1, <2>2, SameEntries DEF EntriesInUse
<1>14. ASSUME NEW w \in Workers, NEW o \in Outcome, Handle(w, o) PROVE EntriesInUse'
  <2>1. entry[w] \in Entry /\ entry[w] < next /\ task[entry[w]] \in Tasks
        /\ newest[task[entry[w]]] # 0
    BY Zenon, <1>14 DEF Handle, EntriesInUse
  <2>a. UNCHANGED entryVars /\ \A f \in Deliverable' : f \in Deliverable
    BY Zenon, <1>14 DEF Handle, Deliverable
  <2>b. \A v \in Workers :
        pc'[v] \in {"xclaim", "count", "handle", "settle", "ack", "malformed"} =>
           entry'[v] \in Entry /\ entry'[v] < next
    BY Zenon, <1>14 DEF Handle, Goto, EntriesInUse, TypeOK
  <2>c. Finished' \subseteq {t \in Tasks : newest[t] # 0}
    BY Zenon, <1>14, <2>1 DEF Handle, EntriesInUse, Finished
  <2> QED
    BY Zenon, <2>a, <2>b, <2>c, SameEntries
<1>15. ASSUME NEW w \in Workers, NEW d \in BOOLEAN, RetryAdd(w, d) PROVE EntriesInUse'
  <2>1. entry[w] \in Entry /\ entry[w] < next /\ task[entry[w]] \in Tasks /\ attempt[w] \in Nat
    BY Zenon, <1>15 DEF RetryAdd, EntriesInUse, TypeOK
  <2>2. Add(task[entry[w]], attempt[w], d) /\ UNCHANGED <<pending, handled>>
    BY Zenon, <1>15 DEF RetryAdd
  <2>3. /\ \A e \in Entry : e < next => e < next'
        /\ \A u \in Tasks : newest[u] # 0 => newest'[u] # 0
        /\ \A e \in Entry : e < next' => task'[e] \in Tasks /\ newest'[task'[e]] # 0
        /\ \A u \in Tasks : newest'[u] # 0 => newest'[u] < next' /\ task'[newest'[u]] = u
        /\ \A e \in Deliverable' : e < next'
    BY Zenon, <2>1, <2>2, AddEntries
  <2>4. \A v \in Workers :
           pc'[v] \in {"xclaim", "count", "handle", "settle", "ack", "malformed"} =>
              entry'[v] \in Entry /\ entry'[v] < next'
    <3>1. \A v \in Workers : pc[v] \in {"xclaim", "count", "handle", "settle", "ack", "malformed"} =>
             entry[v] \in Entry /\ entry[v] < next'
      BY Zenon, <2>3 DEF EntriesInUse
    <3>2. UNCHANGED entry /\ pc[w] = "settle" /\ \A v \in Workers : v # w => pc'[v] = pc[v]
      BY Zenon, <1>15 DEF RetryAdd, Goto, TypeOK
    <3> QED
      BY Zenon, <3>1, <3>2
  <2>5. Finished' \subseteq {u \in Tasks : newest'[u] # 0}
    BY Zenon, <1>15, <2>3 DEF RetryAdd, EntriesInUse, Finished
  <2> QED
    BY Zenon, <2>3, <2>4, <2>5 DEF EntriesInUse
<1>16. ASSUME NEW w \in Workers, DeadAdd(w) PROVE EntriesInUse'
  <2>1. entry[w] \in Entry /\ entry[w] < next /\ task[entry[w]] \in Tasks
        /\ newest[task[entry[w]]] # 0
    BY Zenon, <1>16 DEF DeadAdd, EntriesInUse
  <2>a. UNCHANGED entryVars /\ \A f \in Deliverable' : f \in Deliverable
    BY Zenon, <1>16 DEF DeadAdd, Deliverable
  <2>b. \A v \in Workers :
        pc'[v] \in {"xclaim", "count", "handle", "settle", "ack", "malformed"} =>
           entry'[v] \in Entry /\ entry'[v] < next
    BY Zenon, <1>16 DEF DeadAdd, Goto, EntriesInUse, TypeOK
  <2>c. Finished' \subseteq {t \in Tasks : newest[t] # 0}
    BY Zenon, <1>16, <2>1 DEF DeadAdd, EntriesInUse, Finished
  <2> QED
    BY Zenon, <2>a, <2>b, <2>c, SameEntries
<1>17. ASSUME NEW w \in Workers, Ack(w) PROVE EntriesInUse'
  <2>1. UNCHANGED entryVars /\ (\A f \in Deliverable' : f \in Deliverable) /\ Finished' = Finished
    BY Zenon, <1>17 DEF Ack, Deliverable, Finished
  <2>2. \A v \in Workers :
           pc'[v] \in {"xclaim", "count", "handle", "settle", "ack", "malformed"} =>
              entry'[v] \in Entry /\ entry'[v] < next
    BY Zenon, <1>17 DEF Ack, Reset, EntriesInUse, TypeOK
  <2> QED
    BY Zenon, <2>1, <2>2, SameEntries DEF EntriesInUse
<1>18. ASSUME NEW w \in Workers, Crash(w) PROVE EntriesInUse'
  <2>1. UNCHANGED entryVars /\ (\A f \in Deliverable' : f \in Deliverable) /\ Finished' = Finished
    BY Zenon, <1>18 DEF Crash, Deliverable, Finished
  <2>2. \A v \in Workers :
           pc'[v] \in {"xclaim", "count", "handle", "settle", "ack", "malformed"} =>
              entry'[v] \in Entry /\ entry'[v] < next
    BY <1>18 DEF Crash, Reset, EntriesInUse, TypeOK
  <2> QED
    BY Zenon, <2>1, <2>2, SameEntries DEF EntriesInUse
<1>19. CASE UNCHANGED vars
  <2>1. UNCHANGED entryVars /\ (\A f \in Deliverable' : f \in Deliverable) /\ Finished' = Finished
    BY Zenon, <1>19 DEF vars, Deliverable, Finished
  <2>2. \A v \in Workers :
           pc'[v] \in {"xclaim", "count", "handle", "settle", "ack", "malformed"} =>
              entry'[v] \in Entry /\ entry'[v] < next
    BY Zenon, <1>19 DEF vars, Goto, EntriesInUse, TypeOK
  <2> QED
    BY Zenon, <2>1, <2>2, SameEntries DEF EntriesInUse
<1> QED
  BY Zenon, <1>1, <1>2, <1>3, <1>4, <1>5, <1>6, <1>7, <1>8, <1>9, <1>10, <1>11, <1>12, <1>13,
     <1>14, <1>15, <1>16, <1>17, <1>18, <1>19 DEF Next, ReceiveStep, SettleStep

-----------------------------------------------------------------------------
\* Every action keeps malformed entries away from handlers: Lease decides
\* where an entry goes, and the task of an entry never changes.
LEMMA DecodedStep == TypeOK /\ EntriesInUse /\ Decoded /\ [Next]_vars => Decoded'
<1> SUFFICES ASSUME TypeOK, EntriesInUse, Decoded, [Next]_vars PROVE Decoded'
  BY Zenon
<1> USE DEF entryVars, storeVars, groupVars, workVars, doneVars, Goto
<1>1. ASSUME NEW t \in Tasks, NEW d \in BOOLEAN, Enqueue(t, d) PROVE Decoded'
  <2>1. Add(t, 0, d) /\ UNCHANGED <<pending, handled>>
    BY Zenon, <1>1 DEF Enqueue
  <2>2. \A e \in Entry : e < next => task'[e] = task[e]
    BY Zenon, <2>1, AddTask
  <2>3. \A v \in Workers : pc[v] \in {"handle", "settle", "ack", "malformed"} =>
           task'[entry[v]] = task[entry[v]]
    BY Zenon, <2>2 DEF EntriesInUse
  <2> QED
    BY Zenon, <1>1, <2>3 DEF Enqueue, Decoded
<1>2. CASE UNCHANGED <<task, pc, entry>>
  BY Zenon, <1>2 DEF Decoded
<1>3. ASSUME NEW w \in Workers, UNCHANGED task,
             \/ pc' = [pc EXCEPT ![w] = "idle"]
             \/ pc' = [pc EXCEPT ![w] = "claim"]
             \/ pc' = [pc EXCEPT ![w] = "list"]
             \/ pc' = [pc EXCEPT ![w] = "xclaim"]
             \/ pc' = [pc EXCEPT ![w] = "read"]
             \/ pc' = [pc EXCEPT ![w] = "count"],
             \A v \in Workers : v # w => entry'[v] = entry[v]
      PROVE  Decoded'
  BY <1>3 DEF Decoded, TypeOK
<1>4. ASSUME NEW w \in Workers, Claim(w) PROVE Decoded'
  BY Zenon, <1>3, <1>4 DEF Claim, TypeOK
<1>5. ASSUME NEW w \in Workers, List(w) PROVE Decoded'
  BY Zenon, <1>3, <1>5 DEF List, TypeOK
<1>6. ASSUME NEW w \in Workers,
             Promote(w) \/ ClaimNone(w) \/ XClaim(w) \/ XClaimNone(w) \/ ReadNone(w)
      PROVE  Decoded'
  BY Zenon, <1>3, <1>6 DEF Promote, ClaimNone, XClaim, XClaimNone, ReadNone, TypeOK
<1>7. ASSUME NEW w \in Workers, AckMalformed(w) \/ Ack(w) \/ Crash(w) PROVE Decoded'
  BY Zenon, <1>3, <1>7 DEF AckMalformed, Ack, Crash, Reset, TypeOK
<1>8. ASSUME NEW w \in Workers, Count(w) PROVE Decoded'
  BY Zenon, <1>8 DEF Count, Lease, Decoded, TypeOK
<1>9. ASSUME NEW w \in Workers, Read(w) PROVE Decoded'
  BY <1>9 DEF Read, Lease, Decoded, TypeOK
<1>10. ASSUME NEW w \in Workers, NEW o \in Outcome, Handle(w, o) PROVE Decoded'
  BY Zenon, <1>10 DEF Handle, Decoded, TypeOK
<1>11. ASSUME NEW w \in Workers, NEW d \in BOOLEAN, RetryAdd(w, d) PROVE Decoded'
  <2>1. entry[w] \in Entry /\ entry[w] < next /\ task[entry[w]] \in Tasks /\ attempt[w] \in Nat
    BY Zenon, <1>11 DEF RetryAdd, EntriesInUse, TypeOK
  <2>2. Add(task[entry[w]], attempt[w], d) /\ UNCHANGED <<pending, handled>>
    BY Zenon, <1>11 DEF RetryAdd
  <2>3. \A e \in Entry : e < next => task'[e] = task[e]
    BY Zenon, <2>1, <2>2, AddTask
  <2>4. /\ UNCHANGED entry
        /\ \A v \in Workers : v # w => pc'[v] = pc[v]
        /\ pc[w] = "settle" /\ pc'[w] = "ack"
    BY Zenon, <1>11 DEF RetryAdd, Goto, TypeOK
  <2>5. \A v \in Workers : pc[v] \in {"handle", "settle", "ack", "malformed"} =>
           entry[v] \in Entry /\ entry[v] < next
    BY Zenon DEF EntriesInUse
  <2> QED
    BY <2>3, <2>4, <2>5 DEF Decoded
<1>12. ASSUME NEW w \in Workers, DeadAdd(w) PROVE Decoded'
  BY Zenon, <1>12 DEF DeadAdd, Decoded, TypeOK
<1>13. ASSUME NEW e \in Entry, BecomeDue(e) \/ BecomeIdle(e) PROVE Decoded'
  BY Zenon, <1>2, <1>13 DEF BecomeDue, BecomeIdle
<1>14. CASE UNCHANGED vars
  BY Zenon, <1>2, <1>14 DEF vars
<1> QED
  BY Zenon, <1>1, <1>4, <1>5, <1>6, <1>7, <1>8, <1>9, <1>10, <1>11, <1>12, <1>13, <1>14
  DEF Next, ReceiveStep, SettleStep

-----------------------------------------------------------------------------
\* Nothing becomes undeliverable, no task or newest entry changes, and no
\* worker gets ready to acknowledge.
LEMMA SameNewest ==
    ASSUME NewestIsDeliverable, UNCHANGED <<task, newest>>,
           \A e \in Deliverable : e \in Deliverable',
           Finished \subseteq Finished',
           \A w \in Workers : pc'[w] = "ack" => pc[w] = "ack" /\ entry'[w] = entry[w]
    PROVE  NewestIsDeliverable'
  BY Zenon DEF NewestIsDeliverable

\* Acknowledging an entry: if it is a newest one, its task is finished or is
\* not a task at all.
LEMMA AckNewest ==
    ASSUME NEW w \in Workers, TypeOK, EntriesInUse, NewestIsDeliverable,
           entry[w] \in Entry, task[entry[w]] \in Tasks,
           \/ task[entry[w]] \in Malformed
           \/ task[entry[w]] \in Finished
           \/ newest[task[entry[w]]] > entry[w],
           pending' = pending \ {entry[w]},
           pc' = [pc EXCEPT ![w] = "idle"], entry' = [entry EXCEPT ![w] = NoEntry],
           UNCHANGED <<task, newest, delayed, unread, handled, dead>>
    PROVE  NewestIsDeliverable'
<1>1. ASSUME NEW t \in Tasks \ Malformed, newest[t] # 0, t \notin Finished
      PROVE  newest[t] \in Deliverable'
  <2>1. newest[t] \in Deliverable /\ task[newest[t]] = t
    BY Zenon, <1>1 DEF NewestIsDeliverable, EntriesInUse
  <2>2. newest[t] # entry[w]
    <3> SUFFICES ASSUME newest[t] = entry[w] PROVE FALSE
      BY Zenon
    <3>1. newest[task[entry[w]]] > entry[w] /\ task[entry[w]] = t
      BY Zenon, <1>1, <2>1
    <3> QED
      BY <3>1, RedisAssumption DEF Entry
  <2> QED
    BY Zenon, <2>1, <2>2 DEF Deliverable
<1>2. Finished' = Finished
  BY Zenon DEF Finished
<1>3. \A v \in Workers : pc'[v] = "ack" => pc[v] = "ack" /\ entry'[v] = entry[v]
  BY Zenon DEF TypeOK
<1>4. \A v \in Workers : pc'[v] = "ack" =>
         task'[entry'[v]] \in Finished' \/ newest'[task'[entry'[v]]] > entry'[v]
  BY <1>2, <1>3 DEF NewestIsDeliverable
<1>5. \A t \in Tasks \ Malformed : newest'[t] # 0 /\ t \notin Finished' => newest'[t] \in Deliverable'
  BY Zenon, <1>1, <1>2
<1> QED
  BY Zenon, <1>4, <1>5 DEF NewestIsDeliverable

\* Adding an entry of a task that is in use, or is not yet: it is the newest.
LEMMA AddNewest ==
    ASSUME TypeOK, EntriesInUse, NewestIsDeliverable,
           NEW t \in Tasks, NEW a \in Nat, NEW d \in BOOLEAN, Add(t, a, d),
           UNCHANGED <<pending, handled, dead>>
    PROVE  /\ \A u \in Tasks \ Malformed :
                 newest'[u] # 0 /\ u \notin Finished' => newest'[u] \in Deliverable'
           /\ \A w \in Workers : pc[w] = "ack" =>
                 task'[entry[w]] \in Finished' \/ newest'[task'[entry[w]]] > entry[w]
<1>1. /\ Deliverable' = Deliverable \cup {next} /\ newest'[t] = next
      /\ \A u \in Tasks : u # t => newest'[u] = newest[u]
      /\ \A e \in Entry : e < next => task'[e] = task[e]
  BY AddEntries
<1>2. Finished' = Finished
  BY Zenon DEF Finished
<1>3. ASSUME NEW w \in Workers, pc[w] = "ack"
      PROVE  task'[entry[w]] \in Finished' \/ newest'[task'[entry[w]]] > entry[w]
  <2>1. entry[w] \in Entry /\ entry[w] < next /\ task'[entry[w]] = task[entry[w]]
        /\ task[entry[w]] \in Tasks
    BY Zenon, <1>1, <1>3 DEF EntriesInUse
  <2>2. next > entry[w]
    BY Zenon, <2>1, RedisAssumption DEF Entry, TypeOK
  <2> QED
    BY Zenon, <1>1, <1>2, <1>3, <2>1, <2>2 DEF NewestIsDeliverable
<1> QED
  BY Zenon, <1>1, <1>2, <1>3 DEF NewestIsDeliverable

\* Every action keeps the newest entry of an unfinished task deliverable.
LEMMA NewestStep ==
    TypeOK /\ EntriesInUse /\ Decoded /\ NewestIsDeliverable /\ [Next]_vars
        => NewestIsDeliverable'
<1> SUFFICES ASSUME TypeOK, EntriesInUse, Decoded, NewestIsDeliverable, [Next]_vars
             PROVE  NewestIsDeliverable'
  BY Zenon
<1> USE DEF entryVars, storeVars, groupVars, workVars, doneVars, Goto
<1>1. ASSUME NEW t \in Tasks, NEW d \in BOOLEAN, Enqueue(t, d) PROVE NewestIsDeliverable'
  <2>1. Add(t, 0, d) /\ UNCHANGED <<pending, handled, dead, pc, entry>>
    BY Zenon, <1>1 DEF Enqueue
  <2> QED
    BY Zenon, <2>1, AddNewest DEF NewestIsDeliverable
<1>2. ASSUME NEW e \in Entry, BecomeDue(e) \/ BecomeIdle(e) PROVE NewestIsDeliverable'
  BY Zenon, <1>2, SameNewest DEF BecomeDue, BecomeIdle, Deliverable, Finished
<1>3. ASSUME NEW w \in Workers, Promote(w) PROVE NewestIsDeliverable'
  BY Zenon, <1>3, SameNewest DEF Promote, Deliverable, Finished, TypeOK
<1>4. ASSUME NEW w \in Workers, Claim(w) PROVE NewestIsDeliverable'
  BY <1>4, SameNewest DEF Claim, HandOut, Deliverable, Finished, TypeOK
<1>5. ASSUME NEW w \in Workers, List(w) PROVE NewestIsDeliverable'
  BY Zenon, <1>5, SameNewest DEF List, Deliverable, Finished, TypeOK
<1>6. ASSUME NEW w \in Workers, ClaimNone(w) \/ XClaimNone(w) \/ ReadNone(w)
      PROVE  NewestIsDeliverable'
  BY Zenon, <1>6, SameNewest DEF ClaimNone, XClaimNone, ReadNone, Deliverable, Finished, TypeOK
<1>7. ASSUME NEW w \in Workers, XClaim(w) PROVE NewestIsDeliverable'
  BY Zenon, <1>7, SameNewest DEF XClaim, HandOut, Deliverable, Finished, TypeOK
<1>8. ASSUME NEW w \in Workers, Count(w) PROVE NewestIsDeliverable'
  BY Zenon, <1>8, SameNewest DEF Count, Lease, Deliverable, Finished, TypeOK
<1>9. ASSUME NEW w \in Workers, Read(w) PROVE NewestIsDeliverable'
  <2>1. UNCHANGED <<task, newest>> /\ Finished' = Finished
    BY Zenon, <1>9 DEF Read, Finished
  <2>2. \A f \in Deliverable : f \in Deliverable'
    BY Zenon, <1>9 DEF Read, HandOut, Deliverable
  <2>3. \A v \in Workers : pc'[v] = "ack" => pc[v] = "ack" /\ entry'[v] = entry[v]
    BY Zenon, <1>9 DEF Read, Lease, TypeOK
  <2> QED
    BY Zenon, <2>1, <2>2, <2>3, SameNewest
<1>10. ASSUME NEW w \in Workers, AckMalformed(w) PROVE NewestIsDeliverable'
  <2>1. entry[w] \in Entry /\ task[entry[w]] \in Tasks /\ task[entry[w]] \in Malformed
    BY Zenon, <1>10 DEF AckMalformed, EntriesInUse, Decoded
  <2> QED
    BY Zenon, <1>10, <2>1, AckNewest DEF AckMalformed, Reset
<1>11. ASSUME NEW w \in Workers, NEW o \in Outcome, Handle(w, o) PROVE NewestIsDeliverable'
  <2>1. UNCHANGED <<task, newest, entry, Deliverable>> /\ Finished \subseteq Finished'
    BY Zenon, <1>11 DEF Handle, Deliverable, Finished
  <2>2. pc'[w] = "ack" => task[entry[w]] \in Finished'
    BY Zenon, <1>11 DEF Handle, Finished, TypeOK
  <2>3. \A v \in Workers : v # w => pc'[v] = pc[v]
    BY Zenon, <1>11 DEF Handle, TypeOK
  <2> QED
    BY Zenon, <2>1, <2>2, <2>3 DEF NewestIsDeliverable
<1>12. ASSUME NEW w \in Workers, NEW d \in BOOLEAN, RetryAdd(w, d) PROVE NewestIsDeliverable'
  <2>1. entry[w] \in Entry /\ entry[w] < next /\ task[entry[w]] \in Tasks /\ attempt[w] \in Nat
    BY Zenon, <1>12 DEF RetryAdd, EntriesInUse, TypeOK
  <2>2. Add(task[entry[w]], attempt[w], d) /\ UNCHANGED <<pending, handled, dead, entry>>
    BY Zenon, <1>12 DEF RetryAdd
  <2>3. \A v \in Workers : v # w => pc'[v] = pc[v]
    BY Zenon, <1>12 DEF RetryAdd, TypeOK
  <2>a. newest'[task[entry[w]]] = next /\ task'[entry[w]] = task[entry[w]]
    <3>1. newest'[task[entry[w]]] = next /\ \A e \in Entry : e < next => task'[e] = task[e]
      BY Zenon, <2>1, <2>2, AddTask
    <3> QED
      BY Zenon, <2>1, <3>1
  <2>4. newest'[task'[entry[w]]] = next
    BY Zenon, <2>a
  <2>5. next > entry[w]
    BY Zenon, <2>1, RedisAssumption DEF Entry, TypeOK
  <2> QED
    BY Zenon, <2>1, <2>2, <2>3, <2>4, <2>5, AddNewest DEF NewestIsDeliverable
<1>13. ASSUME NEW w \in Workers, DeadAdd(w) PROVE NewestIsDeliverable'
  <2>1. UNCHANGED <<task, newest, entry, Deliverable>> /\ Finished \subseteq Finished'
    BY Zenon, <1>13 DEF DeadAdd, Deliverable, Finished
  <2>2. task[entry[w]] \in Finished'
    BY Zenon, <1>13 DEF DeadAdd, Finished
  <2>3. \A v \in Workers : v # w => pc'[v] = pc[v]
    BY Zenon, <1>13 DEF DeadAdd, TypeOK
  <2> QED
    BY Zenon, <2>1, <2>2, <2>3 DEF NewestIsDeliverable
<1>14. ASSUME NEW w \in Workers, Ack(w) PROVE NewestIsDeliverable'
  <2>1. entry[w] \in Entry /\ task[entry[w]] \in Tasks
    BY Zenon, <1>14 DEF Ack, EntriesInUse
  <2>2. task[entry[w]] \in Finished \/ newest[task[entry[w]]] > entry[w]
    BY Zenon, <1>14 DEF Ack, NewestIsDeliverable
  <2> QED
    BY Zenon, <1>14, <2>1, <2>2, AckNewest DEF Ack, Reset
<1>15. ASSUME NEW w \in Workers, Crash(w) PROVE NewestIsDeliverable'
  BY Zenon, <1>15, SameNewest DEF Crash, Reset, Deliverable, Finished, TypeOK
<1>16. CASE UNCHANGED vars
  BY Zenon, <1>16, SameNewest DEF vars, Deliverable, Finished
<1> QED
  BY Zenon, <1>1, <1>2, <1>3, <1>4, <1>5, <1>6, <1>7, <1>8, <1>9, <1>10, <1>11, <1>12, <1>13,
     <1>14, <1>15, <1>16 DEF Next, ReceiveStep, SettleStep

-----------------------------------------------------------------------------
\* IInv is inductive.
LEMMA IInvStep == IInv /\ [Next]_vars => IInv'
  BY Zenon, TypeStep, EntriesStep, DecodedStep, NewestStep DEF IInv

\* IInv is an invariant of the adapter.
LEMMA IInvHolds == Spec => []IInv
  BY InitIInv, IInvStep, PTL DEF Spec

\* Every value the consumer, the group and the lease code assign has its type.
THEOREM TypeCorrect == Spec => []TypeOK
<1>1. IInv => TypeOK
  BY Zenon DEF IInv
<1> QED
  BY <1>1, IInvHolds, PTL

\* The newest entry of an unfinished task can be delivered, and only entries
\* that are superseded or finished are about to be acknowledged
\* (receiveForConsumer, lease.Retry, lease.DeadLetter, lease.Ack).
THEOREM NewestDeliverable == Spec => []NewestIsDeliverable
<1>1. IInv => NewestIsDeliverable
  BY Zenon DEF IInv
<1> QED
  BY <1>1, IInvHolds, PTL

\* No crash and no interleaving of claims, retries and acknowledgements
\* leaves an accepted, unfinished task without an entry to deliver.
THEOREM NothingLost == Spec => []NoTaskLost
<1>1. IInv => NoTaskLost
  BY Zenon DEF IInv, EntriesInUse, NewestIsDeliverable, NoTaskLost
<1> QED
  BY <1>1, IInvHolds, PTL

-----------------------------------------------------------------------------
(* The attempt a handler sees *)

\* Redis handed the task of an entry out at least as often as the entry's base
\* attempt and its delivery count say, and at least once since a claim.
Counted ==
    /\ \A e \in Entry : e < next => base[e] + count[e] <= handouts[task[e]]
    /\ \A e \in Entry : ~(e < next) => count[e] = 0
    /\ \A w \in Workers : pc[w] = "count" => count[entry[w]] # 0

\* One more delivery is one more hand-out.
LEMMA OneMore ==
    ASSUME NEW b \in Nat, NEW c \in Nat, NEW h \in Nat, b + c <= h
    PROVE  b + 1 <= h + 1 /\ c + 1 # 0 /\ b + (c + 1) <= h + 1
  OBVIOUS

\* A counter that is kept or incremented does not go down.
LEMMA Growing == \A n \in Nat : n <= n /\ n <= n + 1
  OBVIOUS

\* A sum stays within a bound that grows.
LEMMA Through ==
    ASSUME NEW b \in Nat, NEW c \in Nat, NEW h \in Nat, NEW k \in Nat, b + c <= h, h <= k
    PROVE  b + c <= k
  OBVIOUS

\* A base attempt below the hand-outs bounds a count of 0.
LEMMA NoneYet ==
    ASSUME NEW b \in Nat, NEW h \in Nat, b + 1 <= h
    PROVE  b + 0 <= h
  OBVIOUS

\* Handing an entry out keeps the counts in step, and never lowers one.
LEMMA HandOutCounted ==
    ASSUME TypeOK, EntriesInUse, Counted, NEW e \in Entry, e < next, HandOut(e),
           UNCHANGED <<next, base, task>>
    PROVE  /\ \A f \in Entry : f < next' => base'[f] + count'[f] <= handouts'[task'[f]]
           /\ \A f \in Entry : ~(f < next') => count'[f] = 0
           /\ \A f \in Entry : count[f] # 0 => count'[f] # 0
           /\ count'[e] # 0
           /\ \A t \in Tasks : handouts[t] <= handouts'[t]
           /\ base[e] + 1 <= handouts'[task[e]]
<1>1. task[e] \in Tasks /\ base[e] \in Nat /\ count[e] \in Nat /\ handouts[task[e]] \in Nat
      /\ base[e] + count[e] <= handouts[task[e]]
  BY Zenon DEF TypeOK, EntriesInUse, Counted
<1>2. /\ count'[e] = count[e] + 1
      /\ \A f \in Entry : f # e => count'[f] = count[f]
      /\ handouts'[task[e]] = handouts[task[e]] + 1
      /\ \A t \in Tasks : t # task[e] => handouts'[t] = handouts[t]
  BY Zenon, <1>1 DEF HandOut, TypeOK
<1>a. \A t \in Tasks : handouts[t] \in Nat
  BY Zenon DEF TypeOK
<1>3. \A t \in Tasks : handouts[t] \in Nat /\ handouts[t] <= handouts'[t]
  <2> SUFFICES ASSUME NEW t \in Tasks PROVE handouts[t] <= handouts'[t]
    BY Zenon, <1>a
  <2>1. handouts[t] \in Nat
    BY Zenon, <1>a
  <2>2. CASE t = task[e]
    BY Zenon, <1>2, <2>1, <2>2, Growing
  <2>3. CASE t # task[e]
    BY Zenon, <1>2, <2>1, <2>3, Growing
  <2> QED
    BY Zenon, <2>2, <2>3
<1>4. base[e] + 1 <= handouts'[task[e]] /\ count'[e] # 0
      /\ base[e] + count'[e] <= handouts'[task[e]]
  BY <1>1, <1>2, OneMore
<1>5. ASSUME NEW f \in Entry, f < next, f # e PROVE base[f] + count'[f] <= handouts'[task[f]]
  <2>1. base[f] \in Nat /\ count[f] \in Nat /\ task[f] \in Tasks
        /\ base[f] + count[f] <= handouts[task[f]]
    BY Zenon, <1>5 DEF TypeOK, EntriesInUse, Counted
  <2>a. handouts'[task[f]] \in Nat
    BY Zenon, <2>1, HandOutType DEF EntriesInUse
  <2>2. handouts[task[f]] \in Nat /\ handouts'[task[f]] \in Nat
        /\ handouts[task[f]] <= handouts'[task[f]]
    BY Zenon, <1>3, <2>1, <2>a
  <2>3. count'[f] = count[f]
    BY Zenon, <1>2, <1>5
  <2>4. base[f] + count[f] <= handouts'[task[f]]
    BY Zenon, <2>1, <2>2, Through
  <2> QED
    BY Zenon, <2>3, <2>4
<1>6. \A f \in Entry : ~(f < next) => f # e
  BY Zenon
<1> QED
  BY Zenon, <1>2, <1>3, <1>4, <1>5, <1>6 DEF Counted

\* Adding an entry whose base attempt was reached keeps the counts in step.
LEMMA AddCounted ==
    ASSUME TypeOK, EntriesInUse, Counted, NEW t \in Tasks, NEW a \in Nat, NEW d \in BOOLEAN,
           Add(t, a, d), a <= handouts[t], UNCHANGED <<groupVars, handled>>
    PROVE  /\ \A f \in Entry : f < next' => base'[f] + count'[f] <= handouts'[task'[f]]
           /\ \A f \in Entry : ~(f < next') => count'[f] = 0
           /\ \A f \in Entry : f < next => task'[f] = task[f]
<1>b. next \in Entry /\ Entry \subseteq Int /\ next' = next + 1
  BY DEF Add, Entry
<1>d. base'[next] = a /\ \A f \in Entry : f # next => base'[f] = base[f]
  BY Zenon, <1>b DEF Add, TypeOK
<1>1. /\ next \in Entry /\ Entry \subseteq Int /\ next' = next + 1
      /\ ~(next < next) /\ base'[next] = a
      /\ \A f \in Entry : f # next => base'[f] = base[f]
  BY <1>b, <1>d
<1>a. count[next] = 0
  BY Zenon, <1>1 DEF Counted
<1>c. task'[next] = t /\ \A f \in Entry : f < next => task'[f] = task[f]
  BY Zenon, AddTask
<1>2. count[next] = 0 /\ task'[next] = t
      /\ \A f \in Entry : f < next => task'[f] = task[f]
  BY Zenon, <1>a, <1>c
<1>3. \A f \in Entry : f < next' => f < next \/ f = next
  BY <1>1
<1>4. \A f \in Entry : (f < next => f # next) /\ (~(f < next') => ~(f < next))
  BY <1>1
<1>5. a + 0 <= handouts[t]
  OBVIOUS
<1> QED
  BY Zenon, <1>1, <1>2, <1>3, <1>4, <1>5 DEF Counted, groupVars

\* A later entry is another entry.
LEMMA Later ==
    ASSUME NEW y \in Int, NEW x, x > y
    PROVE  x # y
  OBVIOUS

\* A bound may grow.
LEMMA WiderRange ==
    ASSUME NEW x, NEW h \in Nat, NEW k \in Nat, x \in 1..h, h <= k
    PROVE  x \in 1..k
  OBVIOUS

\* A count that was read as 0, because the entry was acknowledged meanwhile,
\* stands for at least one delivery.
LEMMA CountBounds ==
    ASSUME NEW b \in Nat, NEW n \in Nat, NEW h \in Nat, n # 0, b + n <= h,
           NEW c \in {0, n}
    PROVE  b + 1 <= h /\ b + c <= h
  OBVIOUS

\* The attempt computed from a base attempt and a count.
LEMMA AttemptBounds ==
    ASSUME NEW b \in Nat, NEW c \in Nat, NEW h \in Nat, b + 1 <= h, b + c <= h
    PROVE  AttemptWithDeliveryCount(b, c) \in 1..h
  BY RedisAssumption DEF AttemptWithDeliveryCount, AtMost

AttemptInv == Counted /\ AttemptNeverAhead

\* A step that leaves the counts alone and starts neither a handler nor a
\* count keeps the invariant.
LEMMA SameAttempt ==
    ASSUME AttemptInv, UNCHANGED <<next, base, task, count, handouts>>,
           \A w \in Workers : pc'[w] \in {"count", "handle", "settle"} =>
               pc'[w] = pc[w] /\ entry'[w] = entry[w] /\ attempt'[w] = attempt[w]
    PROVE  AttemptInv'
  BY Zenon DEF AttemptInv, Counted, AttemptNeverAhead

\* One worker gets an entry; the others keep theirs.
LEMMA HandOutAttempt ==
    ASSUME TypeOK, EntriesInUse, AttemptInv, NEW e \in Entry, e < next, HandOut(e),
           UNCHANGED <<next, base, task>>, NEW w \in Workers,
           \A v \in Workers : v # w =>
               pc'[v] = pc[v] /\ entry'[v] = entry[v] /\ attempt'[v] = attempt[v],
           entry'[w] = e,
           pc'[w] \in {"handle", "settle"} => attempt'[w] \in 1..(handouts'[task[e]])
    PROVE  AttemptInv'
<1>1. /\ \A f \in Entry : f < next' => base'[f] + count'[f] <= handouts'[task'[f]]
      /\ \A f \in Entry : ~(f < next') => count'[f] = 0
      /\ \A f \in Entry : count[f] # 0 => count'[f] # 0
      /\ count'[e] # 0
      /\ \A t \in Tasks : handouts[t] <= handouts'[t]
  BY Zenon, HandOutCounted DEF AttemptInv
<1>2. ASSUME NEW v \in Workers, v # w, pc'[v] = "count" PROVE count'[entry'[v]] # 0
  <2>1. entry[v] \in Entry /\ count[entry[v]] # 0
    BY Zenon, <1>2 DEF EntriesInUse, AttemptInv, Counted
  <2> QED
    BY Zenon, <1>1, <1>2, <2>1
<1>3. ASSUME NEW v \in Workers, v # w, pc'[v] \in {"handle", "settle"}
      PROVE  attempt'[v] \in 1..(handouts'[task'[entry'[v]]])
  <2>1. attempt[v] \in 1..(handouts[task[entry[v]]]) /\ task[entry[v]] \in Tasks
    BY Zenon, <1>3 DEF EntriesInUse, AttemptInv, AttemptNeverAhead
  <2>2. handouts[task[entry[v]]] \in Nat /\ handouts'[task[entry[v]]] \in Nat
    BY <2>1, HandOutType, e \in Entry, task[e] \in Tasks DEF TypeOK, EntriesInUse
  <2>3. handouts[task[entry[v]]] <= handouts'[task[entry[v]]]
    BY Zenon, <1>1, <2>1
  <2>4. attempt[v] \in 1..(handouts'[task[entry[v]]])
    BY Zenon, <2>1, <2>2, <2>3, WiderRange
  <2> QED
    BY Zenon, <1>3, <2>4
<1> QED
  BY Zenon, <1>1, <1>2, <1>3 DEF AttemptInv, Counted, AttemptNeverAhead

\* An entry is added; no worker starts a handler or a count.
LEMMA AddAttempt ==
    ASSUME TypeOK, EntriesInUse, AttemptInv, NEW t \in Tasks, NEW a \in Nat, NEW d \in BOOLEAN,
           Add(t, a, d), a <= handouts[t], UNCHANGED <<groupVars, handled, entry, attempt>>,
           \A w \in Workers : pc'[w] \in {"count", "handle", "settle"} => pc'[w] = pc[w]
    PROVE  AttemptInv'
<1>1. /\ \A f \in Entry : f < next' => base'[f] + count'[f] <= handouts'[task'[f]]
      /\ \A f \in Entry : ~(f < next') => count'[f] = 0
      /\ \A f \in Entry : f < next => task'[f] = task[f]
  BY Zenon, AddCounted DEF AttemptInv
<1>2. \A w \in Workers : pc'[w] = "count" => count'[entry'[w]] # 0
  BY Zenon DEF AttemptInv, Counted, groupVars
<1>3. ASSUME NEW w \in Workers, pc'[w] \in {"handle", "settle"}
      PROVE  attempt'[w] \in 1..(handouts'[task'[entry'[w]]])
  <2>1. pc[w] \in {"handle", "settle"} /\ UNCHANGED <<entry, attempt, handouts>>
    BY Zenon, <1>3 DEF groupVars
  <2>2. task'[entry[w]] = task[entry[w]]
    BY Zenon, <1>1, <2>1 DEF EntriesInUse
  <2>3. attempt[w] \in 1..(handouts[task[entry[w]]])
    BY Zenon, <2>1 DEF AttemptInv, AttemptNeverAhead
  <2> QED
    BY Zenon, <2>1, <2>2, <2>3
<1> QED
  BY Zenon, <1>1, <1>2, <1>3 DEF AttemptInv, Counted, AttemptNeverAhead

\* Every action keeps the attempts behind the number of hand-outs.
LEMMA AttemptStep == TypeOK /\ EntriesInUse /\ AttemptInv /\ [Next]_vars => AttemptInv'
<1> SUFFICES ASSUME TypeOK, EntriesInUse, AttemptInv, [Next]_vars PROVE AttemptInv'
  BY Zenon
<1> USE DEF entryVars, storeVars, groupVars, workVars, doneVars, Goto
<1>1. ASSUME NEW t \in Tasks, NEW d \in BOOLEAN, Enqueue(t, d) PROVE AttemptInv'
  <2>1. 0 <= handouts[t]
    BY DEF TypeOK
  <2>2. /\ Add(t, 0, d) /\ UNCHANGED <<groupVars, handled, entry, attempt>>
        /\ \A w \in Workers : pc'[w] \in {"count", "handle", "settle"} => pc'[w] = pc[w]
    BY Zenon, <1>1 DEF Enqueue
  <2> QED
    BY Zenon, <2>1, <2>2, AddAttempt
<1>2. ASSUME NEW e \in Entry, BecomeDue(e) \/ BecomeIdle(e) PROVE AttemptInv'
  BY Zenon, <1>2, SameAttempt DEF BecomeDue, BecomeIdle
<1>3. ASSUME NEW w \in Workers,
             Promote(w) \/ ClaimNone(w) \/ List(w) \/ XClaimNone(w) \/ ReadNone(w)
      PROVE  AttemptInv'
  BY Zenon, <1>3, SameAttempt DEF Promote, ClaimNone, List, XClaimNone, ReadNone, TypeOK
<1>4. ASSUME NEW w \in Workers, AckMalformed(w) \/ Ack(w) \/ Crash(w) PROVE AttemptInv'
  BY <1>4, SameAttempt DEF AckMalformed, Ack, Crash, Reset, TypeOK
<1>5. ASSUME NEW w \in Workers, DeadAdd(w) PROVE AttemptInv'
  BY Zenon, <1>5, SameAttempt DEF DeadAdd, TypeOK
<1>6. ASSUME NEW w \in Workers, Claim(w) PROVE AttemptInv'
  <2> PICK e \in idle : HandOut(e) /\ entry' = [entry EXCEPT ![w] = e]
    BY Zenon, <1>6 DEF Claim
  <2>1. e \in Entry /\ e < next
    BY Zenon DEF EntriesInUse, Deliverable, TypeOK
  <2>2. /\ UNCHANGED <<next, base, task>>
        /\ \A v \in Workers : v # w =>
              pc'[v] = pc[v] /\ entry'[v] = entry[v] /\ attempt'[v] = attempt[v]
        /\ pc'[w] = "count"
    BY Zenon, <1>6 DEF Claim, TypeOK
  <2>3. entry'[w] = e /\ HandOut(e)
    BY Zenon, <1>6 DEF Claim, TypeOK
  <2> QED
    BY Zenon, <2>1, <2>2, <2>3, HandOutAttempt
<1>7. ASSUME NEW w \in Workers, XClaim(w) PROVE AttemptInv'
  <2>1. entry[w] \in Entry /\ entry[w] < next
    BY Zenon, <1>7 DEF XClaim, EntriesInUse
  <2>2. /\ UNCHANGED <<next, base, task>>
        /\ \A v \in Workers : v # w =>
              pc'[v] = pc[v] /\ entry'[v] = entry[v] /\ attempt'[v] = attempt[v]
        /\ pc'[w] = "count"
    BY Zenon, <1>7 DEF XClaim, TypeOK
  <2>3. entry'[w] = entry[w] /\ HandOut(entry[w])
    BY Zenon, <1>7 DEF XClaim, TypeOK
  <2> QED
    BY Zenon, <2>1, <2>2, <2>3, HandOutAttempt
<1>8. ASSUME NEW w \in Workers, Count(w) PROVE AttemptInv'
  <2> DEFINE e == entry[w]
             c == IF e \in pending THEN count[e] ELSE 0
  <2>1. e \in Entry /\ e < next /\ task[e] \in Tasks /\ count[e] # 0
        /\ base[e] + count[e] <= handouts[task[e]]
    BY Zenon, <1>8 DEF Count, EntriesInUse, AttemptInv, Counted
  <2>2. base[e] \in Nat /\ count[e] \in Nat /\ handouts[task[e]] \in Nat /\ c \in Nat
    BY Zenon, <2>1 DEF TypeOK
  <2>a. c \in {0, count[e]}
    BY Zenon
  <2> HIDE DEF c
  <2>3. base[e] + 1 <= handouts[task[e]] /\ base[e] + c <= handouts[task[e]]
    BY Zenon, <2>1, <2>2, <2>a, CountBounds
  <2>4. AttemptWithDeliveryCount(base[e], c) \in 1..(handouts[task[e]])
    BY Zenon, <2>2, <2>3, AttemptBounds
  <2>5. /\ UNCHANGED <<next, base, task, count, handouts, entry>>
        /\ \A v \in Workers : v # w => pc'[v] = pc[v] /\ attempt'[v] = attempt[v]
        /\ pc'[w] = "handle" => attempt'[w] = AttemptWithDeliveryCount(base[e], c)
        /\ pc'[w] \in {"handle", "malformed"}
    BY Zenon, <1>8 DEF Count, Lease, TypeOK, c
  <2>6. Counted'
    BY Zenon, <2>5 DEF AttemptInv, Counted
  <2>b. ASSUME NEW v \in Workers, v # w, pc'[v] \in {"handle", "settle"}
        PROVE  attempt'[v] \in 1..(handouts'[task'[entry'[v]]])
    <3>1. attempt[v] \in 1..(handouts[task[entry[v]]])
      BY Zenon, <2>b, <2>5 DEF AttemptInv, AttemptNeverAhead
    <3> QED
      BY Zenon, <3>1, <2>b, <2>5
  <2>c. pc'[w] \in {"handle", "settle"} => attempt'[w] \in 1..(handouts'[task'[entry'[w]]])
    BY Zenon, <2>4, <2>5
  <2>7. AttemptNeverAhead'
    BY Zenon, <2>b, <2>c DEF AttemptNeverAhead
  <2> QED
    BY Zenon, <2>6, <2>7 DEF AttemptInv
<1>9. ASSUME NEW w \in Workers, Read(w) PROVE AttemptInv'
  <2> PICK e \in unread : /\ HandOut(e)
                          /\ entry' = [entry EXCEPT ![w] = e]
                          /\ Lease(w, e, 0)
    BY Zenon, <1>9 DEF Read
  <2>1. e \in Entry /\ e < next /\ task[e] \in Tasks /\ base[e] \in Nat
    BY Zenon DEF EntriesInUse, Deliverable, TypeOK
  <2>a. UNCHANGED <<next, base, task>>
    BY Zenon, <1>9 DEF Read
  <2>b. Counted
    BY Zenon DEF AttemptInv
  <2>2. base[e] + 1 <= handouts'[task[e]]
    BY Zenon, <2>1, <2>a, <2>b, HandOutCounted
  <2>3. handouts'[task[e]] \in Nat
    BY Zenon, <2>1, HandOutType
  <2>4. base[e] + 0 <= handouts'[task[e]]
    BY Zenon, <2>1, <2>2, <2>3, NoneYet
  <2>5. AttemptWithDeliveryCount(base[e], 0) \in 1..(handouts'[task[e]])
    BY Zenon, <2>1, <2>2, <2>3, <2>4, AttemptBounds
  <2>6. /\ UNCHANGED <<next, base, task>>
        /\ \A v \in Workers : v # w =>
              pc'[v] = pc[v] /\ entry'[v] = entry[v] /\ attempt'[v] = attempt[v]
        /\ entry'[w] = e
        /\ pc'[w] \in {"handle", "settle"} => attempt'[w] = AttemptWithDeliveryCount(base[e], 0)
    BY <1>9 DEF Read, Lease, TypeOK
  <2> QED
    BY Zenon, <2>1, <2>5, <2>6, HandOutAttempt
<1>10. ASSUME NEW w \in Workers, NEW o \in Outcome, Handle(w, o) PROVE AttemptInv'
  <2>1. /\ UNCHANGED <<next, base, task, count, handouts, entry, attempt>>
        /\ \A v \in Workers : v # w => pc'[v] = pc[v]
        /\ pc[w] = "handle" /\ pc'[w] # "count"
    BY Zenon, <1>10 DEF Handle, TypeOK
  <2> QED
    BY Zenon, <2>1 DEF AttemptInv, Counted, AttemptNeverAhead
<1>11. ASSUME NEW w \in Workers, NEW d \in BOOLEAN, RetryAdd(w, d) PROVE AttemptInv'
  <2>1. task[entry[w]] \in Tasks /\ attempt[w] \in Nat /\ handouts[task[entry[w]]] \in Nat
    BY Zenon, <1>11 DEF RetryAdd, EntriesInUse, TypeOK
  <2>a. attempt[w] \in 1..(handouts[task[entry[w]]])
    BY Zenon, <1>11 DEF RetryAdd, AttemptInv, AttemptNeverAhead
  <2>2. attempt[w] <= handouts[task[entry[w]]]
    BY <2>1, <2>a
  <2>3. \A v \in Workers : pc'[v] \in {"count", "handle", "settle"} => pc'[v] = pc[v]
    BY Zenon, <1>11 DEF RetryAdd, TypeOK
  <2> QED
    BY Zenon, <1>11, <2>1, <2>2, <2>3, AddAttempt DEF RetryAdd
<1>12. CASE UNCHANGED vars
  BY Zenon, <1>12, SameAttempt DEF vars
<1> QED
  BY Zenon, <1>1, <1>2, <1>3, <1>4, <1>5, <1>6, <1>7, <1>8, <1>9, <1>10, <1>11, <1>12
  DEF Next, ReceiveStep, SettleStep

\* The attempt a handler sees, computed from the entry's base attempt and a
\* delivery count read in a command of its own, is at least 1 and never ahead
\* of the number of times Redis handed the task out: no task is dead-lettered
\* as exhausted early (attemptWithDeliveryCount, deliveryCount, Retry).
THEOREM AttemptsNeverAhead == Spec => []AttemptNeverAhead
<1>1. Init => AttemptInv
  <2> SUFFICES ASSUME Init PROVE AttemptInv
    BY Zenon
  <2>1. \A e \in Entry : ~(e < next) /\ count[e] = 0
    BY RedisAssumption DEF Init, Entry
  <2>2. \A w \in Workers : pc[w] = "idle"
    BY Zenon DEF Init
  <2> QED
    BY Zenon, <2>1, <2>2 DEF AttemptInv, Counted, AttemptNeverAhead
<1>2. IInv /\ AttemptInv /\ [Next]_vars => AttemptInv'
  BY Zenon, AttemptStep DEF IInv
<1>3. AttemptInv => AttemptNeverAhead
  BY Zenon DEF AttemptInv
<1> QED
  BY <1>1, <1>2, <1>3, IInvHolds, PTL DEF Spec

-----------------------------------------------------------------------------
(* RedisQueue implements AtLeastOnce *)

\* A step that keeps what is deliverable and what is finished is a stutter.
LEMMA Stutter ==
    ASSUME UNCHANGED task, Deliverable' = Deliverable, Finished' = Finished
    PROVE  Live' = Live /\ UNCHANGED ALO!vars
  BY Zenon DEF ALO!vars, Live

\* Adding an entry makes its task live.
LEMMA AddLive ==
    ASSUME TypeOK, EntriesInUse, NEW t \in Tasks, NEW a \in Nat, NEW d \in BOOLEAN,
           Add(t, a, d), UNCHANGED <<pending, handled>>
    PROVE  Live' = IF t \in Malformed THEN Live ELSE Live \cup {t}
<1>c. Deliverable' = Deliverable \cup {next}
  BY Zenon DEF Add, Deliverable
<1>d. task'[next] = t /\ \A e \in Entry : e < next => task'[e] = task[e]
  BY Zenon, AddTask
<1>a. /\ Deliverable' = Deliverable \cup {next} /\ task'[next] = t
      /\ \A e \in Entry : e < next => task'[e] = task[e]
  BY Zenon, <1>c, <1>d
<1>b. \A e \in Deliverable : e \in Entry /\ e < next
  BY Zenon DEF EntriesInUse, Deliverable, TypeOK
<1>1. /\ Deliverable' = Deliverable \cup {next} /\ task'[next] = t
      /\ \A e \in Deliverable : task'[e] = task[e]
  BY Zenon, <1>a, <1>b
<1> QED
  BY Zenon, <1>1 DEF Live

\* Acknowledging an entry takes at most its own task out of the live ones, and
\* no task with another deliverable entry.
LEMMA RemoveLive ==
    ASSUME NEW e \in Entry, UNCHANGED <<task, delayed, unread>>, pending' = pending \ {e}
    PROVE  /\ Live' = Live \/ Live' = Live \ {task[e]}
           /\ (\E f \in Deliverable : f # e /\ task[f] = task[e]) => Live' = Live
           /\ task[e] \in Malformed => Live' = Live
<1>1. Deliverable' \subseteq Deliverable /\ \A f \in Deliverable : f # e => f \in Deliverable'
  BY Zenon DEF Deliverable
<1>2. Live' \subseteq Live /\ \A t \in Live : t # task[e] => t \in Live'
  BY Zenon, <1>1 DEF Live
<1>3. (\E f \in Deliverable : f # e /\ task[f] = task[e]) => Live' = Live
  BY Zenon, <1>1, <1>2 DEF Live
<1>4. task[e] \in Malformed => Live' = Live
  BY <1>2 DEF Live
<1>5. Live' = Live \/ Live' = Live \ {task[e]}
  BY Zenon, <1>2
<1> QED
  BY Zenon, <1>3, <1>4, <1>5

\* Every step of the adapter is a step of the promise, or no step at all.
LEMMA RefinementStep == IInv /\ [Next]_vars => [ALO!Next]_(ALO!vars)
<1> SUFFICES ASSUME TypeOK, EntriesInUse, Decoded, NewestIsDeliverable, [Next]_vars
             PROVE  [ALO!Next]_(ALO!vars)
  BY Zenon DEF IInv
<1> USE DEF entryVars, storeVars, groupVars, workVars, doneVars
<1>1. ASSUME NEW t \in Tasks, NEW d \in BOOLEAN, Enqueue(t, d) PROVE [ALO!Next]_(ALO!vars)
  <2>1. Add(t, 0, d) /\ UNCHANGED <<pending, handled, dead>> /\ newest[t] = 0
    BY Zenon, <1>1 DEF Enqueue
  <2>2. Live' = IF t \in Malformed THEN Live ELSE Live \cup {t}
    BY <2>1, AddLive
  <2>3. Finished' = Finished /\ t \notin Finished
    BY Zenon, <2>1 DEF Finished, EntriesInUse
  <2> QED
    BY Zenon, <2>2, <2>3 DEF ALO!Next, ALO!Accept, ALO!vars
<1>2. ASSUME NEW e \in Entry, BecomeDue(e) \/ BecomeIdle(e) PROVE [ALO!Next]_(ALO!vars)
  BY Zenon, <1>2, Stutter DEF BecomeDue, BecomeIdle, Deliverable, Finished
<1>3. ASSUME NEW w \in Workers, Promote(w) PROVE [ALO!Next]_(ALO!vars)
  <2>1. UNCHANGED task /\ Deliverable' = Deliverable /\ Finished' = Finished
    BY Zenon, <1>3 DEF Promote, Deliverable, Finished, TypeOK
  <2> QED
    BY Zenon, <2>1, Stutter
<1>4. ASSUME NEW w \in Workers, Claim(w) \/ XClaim(w) PROVE [ALO!Next]_(ALO!vars)
  <2>a. PICK e \in pending : HandOut(e)
    BY Zenon, <1>4 DEF Claim, XClaim, TypeOK
  <2>b. pending' = pending
    BY Zenon, <2>a DEF HandOut
  <2>1. UNCHANGED task /\ Deliverable' = Deliverable /\ Finished' = Finished
    BY Zenon, <1>4, <2>b DEF Claim, XClaim, Deliverable, Finished
  <2> QED
    BY Zenon, <2>1, Stutter
<1>5. ASSUME NEW w \in Workers,
             ClaimNone(w) \/ List(w) \/ XClaimNone(w) \/ Count(w) \/ ReadNone(w) \/ Crash(w)
      PROVE  [ALO!Next]_(ALO!vars)
  BY Zenon, <1>5, Stutter
  DEF ClaimNone, List, XClaimNone, Count, ReadNone, Crash, Deliverable, Finished
<1>6. ASSUME NEW w \in Workers, Read(w) PROVE [ALO!Next]_(ALO!vars)
  <2>a. PICK e \in unread : unread' = unread \ {e} /\ pending' = pending \cup {e}
    BY Zenon, <1>6 DEF Read, HandOut
  <2>1. UNCHANGED task /\ Deliverable' = Deliverable /\ Finished' = Finished
    BY Zenon, <1>6, <2>a DEF Read, Deliverable, Finished
  <2> QED
    BY Zenon, <2>1, Stutter
<1>7. ASSUME NEW w \in Workers, AckMalformed(w) PROVE [ALO!Next]_(ALO!vars)
  <2>1. entry[w] \in Entry /\ task[entry[w]] \in Malformed
    BY Zenon, <1>7 DEF AckMalformed, EntriesInUse, Decoded
  <2>2. Live' = Live /\ Finished' = Finished
    BY Zenon, <1>7, <2>1, RemoveLive DEF AckMalformed, Finished
  <2> QED
    BY Zenon, <2>2 DEF ALO!vars
<1>8. ASSUME NEW w \in Workers, pc[w] \in {"handle", "settle"}
      PROVE  task[entry[w]] \in Tasks \ Malformed /\ task[entry[w]] \in Live \cup Finished
  <2>1. task[entry[w]] \in Tasks \ Malformed /\ newest[task[entry[w]]] # 0
    BY Zenon, <1>8 DEF EntriesInUse, Decoded
  <2> QED
    BY Zenon, <2>1 DEF EntriesInUse, NewestIsDeliverable, Live
<1>9. ASSUME NEW w \in Workers, NEW o \in Outcome, Handle(w, o) PROVE [ALO!Next]_(ALO!vars)
  <2>1. Live' = Live /\ (Finished' = Finished \/ Finished' = Finished \cup {task[entry[w]]})
    BY Zenon, <1>9 DEF Handle, Live, Deliverable, Finished
  <2>2. task[entry[w]] \in Tasks \ Malformed /\ task[entry[w]] \in Live \cup Finished
    BY Zenon, <1>8, <1>9 DEF Handle
  <2> QED
    BY Zenon, <2>1, <2>2 DEF ALO!Next, ALO!Finish, ALO!vars
<1>10. ASSUME NEW w \in Workers, NEW d \in BOOLEAN, RetryAdd(w, d) PROVE [ALO!Next]_(ALO!vars)
  <2>1. task[entry[w]] \in Tasks \ Malformed
    BY Zenon, <1>8, <1>10 DEF RetryAdd
  <2>2. Live' = Live \cup {task[entry[w]]} /\ Finished' = Finished
    <3>1. Add(task[entry[w]], attempt[w], d) /\ UNCHANGED <<pending, handled, dead>>
          /\ attempt[w] \in Nat
      BY Zenon, <1>10 DEF RetryAdd, TypeOK
    <3> QED
      BY Zenon, <2>1, <3>1, AddLive DEF Finished
  <2> QED
    BY Zenon, <2>1, <2>2 DEF ALO!Next, ALO!Accept, ALO!Revive, ALO!vars
<1>11. ASSUME NEW w \in Workers, DeadAdd(w) PROVE [ALO!Next]_(ALO!vars)
  <2>1. Live' = Live /\ Finished' = Finished \cup {task[entry[w]]}
    BY Zenon, <1>11 DEF DeadAdd, Live, Deliverable, Finished
  <2>2. task[entry[w]] \in Tasks \ Malformed /\ task[entry[w]] \in Live \cup Finished
    BY Zenon, <1>8, <1>11 DEF DeadAdd
  <2> QED
    BY Zenon, <2>1, <2>2 DEF ALO!Next, ALO!Finish, ALO!vars
<1>12. ASSUME NEW w \in Workers, Ack(w) PROVE [ALO!Next]_(ALO!vars)
  <2> DEFINE t == task[entry[w]]
  <2>1. entry[w] \in Entry /\ t \in Tasks \ Malformed /\ newest[t] # 0
    BY Zenon, <1>12 DEF Ack, EntriesInUse, Decoded
  <2>2. UNCHANGED <<task, delayed, unread>> /\ pending' = pending \ {entry[w]}
        /\ Finished' = Finished
    BY Zenon, <1>12 DEF Ack, Finished
  <2>3. CASE t \in Finished
    <3>1. Live' = Live \/ Live' = Live \ {t}
      BY Zenon, <2>1, <2>2, RemoveLive
    <3> QED
      BY Zenon, <2>1, <2>2, <2>3, <3>1 DEF ALO!Next, ALO!Forget, ALO!vars
  <2>4. CASE t \notin Finished
    <3>1. newest[t] > entry[w] /\ newest[t] \in Deliverable /\ task[newest[t]] = t
      BY Zenon, <1>12, <2>1, <2>4 DEF Ack, NewestIsDeliverable, EntriesInUse
    <3>a. entry[w] \in Int
      BY <2>1, RedisAssumption DEF Entry
    <3>2. newest[t] # entry[w]
      BY Zenon, <3>a, <3>1, Later
    <3>3. Live' = Live
      BY Zenon, <2>1, <2>2, <3>1, <3>2, RemoveLive
    <3> QED
      BY Zenon, <2>2, <3>3 DEF ALO!vars
  <2> QED
    BY Zenon, <2>3, <2>4
<1>13. CASE UNCHANGED vars
  BY Zenon, <1>13, Stutter DEF vars, Deliverable, Finished
<1> QED
  BY Zenon, <1>1, <1>2, <1>3, <1>4, <1>5, <1>6, <1>7, <1>9, <1>10, <1>11, <1>12, <1>13
  DEF Next, ReceiveStep, SettleStep

\* The adapter implements the at-least-once promise: an accepted task stays
\* deliverable until its handler succeeded, discarded it or it was
\* dead-lettered.
THEOREM Implements == Spec => AtLeastOnceDelivery
<1>1. Init => ALO!Init
  BY Zenon DEF Init, ALO!Init, Live, Deliverable, Finished
<1> QED
  BY <1>1, IInvHolds, RefinementStep, PTL DEF Spec, AtLeastOnceDelivery, ALO!Spec

=============================================================================
