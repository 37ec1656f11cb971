------------------------- MODULE MemoryQueueProofs -------------------------
(***************************************************************************)
(* Proofs about MemoryQueue, for any number of tasks and consumers, any    *)
(* delays and any bounds.                                                  *)
(*                                                                         *)
(* OnePlace and AttemptCountsDeliveries need each other's strengthening:   *)
(* the attempt of a waiting task stays its number of deliveries only       *)
(* because no other consumer can hold the same task (Distinct, Disjoint),  *)
(* and a new task starts at 0 only because a task the queue does not know  *)
(* was never delivered (DeliveredIsKnown).  NoLostWakeup speaks of the     *)
(* sleep alone; SleepIsBounded starts at the look at the list, before the  *)
(* timer is armed.                                                         *)
(***************************************************************************)
EXTENDS MemoryQueue, FiniteSetTheorems, WellFoundedInduction, TLAPS

\* A non-empty set of natural numbers has a least element, which Min returns.
LEMMA MinNat ==
    ASSUME NEW S, S \subseteq Nat, S # {}
    PROVE  Min(S) \in S /\ \A y \in S : Min(S) <= y
<1>1. PICK x \in S : \A y \in S : ~(<<y, x>> \in OpToRel(<, Nat))
  BY Zenon, NatLessThanWellFounded, WFMin
<1>2. \A y \in S : x <= y
  <2> TAKE y \in S
  <2>1. x \in Nat /\ y \in Nat
    BY Zenon
  <2>2. ~(y < x)
    BY Zenon, <1>1, <2>1 DEF OpToRel
  <2> QED
    BY <2>1, <2>2
<1> QED
  BY Zenon, <1>2 DEF Min

\* RemoveAt shifts what is behind the removed position and keeps the rest.
LEMMA RemoveAtElements ==
    ASSUME NEW S, NEW s \in Seq(S), NEW i \in DOMAIN s
    PROVE  /\ RemoveAt(s, i) \in Seq(S)
           /\ DOMAIN RemoveAt(s, i) = 1..(Len(s) - 1)
           /\ \A j \in 1..(Len(s) - 1) :
                RemoveAt(s, i)[j] = IF j < i THEN s[j] ELSE s[j + 1]
<1> DEFINE a == SubSeq(s, 1, i - 1)
           b == SubSeq(s, i + 1, Len(s))
<1>1. i \in 1..Len(s) /\ Len(s) \in Nat
  OBVIOUS
<1>2. a \in Seq(S) /\ Len(a) = i - 1 /\ \A j \in 1..(i - 1) : a[j] = s[j]
  BY <1>1
<1>3. b \in Seq(S) /\ Len(b) = Len(s) - i /\ \A j \in 1..(Len(s) - i) : b[j] = s[i + j]
  BY <1>1
<1> HIDE DEF a, b
<1>4. /\ a \o b \in Seq(S)
      /\ Len(a \o b) = Len(s) - 1
      /\ \A j \in 1..(Len(s) - 1) : (a \o b)[j] = IF j < i THEN s[j] ELSE s[j + 1]
  BY <1>1, <1>2, <1>3
<1>5. RemoveAt(s, i) = a \o b
  BY Zenon DEF RemoveAt, a, b
<1> QED
  BY <1>4, <1>5

-----------------------------------------------------------------------------
(* The inductive invariant *)

\* The clock a consumer read is not ahead of the clock.
NowIsPast == \A c \in Consumers : now[c] <= clock

\* The tasks in a list, and in hands; none is there twice.
Ids(list) == {list[i].id : i \in DOMAIN list}
Once(list) == \A i, j \in DOMAIN list : list[i].id = list[j].id => i = j
HandIds(h) == {h[c].id : c \in {k \in Consumers : h[k] # NoTask}}
HandOnce(h) ==
    \A c, k \in Consumers : h[c] # NoTask /\ h[k] # NoTask /\ h[c].id = h[k].id => c = k

Waiting == Ids(ready)
Buried == Ids(dead)
InHand == HandIds(held)

\* No list holds a task twice, no two consumers hold the same one, and a
\* consumer that is in Receive holds none.
Distinct ==
    /\ Once(ready) /\ Once(dead) /\ HandOnce(held)
    /\ \A c \in Consumers : recvPc[c] # "idle" => held[c] = NoTask

\* No task is in two of the places a task can be in.
Disjoint ==
    /\ Waiting \cap (Buried \cup InHand \cup acked \cup lost) = {}
    /\ Buried \cap (InHand \cup acked \cup lost) = {}
    /\ InHand \cap (acked \cup lost) = {}
    /\ acked \cap lost = {}

DeliveredIsKnown == \A t \in Tasks : delivered[t] > 0 => t \in Known

\* From the look at the list to the end of the sleep, a consumer that was not
\* notified since knows a time before which no waiting task is due.
SleepIsBounded ==
    \A c \in Consumers : ~notified[c] => \A i \in DOMAIN ready :
        /\ recvPc[c] \in {"arm", "wait"} => wait[c] > 0 /\ now[c] + wait[c] <= ready[i].at
        /\ recvPc[c] = "wait" => timer[c] # 0 /\ timer[c] - wait[c] >= now[c]

IInv ==
    /\ TypeOK /\ NowIsPast /\ NeverEarly /\ Distinct /\ Disjoint /\ DeliveredIsKnown
    /\ AttemptCountsDeliveries /\ SleepIsBounded

\* The inductive invariant holds of an empty queue.
LEMMA InitIInv == MemInit => IInv
<1> SUFFICES ASSUME MemInit PROVE IInv
  BY Zenon
<1> USE DEF MemInit
<1>1. TypeOK
  BY DEF TypeOK
<1>2. Waiting = {} /\ Buried = {} /\ InHand = {}
  BY DEF Waiting, Buried, InHand, Ids, HandIds
<1>3. Disjoint /\ Distinct
  BY <1>2 DEF Disjoint, Distinct, Once, HandOnce
<1> QED
  BY <1>1, <1>3 DEF IInv, NowIsPast, NeverEarly, DeliveredIsKnown, AttemptCountsDeliveries,
                    SleepIsBounded

-----------------------------------------------------------------------------
(* The steps *)

\* What TakeDue hands out is a waiting task that is due.
LEMMA TakenIsDue ==
    ASSUME TypeOK, NEW c \in Consumers, TakeDue(c)
    PROVE  \E i \in DOMAIN ready :
             /\ ready[i].at <= now[c]
             /\ ready' = RemoveAt(ready, i)
             /\ held' = [held EXCEPT ![c] = [ready[i] EXCEPT !.attempt = @ + 1]]
             /\ delivered' = [delivered EXCEPT ![ready[i].id] = @ + 1]
<1> DEFINE i == Min(Due(c))
<1>1. Due(c) \subseteq Nat /\ Due(c) # {}
  BY DEF TakeDue, Due, TypeOK
<1>2. i \in Due(c)
  BY Zenon, <1>1, MinNat
<1>3. /\ ready' = RemoveAt(ready, i)
      /\ held' = [held EXCEPT ![c] = [ready[i] EXCEPT !.attempt = @ + 1]]
      /\ delivered' = [delivered EXCEPT ![[ready[i] EXCEPT !.attempt = @ + 1].id] = @ + 1]
  BY Zenon DEF TakeDue
<1> HIDE DEF i
<1>4. i \in DOMAIN ready /\ ready[i].at <= now[c]
  BY Zenon, <1>2 DEF Due
<1>5. ready[i] \in Envelope
  BY <1>4 DEF TypeOK
<1>6. [ready[i] EXCEPT !.attempt = @ + 1].id = ready[i].id
  BY Zenon, <1>5 DEF Envelope
<1> QED
  BY Zenon, <1>3, <1>4, <1>6

\* The wait FindNone computes is a time, positive while tasks wait, after
\* which the first of them is due.
LEMMA WaitOfNone ==
    ASSUME TypeOK, NEW c \in Consumers, FindNone(c)
    PROVE  /\ wait' \in [Consumers -> Nat]
           /\ \A i \in DOMAIN ready : wait'[c] > 0 /\ now[c] + wait'[c] <= ready[i].at
           /\ \A k \in Consumers \ {c} : wait'[k] = wait[k]
<1> DEFINE W == {ready[i].at - now[c] : i \in DOMAIN ready}
           w == IF ready = <<>> THEN 0 ELSE Min(W)
<1>1. wait' = [wait EXCEPT ![c] = w]
  BY Zenon DEF FindNone
<1>2. now[c] \in Nat /\ \A i \in DOMAIN ready : ready[i].at \in Nat /\ ready[i].at > now[c]
  <2> SUFFICES ASSUME NEW i \in DOMAIN ready PROVE ready[i].at \in Nat /\ ready[i].at > now[c]
    BY Zenon DEF TypeOK
  <2>1. ready[i] \in Envelope /\ now[c] \in Nat
    BY DEF TypeOK
  <2> QED
    BY <2>1 DEF FindNone, Due, Envelope
<1>3. W \subseteq Nat \ {0}
  BY <1>2
<1>4. CASE ready = <<>>
  BY <1>1, <1>4 DEF TypeOK
<1>5. CASE ready # <<>>
  <2>1. 1 \in DOMAIN ready
    BY <1>5 DEF TypeOK
  <2>2. W # {}
    BY Zenon, <2>1
  <2>3. Min(W) \in W /\ \A y \in W : Min(W) <= y
    BY Zenon, <1>3, <2>2, MinNat
  <2>4. w = Min(W)
    BY Zenon, <1>5
  <2> HIDE DEF W, w
  <2>5. w \in W /\ \A y \in W : w <= y
    BY <2>3, <2>4, Zenon
  <2>6. w \in Nat /\ w > 0 /\ \A y \in W : w <= y
    BY <1>3, <2>5
  <2>7. \A i \in DOMAIN ready : w <= ready[i].at - now[c]
    BY Zenon, <2>6 DEF W
  <2> QED
    BY <1>1, <1>2, <2>6, <2>7 DEF TypeOK
<1> QED
  BY Zenon, <1>4, <1>5

\* The steps that leave every task where it is.
Still ==
    /\ UNCHANGED <<ready, dead, held, delivered, acked, lost>>
    /\ clock' = clock \/ clock' = clock + 1

\* The steps that move a task.
Move ==
    \/ \E t \in Tasks, d \in Delays : Enqueue(t, d)
    \/ \E c \in Consumers :
         TakeDue(c) \/ Ack(c) \/ DeadLetter(c) \/ SettleError(c) \/ \E d \in Delays : Retry(c, d)

\* Every step is one or the other.
LEMMA StepIsStillOrMove == [Next]_memVars => Still \/ Move
<1> SUFFICES ASSUME [Next]_memVars PROVE Still \/ Move
  BY Zenon
<1> USE DEF queueVars, recvVars, memVars
<1>1. CASE Tick
  BY Zenon, <1>1 DEF Tick, Still
<1>2. CASE \E t \in Tasks, d \in Delays : clock + d <= MaxTime /\ Enqueue(t, d)
  BY Zenon, <1>2 DEF Move
<1>3. ASSUME NEW c \in Consumers, ReceiveStep(c) PROVE Still \/ Move
  BY Zenon, <1>3 DEF ReceiveStep, Receive, ReadNow, FindNone, Arm, Wake, Still, Move
<1>4. ASSUME NEW c \in Consumers, ReceiveError(c) \/ CancelCtx(c) \/ Close(c) PROVE Still
  BY Zenon, <1>4 DEF ReceiveError, CancelCtx, Close, Still
<1>5. ASSUME NEW c \in Consumers,
             Ack(c) \/ DeadLetter(c) \/ SettleError(c) \/ \E d \in Delays : Retry(c, d)
      PROVE  Move
  BY Zenon, <1>5 DEF Move
<1>6. CASE UNCHANGED memVars
  BY Zenon, <1>6 DEF Still
<1> QED
  BY Zenon, <1>1, <1>2, <1>3, <1>4, <1>5, <1>6 DEF Next

\* Every step keeps the types.
LEMMA TypeStep == TypeOK /\ [Next]_memVars => TypeOK'
<1> SUFFICES ASSUME TypeOK, [Next]_memVars PROVE TypeOK'
  BY Zenon
<1> USE DEF queueVars, recvVars, memVars
<1>1. CASE Tick
  BY <1>1 DEF Tick, TypeOK
<1>2. ASSUME NEW t \in Tasks, NEW d \in Delays, Enqueue(t, d) PROVE TypeOK'
  <2>1. [id |-> t, attempt |-> 0, at |-> clock + d] \in Envelope
    BY DelaysAssumption DEF TypeOK, Envelope
  <2>2. ready' \in Seq(Envelope)
    BY <1>2, <2>1 DEF Enqueue, Push, TypeOK
  <2> QED
    BY Zenon, <1>2, <2>2 DEF Enqueue, Push, TypeOK
<1>3. ASSUME NEW c \in Consumers, Receive(c) \/ ReadNow(c) \/ Arm(c) PROVE TypeOK'
  <2>1. CASE Receive(c)
    BY Zenon, <2>1 DEF Receive, TypeOK
  <2>2. CASE ReadNow(c)
    BY Zenon, <2>2 DEF ReadNow, TypeOK
  <2>3. CASE Arm(c)
    <3>1. timer' \in [Consumers -> Nat]
      BY <2>3 DEF Arm, TypeOK
    <3> QED
      BY Zenon, <2>3, <3>1 DEF Arm, TypeOK
  <2> QED
    BY Zenon, <1>3, <2>1, <2>2, <2>3
<1>4. ASSUME NEW c \in Consumers, Wake(c) \/ ReceiveError(c) PROVE TypeOK'
  <2>1. /\ recvPc' \in [Consumers -> {"idle", "now", "lock", "arm", "wait"}]
        /\ EndSelect(c)
        /\ UNCHANGED <<clock, queueVars, ctxDone, shut, held>>
    BY Zenon, <1>4 DEF Wake, ReceiveError, TypeOK
  <2> QED
    BY Zenon, <2>1 DEF EndSelect, TypeOK
<1>5. ASSUME NEW c \in Consumers, CancelCtx(c) \/ Close(c) PROVE TypeOK'
  BY Zenon, <1>5 DEF CancelCtx, Close, TypeOK
<1>6. ASSUME NEW c \in Consumers, FindNone(c) PROVE TypeOK'
  <2>1. wait' \in [Consumers -> Nat]
    BY Zenon, <1>6, WaitOfNone
  <2> QED
    BY Zenon, <1>6, <2>1 DEF FindNone, TypeOK
<1>7. ASSUME NEW c \in Consumers, TakeDue(c) PROVE TypeOK'
  <2> PICK i \in DOMAIN ready :
         /\ ready[i].at <= now[c]
         /\ ready' = RemoveAt(ready, i)
         /\ held' = [held EXCEPT ![c] = [ready[i] EXCEPT !.attempt = @ + 1]]
         /\ delivered' = [delivered EXCEPT ![ready[i].id] = @ + 1]
    BY Zenon, <1>7, TakenIsDue
  <2>1. ready' \in Seq(Envelope)
    BY Zenon, RemoveAtElements DEF TypeOK
  <2>2. ready[i] \in Envelope
    BY DEF TypeOK
  <2>3. [ready[i] EXCEPT !.attempt = @ + 1] \in Envelope /\ ready[i].id \in Tasks
    BY <2>2 DEF Envelope
  <2>4. held' \in [Consumers -> Envelope \cup {NoTask}]
    BY Zenon, <2>3 DEF TypeOK
  <2>5. delivered' \in [Tasks -> Nat]
    BY <2>3 DEF TypeOK
  <2> QED
    BY Zenon, <1>7, <2>1, <2>4, <2>5 DEF TakeDue, TypeOK
<1>8. ASSUME NEW c \in Consumers,
             Ack(c) \/ DeadLetter(c) \/ SettleError(c) \/ \E d \in Delays : Retry(c, d)
      PROVE  TypeOK'
  <2>1. held[c] \in Envelope /\ held[c].id \in Tasks
    BY Zenon, <1>8 DEF TypeOK, Ack, DeadLetter, SettleError, Retry, Settle, Envelope
  <2>2. held' \in [Consumers -> Envelope \cup {NoTask}]
    BY Zenon, <1>8 DEF TypeOK, Ack, DeadLetter, SettleError, Retry, Settle
  <2>3. CASE Ack(c) \/ SettleError(c)
    BY Zenon, <2>1, <2>2, <2>3 DEF Ack, SettleError, Settle, TypeOK
  <2>4. CASE DeadLetter(c)
    BY <2>1, <2>2, <2>4 DEF DeadLetter, Settle, TypeOK
  <2>5. ASSUME NEW d \in Delays, Retry(c, d) PROVE TypeOK'
    <3>0. clock + d \in Nat
      BY DelaysAssumption DEF TypeOK
    <3>1. [held[c] EXCEPT !.at = clock + d] \in Envelope
      BY Zenon, <2>1, <3>0 DEF Envelope
    <3>2. ready' \in Seq(Envelope)
      BY <2>5, <3>1 DEF Retry, Push, TypeOK
    <3> QED
      BY Zenon, <2>2, <2>5, <3>2 DEF Retry, Push, Settle, TypeOK
  <2> QED
    BY Zenon, <1>8, <2>3, <2>4, <2>5
<1>9. CASE UNCHANGED memVars
  BY Zenon, <1>9 DEF TypeOK
<1> QED
  BY Zenon, <1>1, <1>2, <1>3, <1>4, <1>5, <1>6, <1>7, <1>8, <1>9 DEF Next, ReceiveStep

\* Every step keeps the consumers' readings of the clock in the past, and what
\* they hold due.
LEMMA ClockStep ==
    TypeOK /\ NowIsPast /\ NeverEarly /\ [Next]_memVars => NowIsPast' /\ NeverEarly'
<1> SUFFICES ASSUME TypeOK, NowIsPast, NeverEarly, [Next]_memVars
             PROVE  NowIsPast' /\ NeverEarly'
  BY Zenon
<1> USE DEF queueVars, recvVars, memVars
<1>0. clock \in Nat /\ clock' \in Nat /\ now \in [Consumers -> Nat] /\ now' \in [Consumers -> Nat]
      /\ \A k \in Consumers : held[k] # NoTask => held[k].at \in Nat
  <2>1. TypeOK'
    BY Zenon, TypeStep
  <2>2. \A k \in Consumers : held[k] # NoTask => held[k].at \in Nat
    BY Zenon DEF TypeOK, Envelope
  <2> QED
    BY Zenon, <2>1, <2>2 DEF TypeOK
<1>1. CASE Tick
  BY <1>0, <1>1 DEF Tick, NowIsPast, NeverEarly
<1>2. ASSUME NEW t \in Tasks, NEW d \in Delays, Enqueue(t, d) PROVE NowIsPast' /\ NeverEarly'
  BY Zenon, <1>2 DEF Enqueue, NowIsPast, NeverEarly
<1>3. ASSUME NEW c \in Consumers, Receive(c) \/ FindNone(c) \/ Arm(c) \/ CancelCtx(c) \/ Close(c)
      PROVE  NowIsPast' /\ NeverEarly'
  BY Zenon, <1>3 DEF Receive, FindNone, Arm, CancelCtx, Close, NowIsPast, NeverEarly
<1>4. ASSUME NEW c \in Consumers, ReadNow(c) PROVE NowIsPast' /\ NeverEarly'
  BY <1>0, <1>4 DEF ReadNow, NowIsPast, NeverEarly
<1>5. ASSUME NEW c \in Consumers, Wake(c) \/ ReceiveError(c) PROVE NowIsPast' /\ NeverEarly'
  <2>1. EndSelect(c) /\ UNCHANGED <<clock, held>>
    BY Zenon, <1>5 DEF Wake, ReceiveError
  <2> QED
    BY <1>0, <2>1 DEF EndSelect, NowIsPast, NeverEarly
<1>6. ASSUME NEW c \in Consumers, TakeDue(c) PROVE NowIsPast' /\ NeverEarly'
  <2> PICK i \in DOMAIN ready :
         /\ ready[i].at <= now[c]
         /\ held' = [held EXCEPT ![c] = [ready[i] EXCEPT !.attempt = @ + 1]]
    BY Zenon, <1>6, TakenIsDue
  <2>1. now' = [now EXCEPT ![c] = 0] /\ clock' = clock
    BY Zenon, <1>6 DEF TakeDue
  <2>2. NowIsPast'
    BY <1>0, <2>1 DEF NowIsPast
  <2>3. ready[i] \in Envelope
    BY DEF TypeOK
  <2>4. [ready[i] EXCEPT !.attempt = @ + 1].at <= clock
    BY <1>0, <2>3 DEF Envelope, NowIsPast
  <2>5. \A k \in Consumers : held'[k] # NoTask => held'[k].at <= clock
    BY Zenon, <2>4 DEF NeverEarly, TypeOK
  <2> QED
    BY Zenon, <2>1, <2>2, <2>5 DEF NeverEarly
<1>7. ASSUME NEW c \in Consumers,
             Ack(c) \/ DeadLetter(c) \/ SettleError(c) \/ \E d \in Delays : Retry(c, d)
      PROVE  NowIsPast' /\ NeverEarly'
  <2>1. Settle(c)
    BY Zenon, <1>7 DEF Ack, DeadLetter, SettleError, Retry
  <2> QED
    BY Zenon, <2>1 DEF Settle, NowIsPast, NeverEarly, TypeOK
<1>8. CASE UNCHANGED memVars
  BY Zenon, <1>8 DEF NowIsPast, NeverEarly
<1> QED
  BY Zenon, <1>1, <1>2, <1>3, <1>4, <1>5, <1>6, <1>7, <1>8 DEF Next, ReceiveStep

-----------------------------------------------------------------------------
(* Where the tasks are *)

\* Append adds one task to a list that does not hold it.
LEMMA AppendIds ==
    ASSUME NEW s \in Seq(Envelope), NEW e \in Envelope, Once(s), e.id \notin Ids(s)
    PROVE  Once(Append(s, e)) /\ Ids(Append(s, e)) = Ids(s) \cup {e.id}
<1> DEFINE a == Append(s, e)
<1>1. /\ DOMAIN a = (DOMAIN s) \cup {Len(s) + 1} /\ Len(s) + 1 \notin DOMAIN s
      /\ a[Len(s) + 1] = e /\ \A i \in DOMAIN s : a[i] = s[i]
  OBVIOUS
<1> HIDE DEF a
<1>2. Once(a)
  BY <1>1 DEF Once, Ids
<1>3. Ids(a) = Ids(s) \cup {e.id}
  BY <1>1 DEF Ids
<1> QED
  BY Zenon, <1>2, <1>3 DEF a

\* RemoveAt takes one task out of a list and leaves the others.
LEMMA RemoveIds ==
    ASSUME NEW s \in Seq(Envelope), NEW i \in DOMAIN s, Once(s)
    PROVE  /\ Once(RemoveAt(s, i)) /\ Ids(RemoveAt(s, i)) = Ids(s) \ {s[i].id}
           /\ \A j \in DOMAIN RemoveAt(s, i) : \E k \in DOMAIN s \ {i} : RemoveAt(s, i)[j] = s[k]
<1> DEFINE r == RemoveAt(s, i)
           at(j) == IF j < i THEN j ELSE j + 1
<1>0. /\ DOMAIN r = 1..(Len(s) - 1)
      /\ \A j \in 1..(Len(s) - 1) : r[j] = IF j < i THEN s[j] ELSE s[j + 1]
  BY Zenon, RemoveAtElements
<1> HIDE DEF r
<1>1. /\ DOMAIN r = 1..(Len(s) - 1) /\ DOMAIN s = 1..Len(s) /\ Len(s) \in Nat
      /\ \A j \in DOMAIN r : r[j] = s[at(j)]
  BY <1>0
<1>2. \A j \in DOMAIN r : at(j) \in DOMAIN s \ {i} /\ r[j] = s[at(j)]
  BY <1>1
<1>3. \A j, k \in DOMAIN r : at(j) = at(k) => j = k
  BY <1>1
<1>4. \A k \in DOMAIN s \ {i} : \E j \in DOMAIN r : at(j) = k
  <2> TAKE k \in DOMAIN s \ {i}
  <2>1. CASE k < i
    <3>1. k \in DOMAIN r /\ at(k) = k
      BY <1>1, <2>1
    <3> QED
      BY Zenon, <3>1
  <2>2. CASE ~(k < i)
    <3>1. k - 1 \in DOMAIN r /\ at(k - 1) = k
      BY <1>1, <2>2
    <3> QED
      BY Zenon, <3>1
  <2> QED
    BY Zenon, <2>1, <2>2
<1> HIDE DEF at
<1>5. Once(r)
  BY <1>2, <1>3 DEF Once
<1>6. Ids(r) = {s[k].id : k \in DOMAIN s \ {i}}
  BY <1>2, <1>4 DEF Ids
<1>7. {s[k].id : k \in DOMAIN s \ {i}} = Ids(s) \ {s[i].id}
  BY Zenon DEF Once, Ids
<1> QED
  BY Zenon, <1>2, <1>5, <1>6, <1>7 DEF r

\* A free consumer takes a task nobody holds.
LEMMA TakeHand ==
    ASSUME NEW h \in [Consumers -> Envelope \cup {NoTask}], NEW c \in Consumers,
           NEW e \in Envelope, HandOnce(h), h[c] = NoTask, e.id \notin HandIds(h)
    PROVE  /\ HandOnce([h EXCEPT ![c] = e])
           /\ HandIds([h EXCEPT ![c] = e]) = HandIds(h) \cup {e.id}
<1> DEFINE g == [h EXCEPT ![c] = e]
<1>1. g[c] = e /\ e # NoTask /\ \A k \in Consumers \ {c} : g[k] = h[k]
  BY Zenon, NoTaskAssumption
<1> HIDE DEF g
<1>2. HandOnce(g)
  BY <1>1 DEF HandOnce, HandIds
<1>3. HandIds(g) = HandIds(h) \cup {e.id}
  BY <1>1 DEF HandIds
<1> QED
  BY Zenon, <1>2, <1>3 DEF g

\* A consumer lets go of the task it holds.
LEMMA DropHand ==
    ASSUME NEW h \in [Consumers -> Envelope \cup {NoTask}], NEW c \in Consumers,
           HandOnce(h), h[c] # NoTask
    PROVE  /\ HandOnce([h EXCEPT ![c] = NoTask])
           /\ HandIds([h EXCEPT ![c] = NoTask]) = HandIds(h) \ {h[c].id}
           /\ h[c].id \in HandIds(h)
<1> DEFINE g == [h EXCEPT ![c] = NoTask]
<1>1. g[c] = NoTask /\ \A k \in Consumers \ {c} : g[k] = h[k]
  BY Zenon
<1> HIDE DEF g
<1>2. HandOnce(g)
  BY <1>1 DEF HandOnce
<1>3. HandIds(g) = HandIds(h) \ {h[c].id}
  BY <1>1 DEF HandIds, HandOnce
<1>4. h[c].id \in HandIds(h)
  BY Zenon DEF HandIds
<1> QED
  BY Zenon, <1>2, <1>3, <1>4 DEF g

\* A step that leaves the tasks where they are keeps all that is said of them.
LEMMA StillKeeps ==
    ASSUME Disjoint, DeliveredIsKnown, AttemptCountsDeliveries, Still
    PROVE  Disjoint' /\ DeliveredIsKnown' /\ AttemptCountsDeliveries'
<1> USE DEF Still
<1>1. Disjoint'
  BY DEF Disjoint, Waiting, Buried, InHand, Ids, HandIds
<1>2. DeliveredIsKnown'
  BY Zenon DEF DeliveredIsKnown, Known
<1>3. AttemptCountsDeliveries'
  BY Zenon DEF AttemptCountsDeliveries
<1> QED
  BY Zenon, <1>1, <1>2, <1>3

\* The tasks the queue knows of, before and after a step, are those in one of
\* the five places.
LEMMA KnownPlaces ==
    /\ Known = Waiting \cup Buried \cup InHand \cup acked \cup lost
    /\ Known' = Waiting' \cup Buried' \cup InHand' \cup acked' \cup lost'
  BY Zenon DEF Known, Waiting, Buried, InHand, Ids, HandIds

\* Enqueue puts a new task, which was never delivered, in the list.
LEMMA EnqueuePlaces ==
    ASSUME TypeOK, Distinct, Disjoint, DeliveredIsKnown, AttemptCountsDeliveries,
           NEW t \in Tasks, NEW d \in Delays, Enqueue(t, d)
    PROVE  Distinct' /\ Disjoint' /\ DeliveredIsKnown' /\ AttemptCountsDeliveries'
<1> DEFINE e == [id |-> t, attempt |-> 0, at |-> clock + d]
<1>1. e \in Envelope /\ e.id = t /\ e.attempt = 0
  BY DelaysAssumption DEF TypeOK, Envelope
<1>2. ready' = Append(ready, e)
  BY Zenon DEF Enqueue, Push
<1> HIDE DEF e
<1>3. UNCHANGED <<dead, held, acked, lost, delivered, recvPc>> /\ t \notin Known
  BY Zenon DEF Enqueue, recvVars
<1>4. t \notin Waiting \cup Buried \cup InHand \cup acked \cup lost
  BY Zenon, <1>3, KnownPlaces
<1>5. Once(ready') /\ Waiting' = Waiting \cup {t}
  <2>1. Once(ready) /\ ready \in Seq(Envelope) /\ e.id \notin Ids(ready)
    BY Zenon, <1>1, <1>4 DEF Distinct, TypeOK, Waiting
  <2>2. Once(Append(ready, e)) /\ Ids(Append(ready, e)) = Ids(ready) \cup {t}
    BY Zenon, <1>1, <2>1, AppendIds
  <2> QED
    BY Zenon, <1>2, <2>2 DEF Waiting
<1>6. Buried' = Buried /\ InHand' = InHand
  BY Zenon, <1>3 DEF Buried, InHand, Ids, HandIds
<1>7. Distinct'
  BY Zenon, <1>3, <1>5 DEF Distinct, Once, HandOnce
<1>8. Disjoint'
  BY <1>3, <1>4, <1>5, <1>6 DEF Disjoint
<1>9. DeliveredIsKnown'
  <2>1. Known' = Known \cup {t}
    BY Zenon, <1>3, <1>5, <1>6, KnownPlaces
  <2> QED
    BY Zenon, <1>3, <2>1 DEF DeliveredIsKnown
<1>10. delivered[t] = 0
  BY <1>3 DEF DeliveredIsKnown, TypeOK
<1>11. AttemptCountsDeliveries'
  <2>1. /\ DOMAIN ready' = (DOMAIN ready) \cup {Len(ready) + 1}
        /\ ready'[Len(ready) + 1] = e
        /\ \A i \in DOMAIN ready : ready'[i] = ready[i]
    BY <1>1, <1>2 DEF TypeOK
  <2> QED
    BY Zenon, <1>1, <1>3, <1>10, <2>1 DEF AttemptCountsDeliveries
<1> QED
  BY Zenon, <1>7, <1>8, <1>9, <1>11

\* TakeDue moves a waiting task into free hands and counts the delivery.
LEMMA TakePlaces ==
    ASSUME TypeOK, Distinct, Disjoint, DeliveredIsKnown, AttemptCountsDeliveries,
           NEW c \in Consumers, TakeDue(c)
    PROVE  Distinct' /\ Disjoint' /\ DeliveredIsKnown' /\ AttemptCountsDeliveries'
<1> PICK i \in DOMAIN ready :
      /\ ready' = RemoveAt(ready, i)
      /\ held' = [held EXCEPT ![c] = [ready[i] EXCEPT !.attempt = @ + 1]]
      /\ delivered' = [delivered EXCEPT ![ready[i].id] = @ + 1]
  BY Zenon, TakenIsDue
<1> DEFINE e == [ready[i] EXCEPT !.attempt = @ + 1]
           t == ready[i].id
<1>1. ready[i] \in Envelope
  BY DEF TypeOK
<1>2. e \in Envelope /\ e.id = t /\ t \in Tasks /\ e.attempt = ready[i].attempt + 1
  BY <1>1 DEF Envelope
<1>3. /\ held[c] = NoTask /\ UNCHANGED <<dead, acked, lost>>
      /\ recvPc' = [recvPc EXCEPT ![c] = "idle"]
  BY Zenon DEF TakeDue, Distinct
<1>4. t \in Waiting
  BY Zenon DEF Waiting, Ids
<1>5. t \notin InHand
  BY Zenon, <1>4 DEF Disjoint
<1>6. delivered' = [delivered EXCEPT ![t] = @ + 1]
  BY Zenon
<1> HIDE DEF e
<1>7. /\ Once(ready') /\ Waiting' = Waiting \ {t}
      /\ \A j \in DOMAIN ready' : \E k \in DOMAIN ready \ {i} : ready'[j] = ready[k]
  <2>1. ready \in Seq(Envelope) /\ Once(ready)
    BY Zenon DEF TypeOK, Distinct
  <2> QED
    BY <2>1, RemoveIds DEF Waiting
<1>8. HandOnce(held') /\ InHand' = InHand \cup {t}
  <2>1. held \in [Consumers -> Envelope \cup {NoTask}] /\ HandOnce(held) /\ t \notin HandIds(held)
    BY Zenon, <1>5 DEF TypeOK, Distinct, InHand
  <2>2. held' = [held EXCEPT ![c] = e]
    BY Zenon DEF e
  <2> HIDE DEF t
  <2>3. /\ HandOnce([held EXCEPT ![c] = e])
        /\ HandIds([held EXCEPT ![c] = e]) = HandIds(held) \cup {t}
    BY Zenon, <1>2, <1>3, <2>1, TakeHand
  <2> QED
    BY Zenon, <2>2, <2>3 DEF InHand
<1>9. Buried' = Buried
  BY Zenon, <1>3 DEF Buried, Ids
<1>10. Distinct'
  <2>1. Once(dead')
    BY Zenon, <1>3 DEF Distinct, Once
  <2>2. \A k \in Consumers : recvPc'[k] # "idle" => held'[k] = NoTask
    BY Zenon, <1>3 DEF Distinct, TypeOK
  <2> QED
    BY Zenon, <1>7, <1>8, <2>1, <2>2 DEF Distinct
<1>11. Disjoint'
  BY <1>3, <1>4, <1>7, <1>8, <1>9 DEF Disjoint
<1>12. DeliveredIsKnown'
  <2>1. Known' = Known /\ t \in Known
    BY Zenon, <1>3, <1>4, <1>7, <1>8, <1>9, KnownPlaces
  <2>2. \A u \in Tasks \ {t} : delivered'[u] = delivered[u]
    BY Zenon, <1>6 DEF TypeOK
  <2> QED
    BY Zenon, <2>1, <2>2 DEF DeliveredIsKnown
<1>13. \A k \in DOMAIN ready \ {i} : ready[k].id # t /\ ready[k].id \in Tasks
  <2>0. \A k \in DOMAIN ready : ready[k] \in Envelope
    BY DEF TypeOK
  <2>1. \A k \in DOMAIN ready : ready[k].id \in Tasks
    BY Zenon, <2>0 DEF Envelope
  <2> QED
    BY Zenon, <2>1 DEF Distinct, Once
<1>14. \A k \in Consumers : held[k] # NoTask => held[k].id # t /\ held[k].id \in Tasks
  <2>1. \A k \in Consumers : held[k] # NoTask => held[k].id \in Tasks
    BY Zenon DEF TypeOK, Envelope
  <2> QED
    BY Zenon, <1>5, <2>1 DEF InHand, HandIds
<1>15. \A u \in Tasks \ {t} : delivered'[u] = delivered[u]
  BY Zenon, <1>6 DEF TypeOK
<1>16. e.attempt = delivered'[t]
  <2>1. ready[i].attempt = delivered[t]
    BY Zenon DEF AttemptCountsDeliveries
  <2> QED
    BY Zenon, <1>2, <1>6, <2>1 DEF TypeOK
<1>17. AttemptCountsDeliveries'
  <2>1. \A j \in DOMAIN ready' : ready'[j].attempt = delivered'[ready'[j].id]
    BY <1>7, <1>13, <1>15 DEF AttemptCountsDeliveries
  <2>2. held' = [held EXCEPT ![c] = e] /\ held \in [Consumers -> Envelope \cup {NoTask}]
    BY Zenon DEF e, TypeOK
  <2>3. \A k \in Consumers : held'[k] # NoTask => held'[k].attempt = delivered'[held'[k].id]
    BY <1>2, <1>14, <1>15, <1>16, <2>2 DEF AttemptCountsDeliveries
  <2> QED
    BY Zenon, <2>1, <2>3 DEF AttemptCountsDeliveries
<1> QED
  BY Zenon, <1>10, <1>11, <1>12, <1>17

\* Every settlement empties the consumer's hands.
LEMMA SettleHand ==
    ASSUME TypeOK, Distinct, NEW c \in Consumers, Settle(c)
    PROVE  /\ held[c] \in Envelope /\ held[c] # NoTask
           /\ held[c].id \in InHand /\ InHand' = InHand \ {held[c].id}
           /\ HandOnce(held') /\ \A k \in Consumers : held'[k] = NoTask \/ held'[k] = held[k]
           /\ \A k \in Consumers : recvPc'[k] # "idle" => held'[k] = NoTask
           /\ delivered' = delivered
<1>1. /\ held \in [Consumers -> Envelope \cup {NoTask}] /\ HandOnce(held) /\ held[c] # NoTask
      /\ held' = [held EXCEPT ![c] = NoTask] /\ delivered' = delivered /\ recvPc' = recvPc
  BY Zenon DEF TypeOK, Distinct, Settle, recvVars
<1>2. /\ HandOnce(held') /\ HandIds(held') = HandIds(held) \ {held[c].id}
      /\ held[c].id \in HandIds(held)
  BY Zenon, <1>1, DropHand
<1> QED
  BY Zenon, <1>1, <1>2 DEF InHand, Distinct

\* Ack, and a settlement that fails, move the task in hand to where it ends.
LEMMA EndPlaces ==
    ASSUME TypeOK, Distinct, Disjoint, DeliveredIsKnown, AttemptCountsDeliveries,
           NEW c \in Consumers, Ack(c) \/ SettleError(c) \/ DeadLetter(c)
    PROVE  Distinct' /\ Disjoint' /\ DeliveredIsKnown' /\ AttemptCountsDeliveries'
<1> DEFINE t == held[c].id
<1>0. Settle(c) /\ ready' = ready
  BY Zenon DEF Ack, SettleError, DeadLetter
<1>1. /\ held[c] \in Envelope /\ t \in InHand /\ InHand' = InHand \ {t}
      /\ HandOnce(held') /\ \A k \in Consumers : held'[k] = NoTask \/ held'[k] = held[k]
      /\ \A k \in Consumers : recvPc'[k] # "idle" => held'[k] = NoTask
      /\ delivered' = delivered
  BY <1>0, SettleHand
<1>2. Waiting' = Waiting /\ Once(ready')
  BY <1>0 DEF Waiting, Ids, Distinct, Once
<1>3. \/ Buried' = Buried /\ acked' = acked \cup {t} /\ lost' = lost /\ Once(dead')
      \/ Buried' = Buried /\ lost' = lost \cup {t} /\ acked' = acked /\ Once(dead')
      \/ Buried' = Buried \cup {t} /\ UNCHANGED <<acked, lost>> /\ Once(dead')
  <2>1. CASE Ack(c) \/ SettleError(c)
    BY <2>1 DEF Ack, SettleError, Buried, Ids, Distinct, Once
  <2>2. CASE DeadLetter(c)
    <3>1. /\ dead' = Append(dead, held[c]) /\ UNCHANGED <<acked, lost>>
          /\ dead \in Seq(Envelope) /\ Once(dead)
      BY Zenon, <2>2 DEF DeadLetter, TypeOK, Distinct
    <3>2. t \notin Ids(dead)
      BY Zenon, <1>1 DEF Disjoint, Buried
    <3>3. Once(dead') /\ Ids(dead') = Ids(dead) \cup {t}
      BY Zenon, <1>1, <3>1, <3>2, AppendIds
    <3> QED
      BY Zenon, <3>1, <3>3 DEF Buried
  <2> QED
    BY Zenon, <2>1, <2>2
<1> HIDE DEF t
<1>4. Distinct'
  BY Zenon, <1>1, <1>2, <1>3 DEF Distinct
<1>5. Disjoint'
  BY <1>1, <1>2, <1>3 DEF Disjoint
<1>6. Known' = Known
  BY Zenon, <1>1, <1>2, <1>3, KnownPlaces
<1>7. DeliveredIsKnown'
  BY Zenon, <1>1, <1>6 DEF DeliveredIsKnown
<1>8. AttemptCountsDeliveries'
  BY Zenon, <1>0, <1>1 DEF AttemptCountsDeliveries
<1> QED
  BY Zenon, <1>4, <1>5, <1>7, <1>8

\* Retry moves the task in hand back into the list, on the same attempt.
LEMMA RetryPlaces ==
    ASSUME TypeOK, Distinct, Disjoint, DeliveredIsKnown, AttemptCountsDeliveries,
           NEW c \in Consumers, NEW d \in Delays, Retry(c, d)
    PROVE  Distinct' /\ Disjoint' /\ DeliveredIsKnown' /\ AttemptCountsDeliveries'
<1> DEFINE t == held[c].id
           e == [held[c] EXCEPT !.at = clock + d]
<1>0. Settle(c) /\ UNCHANGED <<dead, acked, lost>> /\ ready' = Append(ready, e)
  BY Zenon DEF Retry, Push
<1>1. /\ held[c] \in Envelope /\ held[c] # NoTask /\ t \in InHand /\ InHand' = InHand \ {t}
      /\ HandOnce(held') /\ \A k \in Consumers : held'[k] = NoTask \/ held'[k] = held[k]
      /\ \A k \in Consumers : recvPc'[k] # "idle" => held'[k] = NoTask
      /\ delivered' = delivered
  BY Zenon, <1>0, SettleHand
<1>2. e \in Envelope /\ e.id = t /\ e.attempt = held[c].attempt
  <2>1. clock + d \in Nat
    BY DelaysAssumption DEF TypeOK
  <2> QED
    BY Zenon, <1>1, <2>1 DEF Envelope
<1> HIDE DEF e
<1>3. Once(ready') /\ Waiting' = Waiting \cup {t}
  <2>1. ready \in Seq(Envelope) /\ Once(ready) /\ e.id \notin Ids(ready)
    BY Zenon, <1>1, <1>2 DEF TypeOK, Distinct, Disjoint, Waiting
  <2>2. Once(Append(ready, e)) /\ Ids(Append(ready, e)) = Ids(ready) \cup {t}
    BY <1>2, <2>1, AppendIds
  <2> QED
    BY Zenon, <1>0, <2>2 DEF Waiting
<1>4. Buried' = Buried /\ Once(dead')
  BY <1>0 DEF Buried, Ids, Distinct, Once
<1>5. AttemptCountsDeliveries'
  <2>1. /\ DOMAIN ready' = (DOMAIN ready) \cup {Len(ready) + 1}
        /\ ready'[Len(ready) + 1] = e
        /\ \A i \in DOMAIN ready : ready'[i] = ready[i]
    BY <1>0, <1>2 DEF TypeOK
  <2>2. e.attempt = delivered[e.id]
    BY Zenon, <1>1, <1>2 DEF AttemptCountsDeliveries
  <2> QED
    BY <1>1, <2>1, <2>2 DEF AttemptCountsDeliveries
<1> HIDE DEF t
<1>6. Distinct'
  BY Zenon, <1>1, <1>3, <1>4 DEF Distinct
<1>7. Disjoint'
  BY <1>0, <1>1, <1>3, <1>4 DEF Disjoint
<1>8. Known' = Known
  BY Zenon, <1>0, <1>1, <1>3, <1>4, KnownPlaces
<1>9. DeliveredIsKnown'
  BY Zenon, <1>1, <1>8 DEF DeliveredIsKnown
<1> QED
  BY Zenon, <1>5, <1>6, <1>7, <1>9

\* A step that moves no task keeps the hands of receiving consumers empty.
LEMMA StillDistinct ==
    ASSUME TypeOK, Distinct, [Next]_memVars, Still
    PROVE  Distinct'
<1> USE DEF queueVars, recvVars, memVars
<1>1. Once(ready') /\ Once(dead') /\ HandOnce(held') /\ held' = held
  BY Zenon DEF Still, Distinct, Once, HandOnce
<1>2. \A k \in Consumers : recvPc[k] # "idle" => held[k] = NoTask
  BY Zenon DEF Distinct
<1> SUFFICES \A k \in Consumers : recvPc'[k] # "idle" => held'[k] = NoTask
  BY Zenon, <1>1 DEF Distinct
<1>3. CASE recvPc' = recvPc
  BY Zenon, <1>1, <1>2, <1>3
<1>4. ASSUME NEW c \in Consumers, ReceiveStep(c) \/ ReceiveError(c)
      PROVE  \A k \in Consumers : recvPc'[k] # "idle" => held'[k] = NoTask
  <2>1. held[c] = NoTask
    BY Zenon, <1>2, <1>4 DEF ReceiveStep, Receive, ReadNow, TakeDue, FindNone, Arm, Wake, ReceiveError
  <2>2. \A k \in Consumers \ {c} : recvPc'[k] = recvPc[k]
    BY Zenon, <1>4 DEF ReceiveStep, Receive, ReadNow, TakeDue, FindNone, Arm, Wake, ReceiveError, TypeOK
  <2> QED
    BY Zenon, <1>1, <1>2, <2>1, <2>2
<1>5. ASSUME NEW c \in Consumers,
             \/ CancelCtx(c) \/ Close(c) \/ Ack(c) \/ DeadLetter(c) \/ SettleError(c)
             \/ \E d \in Delays : Retry(c, d)
      PROVE  recvPc' = recvPc
  BY Zenon, <1>5 DEF CancelCtx, Close, Ack, DeadLetter, SettleError, Retry, Settle
<1>6. ASSUME NEW t \in Tasks, NEW d \in Delays, Enqueue(t, d) PROVE recvPc' = recvPc
  BY Zenon, <1>6 DEF Enqueue
<1>7. CASE Tick
  BY Zenon, <1>3, <1>7 DEF Tick
<1>8. CASE UNCHANGED memVars
  BY Zenon, <1>3, <1>8
<1> QED
  BY Zenon, <1>3, <1>4, <1>5, <1>6, <1>7, <1>8 DEF Next

\* A step that notifies everyone or leaves the list alone, and does not touch
\* the consumers' sleeps, keeps the sleeps bounded.
LEMMA SleepFrame ==
    ASSUME SleepIsBounded, UNCHANGED <<recvPc, now, wait, timer>>,
           \/ notified' = [c \in Consumers |-> TRUE]
           \/ UNCHANGED <<notified, ready>>
    PROVE  SleepIsBounded'
  BY Zenon DEF SleepIsBounded

\* Every step keeps the sleeps bounded.
LEMMA SleepStep == TypeOK /\ NowIsPast /\ SleepIsBounded /\ [Next]_memVars => SleepIsBounded'
<1> SUFFICES ASSUME TypeOK, NowIsPast, SleepIsBounded, [Next]_memVars PROVE SleepIsBounded'
  BY Zenon
<1> USE DEF queueVars, recvVars, memVars
<1>1. CASE Tick \/ UNCHANGED memVars
  BY Zenon, <1>1, SleepFrame DEF Tick
<1>2. ASSUME NEW t \in Tasks, NEW d \in Delays, Enqueue(t, d) PROVE SleepIsBounded'
  BY Zenon, <1>2, SleepFrame DEF Enqueue, Push
<1>3. ASSUME NEW c \in Consumers, CancelCtx(c) \/ Close(c) \/ Ack(c) \/ DeadLetter(c) \/ SettleError(c)
      PROVE  SleepIsBounded'
  BY Zenon, <1>3, SleepFrame DEF CancelCtx, Close, Ack, DeadLetter, SettleError, Settle
<1>4. ASSUME NEW c \in Consumers, NEW d \in Delays, Retry(c, d) PROVE SleepIsBounded'
  BY Zenon, <1>4, SleepFrame DEF Retry, Push, Settle
<1>5. ASSUME NEW c \in Consumers, Receive(c) \/ ReadNow(c) PROVE SleepIsBounded'
  <2>1. CASE Receive(c)
    BY Zenon, <2>1 DEF Receive, SleepIsBounded, TypeOK
  <2>2. CASE ReadNow(c)
    BY Zenon, <2>2 DEF ReadNow, SleepIsBounded, TypeOK
  <2> QED BY Zenon, <1>5, <2>1, <2>2
<1>6. ASSUME NEW c \in Consumers, Wake(c) \/ ReceiveError(c) PROVE SleepIsBounded'
  <2>1. /\ EndSelect(c) /\ UNCHANGED <<ready, notified>>
        /\ recvPc'[c] \notin {"arm", "wait"}
        /\ \A k \in Consumers \ {c} : recvPc'[k] = recvPc[k]
    BY Zenon, <1>6 DEF Wake, ReceiveError, TypeOK
  <2>2. \A k \in Consumers \ {c} : timer'[k] = timer[k] /\ now'[k] = now[k] /\ wait'[k] = wait[k]
    BY Zenon, <2>1 DEF EndSelect, TypeOK
  <2> QED
    BY <2>1, <2>2 DEF SleepIsBounded
<1>7. ASSUME NEW c \in Consumers, FindNone(c) PROVE SleepIsBounded'
  <2>1. /\ \A i \in DOMAIN ready : wait'[c] > 0 /\ now[c] + wait'[c] <= ready[i].at
        /\ \A k \in Consumers \ {c} : wait'[k] = wait[k]
    BY Zenon, <1>7, WaitOfNone
  <2>2. /\ UNCHANGED <<ready, now, timer>> /\ recvPc'[c] = "arm"
        /\ \A k \in Consumers \ {c} : recvPc'[k] = recvPc[k] /\ notified'[k] = notified[k]
    BY Zenon, <1>7 DEF FindNone, TypeOK
  <2> QED
    BY <2>1, <2>2 DEF SleepIsBounded
<1>8. ASSUME NEW c \in Consumers, Arm(c) PROVE SleepIsBounded'
  <2>1. /\ UNCHANGED <<ready, now, wait, notified>> /\ recvPc[c] = "arm" /\ recvPc'[c] = "wait"
        /\ \A k \in Consumers \ {c} : recvPc'[k] = recvPc[k] /\ timer'[k] = timer[k]
        /\ wait[c] > 0 => timer'[c] = clock + wait[c]
        /\ wait[c] \in Nat /\ clock \in Nat /\ now[c] \in Nat /\ now[c] <= clock
    BY Zenon, <1>8 DEF Arm, TypeOK, NowIsPast
  <2>2. wait[c] > 0 => timer'[c] # 0 /\ timer'[c] - wait[c] >= now[c]
    BY <2>1
  <2> QED
    BY Zenon, <2>1, <2>2 DEF SleepIsBounded
<1>9. ASSUME NEW c \in Consumers, TakeDue(c) PROVE SleepIsBounded'
  <2>1. PICK i \in DOMAIN ready : ready' = RemoveAt(ready, i)
    BY Zenon, <1>9, TakenIsDue
  <2>2. \A j \in DOMAIN ready' : \E k \in DOMAIN ready : ready'[j] = ready[k]
    <3>1. /\ DOMAIN ready' = 1..(Len(ready) - 1) /\ DOMAIN ready = 1..Len(ready) /\ Len(ready) \in Nat
          /\ \A j \in 1..(Len(ready) - 1) : ready'[j] = IF j < i THEN ready[j] ELSE ready[j + 1]
      BY <2>1, RemoveAtElements DEF TypeOK
    <3> QED
      BY <3>1
  <2>3. /\ UNCHANGED <<wait, timer, notified>> /\ recvPc'[c] = "idle"
        /\ \A k \in Consumers \ {c} : recvPc'[k] = recvPc[k] /\ now'[k] = now[k]
    BY Zenon, <1>9 DEF TakeDue, TypeOK
  <2> QED
    BY Zenon, <2>2, <2>3 DEF SleepIsBounded
<1> QED
  BY <1>1, <1>2, <1>3, <1>4, <1>5, <1>6, <1>7, <1>8, <1>9 DEF Next, ReceiveStep

\* Every step keeps the inductive invariant.
LEMMA StepIInv == IInv /\ [Next]_memVars => IInv'
<1> SUFFICES ASSUME IInv, [Next]_memVars PROVE IInv'
  BY Zenon
<1> USE DEF IInv
<1>1. TypeOK' /\ NowIsPast' /\ NeverEarly' /\ SleepIsBounded'
  BY Zenon, TypeStep, ClockStep, SleepStep
<1>2. CASE Still
  BY Zenon, <1>1, <1>2, StillKeeps, StillDistinct
<1>3. CASE Move
  <2>1. Distinct' /\ Disjoint' /\ DeliveredIsKnown' /\ AttemptCountsDeliveries'
    BY Zenon, <1>3, EnqueuePlaces, TakePlaces, EndPlaces, RetryPlaces DEF Move
  <2> QED
    BY Zenon, <1>1, <2>1
<1> QED
  BY Zenon, <1>2, <1>3, StepIsStillOrMove

-----------------------------------------------------------------------------
(* The theorems *)

\* The queue under its specification always satisfies the inductive invariant.
THEOREM Invariant == Spec => []IInv
<1>1. MemInit => IInv
  BY Zenon, InitIInv
<1>2. IInv /\ [Next]_memVars => IInv'
  BY Zenon, StepIInv
<1> QED
  BY <1>1, <1>2, PTL DEF Spec

\* Type correctness of the queue and its consumers.
THEOREM Types == Spec => []TypeOK
<1>1. IInv => TypeOK
  BY Zenon DEF IInv
<1> QED
  BY <1>1, Invariant, PTL

\* next never hands out a task before it is due, although it reads the clock
\* before it takes the mutex.
THEOREM NotBeforeDue == Spec => []NeverEarly
<1>1. IInv => NeverEarly
  BY Zenon DEF IInv
<1> QED
  BY <1>1, Invariant, PTL

\* Task.Attempt counts the deliveries of a task, across retries and consumers.
THEOREM AttemptIsDeliveries == Spec => []AttemptCountsDeliveries
<1>1. IInv => AttemptCountsDeliveries
  BY Zenon DEF IInv
<1> QED
  BY <1>1, Invariant, PTL

\* No interleaving of Enqueue, Retry, other consumers and the clock with the
\* steps of Receive leaves a consumer asleep without a wake-up to come.
THEOREM WakeupIsComing == Spec => []NoLostWakeup
<1>1. IInv => NoLostWakeup
  <2> SUFFICES ASSUME IInv, NEW c \in Consumers, recvPc[c] = "wait", ~notified[c],
                      NEW i \in DOMAIN ready
               PROVE  /\ timer[c] # 0
                      /\ timer[c] - wait[c] >= now[c]
                      /\ timer[c] - ready[i].at <= timer[c] - wait[c] - now[c]
    BY Zenon DEF NoLostWakeup
  <2>1. /\ timer[c] # 0 /\ timer[c] - wait[c] >= now[c] /\ now[c] + wait[c] <= ready[i].at
    BY Zenon DEF IInv, SleepIsBounded
  <2>2. ready[i] \in Envelope /\ timer[c] \in Nat /\ wait[c] \in Nat /\ now[c] \in Nat
    BY DEF IInv, TypeOK
  <2>3. ready[i].at \in Nat
    BY Zenon, <2>2 DEF Envelope
  <2> QED
    BY <2>1, <2>2, <2>3
<1> QED
  BY <1>1, Invariant, PTL

\* A task that is in a place is in no other.
LEMMA SinglePlace ==
    ASSUME Distinct, Disjoint, NEW t \in Tasks, NEW p \in Places(t), NEW q \in Places(t)
    PROVE  p = q
<1> DEFINE R == {<<"ready", i>> : i \in {k \in DOMAIN ready : ready[k].id = t}}
           D == {<<"dead", i>> : i \in {k \in DOMAIN dead : dead[k].id = t}}
           H == {<<"held", c>> : c \in {k \in Consumers : held[k] # NoTask /\ held[k].id = t}}
           A == {<<"acked", t>> : u \in acked \cap {t}}
           L == {<<"lost", t>> : u \in lost \cap {t}}
<1>0. p \in R \cup D \cup H \cup A \cup L /\ q \in R \cup D \cup H \cup A \cup L
  BY Zenon DEF Places
<1>1. \A x, y \in R : x = y
  BY DEF Distinct, Once
<1>2. \A x, y \in D : x = y
  BY DEF Distinct, Once
<1>3. \A x, y \in H : x = y
  BY Zenon DEF Distinct, HandOnce
<1>4. (\A x, y \in A : x = y) /\ (\A x, y \in L : x = y)
  BY Zenon
<1>5. /\ R # {} => t \in Waiting
      /\ D # {} => t \in Buried
      /\ H # {} => t \in InHand
      /\ A # {} => t \in acked
      /\ L # {} => t \in lost
  BY Zenon DEF Waiting, Buried, InHand, Ids, HandIds
<1> HIDE DEF R, D, H, A, L
<1> QED
  BY Zenon, <1>0, <1>1, <1>2, <1>3, <1>4, <1>5 DEF Disjoint

\* A task is in at most one place, and a delivered task in exactly one, however
\* many consumers take, settle and fail to settle deliveries.
THEOREM TaskInOnePlace == Spec => []OnePlace
<1>1. IInv => OnePlace
  <2> SUFFICES ASSUME IInv, NEW t \in Tasks
               PROVE  Cardinality(Places(t)) <= 1 /\ (delivered[t] > 0 => Places(t) # {})
    BY Zenon DEF OnePlace
  <2> USE DEF IInv
  <2>1. \A p, q \in Places(t) : p = q
    BY Zenon, SinglePlace
  <2>2. Places(t) = {} \/ \E p : Places(t) = {p}
    BY <2>1, Zenon
  <2>3. delivered[t] > 0 => Places(t) # {}
    <3> SUFFICES ASSUME delivered[t] > 0 PROVE Places(t) # {}
      BY Zenon
    <3>1. t \in Known
      BY Zenon DEF DeliveredIsKnown
    <3>2. \/ \E i \in DOMAIN ready : ready[i].id = t
          \/ \E i \in DOMAIN dead : dead[i].id = t
          \/ \E c \in Consumers : held[c] # NoTask /\ held[c].id = t
          \/ t \in acked \/ t \in lost
      BY Zenon, <3>1 DEF Known
    <3> QED
      BY Zenon, <3>2 DEF Places
  <2>4. Cardinality(Places(t)) \in {0, 1}
    <3>1. Cardinality({}) = 0 /\ \A p : Cardinality({p}) = 1
      BY Zenon, FS_EmptySet, FS_Singleton
    <3> QED
      BY <2>2, <3>1, Zenon
  <2> QED
    BY <2>3, <2>4
<1> QED
  BY <1>1, Invariant, PTL

=============================================================================
