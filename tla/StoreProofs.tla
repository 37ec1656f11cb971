---------------------------- MODULE StoreProofs -----------------------------
(***************************************************************************)
(* Proofs about the components that keep their state in Redis or in a      *)
(* shared map: RedisLock, RateLimit, Canal, CacheStore and CacheSnapshot.  *)
(* They do not interact: the module extends the first, and the others are  *)
(* instances with variables of their own. Every theorem holds for all      *)
(* values of the constants that meet its hypotheses.                       *)
(*                                                                         *)
(* The lease of the lock is safe because the inductive invariant adds to   *)
(* LeaseIsHeld what Redis has confirmed to a client that has not seen the  *)
(* answer yet.                                                             *)
(***************************************************************************)
EXTENDS RedisLock, Sequences, TLAPS

-----------------------------------------------------------------------------
(* RedisLock *)

\* The answer on its way confirms a lease that Redis still keeps.
AnswerIsHeld == \A c \in Clients :
    pc[c] \in {"acquired", "refreshed"} /\ budget[c] > 0 => owner = c /\ ttl >= budget[c]

\* A client counts on a lease only after a confirmation.
NoLeaseYet == \A c \in Clients :
    pc[c] \in {"new", "sleep", "acquire", "acquired", "refused"} => left[c] = 0

IInv == TypeOK /\ AnswerIsHeld /\ NoLeaseYet /\ LeaseIsHeld

USE DEF InFlight, Answered, Holding

\* Nobody counts on a lease at first.
LEMMA InitIInv == Init => IInv
  BY LockAssumption DEF Init, IInv, TypeOK, AnswerIsHeld, NoLeaseYet, LeaseIsHeld

\* Type correctness is preserved by every step.
LEMMA NextTypeOK == TypeOK /\ [Next]_vars => TypeOK'
<1> SUFFICES ASSUME TypeOK, [Next]_vars PROVE TypeOK'
  BY Zenon
<1> USE LockAssumption DEF TypeOK, Goto, Fault
<1>1. CASE Tick BY <1>1 DEF Tick
<1>2. ASSUME NEW c \in Clients, Serve(c) PROVE TypeOK'
  <2>1. CASE SetNX(c) BY <2>1 DEF SetNX
  <2>2. CASE RefreshScript(c) BY <2>2 DEF RefreshScript, Mine
  <2>3. CASE ReleaseScript(c) BY <2>3 DEF ReleaseScript, Released
  <2> QED BY Zenon, <1>2, <2>1, <2>2, <2>3 DEF Serve
<1>3. ASSUME NEW c \in Clients, Proceed(c) \/ Refresh(c) PROVE TypeOK'
  <2>1. CASE Receive(c) BY Zenon, <2>1 DEF Receive, Confirmed
  <2>2. CASE \E r \in InFlight : Send(c, r) BY <2>2 DEF Send
  <2> QED BY Zenon, <1>3, <2>1, <2>2 DEF Proceed, Refresh, TryAcquire, HandlerReturns
<1>4. ASSUME NEW c \in Clients, LoseAnswer(c) \/ Cancel(c) \/ Crash(c) PROVE TypeOK'
  BY <1>4 DEF LoseAnswer, Cancel, Crash
<1>5. CASE UNCHANGED vars BY Zenon, <1>5 DEF vars
<1> QED BY Zenon, <1>1, <1>2, <1>3, <1>4, <1>5 DEF Next

\* What is claimed of client d.
Held(d) ==
    /\ pc[d] \in {"acquired", "refreshed"} /\ budget[d] > 0 => owner = d /\ ttl >= budget[d]
    /\ pc[d] \in {"new", "sleep", "acquire", "acquired", "refused"} => left[d] = 0
    /\ pc[d] \in Holding /\ left[d] > 0 => owner = d /\ ttl >= left[d]

\* The invariant, client by client.
LEMMA IInvIsHeld == IInv <=> TypeOK /\ \A d \in Clients : Held(d)
  BY Zenon DEF IInv, AnswerIsHeld, NoLeaseYet, LeaseIsHeld, Held

\* Steps of another client, or of d itself, keep what is claimed of d.
LEMMA StepHeld ==
    ASSUME IInv, [Next]_vars, NEW d \in Clients PROVE Held(d)'
<1> USE LockAssumption DEF TypeOK, Goto, Fault, Held
<1>0. TypeOK /\ Held(d) BY Zenon, IInvIsHeld
<1>1. CASE Tick BY <1>0, <1>1 DEF Tick
<1>2. ASSUME NEW c \in Clients, Serve(c) PROVE Held(d)'
  <2>1. CASE SetNX(c) BY <1>0, <2>1 DEF SetNX
  <2>2. CASE RefreshScript(c) BY <1>0, <2>2 DEF RefreshScript, Mine
  <2>3. CASE ReleaseScript(c) BY Zenon, <1>0, <2>3 DEF ReleaseScript, Released
  <2> QED BY Zenon, <1>2, <2>1, <2>2, <2>3 DEF Serve
<1>3. ASSUME NEW c \in Clients, Proceed(c) \/ Refresh(c) PROVE Held(d)'
  <2>1. CASE Receive(c)
    <3>1. CASE c = d BY Zenon, <1>0, <2>1, <3>1 DEF Receive, Confirmed
    <3>2. CASE c # d BY Zenon, <1>0, <2>1, <3>2 DEF Receive, Confirmed
    <3> QED BY Zenon, <3>1, <3>2
  <2>2. CASE TryAcquire(c) BY Zenon, <1>0, <2>2 DEF TryAcquire, Send
  <2>3. CASE Refresh(c) BY Zenon, <1>0, <2>3 DEF Refresh, Send
  <2>4. CASE HandlerReturns(c) BY Zenon, <1>0, <2>4 DEF HandlerReturns, Send
  <2> QED BY Zenon, <1>3, <2>1, <2>2, <2>3, <2>4 DEF Proceed
<1>4. ASSUME NEW c \in Clients, LoseAnswer(c) \/ Cancel(c) \/ Crash(c) PROVE Held(d)'
  BY Zenon, <1>0, <1>4 DEF LoseAnswer, Cancel, Crash
<1>5. CASE UNCHANGED vars BY Zenon, <1>0, <1>5 DEF vars
<1> QED BY Zenon, <1>1, <1>2, <1>3, <1>4, <1>5 DEF Next

\* The inductive invariant holds in every state, for any clients and TTL.
THEOREM Invariant == Spec => []IInv
<1>1. IInv /\ [Next]_vars => IInv'
  <2> SUFFICES ASSUME IInv, [Next]_vars PROVE IInv'
    BY Zenon
  <2>1. TypeOK' BY Zenon, NextTypeOK DEF IInv
  <2>2. \A d \in Clients : Held(d)' BY Zenon, StepHeld
  <2> QED BY Zenon, <2>1, <2>2 DEF IInv, AnswerIsHeld, NoLeaseYet, LeaseIsHeld, Held
<1> QED BY InitIInv, <1>1, PTL DEF Spec

\* While a client counts on its lease the key is its own.
THEOREM LeaseSafety == Spec => []LeaseIsHeld
  BY Invariant, PTL DEF IInv

\* Two handlers never run together on live leases.
THEOREM MutualExclusion == Spec => []Exclusion
<1>1. IInv => Exclusion BY LockAssumption DEF IInv, TypeOK, LeaseIsHeld, Exclusion
<1> QED BY Invariant, <1>1, PTL

\* The key leaves its owner by the owner's Release or by expiry only.
THEOREM OwnerOnly == Spec => OnlyOwnerOrExpiry
<1> DEFINE Taken == owner # Free /\ owner' # owner =>
        owner' = Free /\ (pc[owner] = "release" \/ (ttl = 1 /\ UNCHANGED pc))
<1>1. IInv /\ [Next]_vars => [Taken]_vars
  <2> SUFFICES ASSUME IInv, Next PROVE Taken
    BY Zenon DEF vars
  <2> USE LockAssumption DEF TypeOK, IInv
  <2>1. CASE Tick BY <2>1 DEF Tick
  <2>2. ASSUME NEW c \in Clients, Serve(c) PROVE Taken
    BY Zenon, <2>2 DEF Serve, SetNX, RefreshScript, ReleaseScript, Released
  <2>3. ASSUME NEW c \in Clients, Proceed(c) \/ Refresh(c) \/ LoseAnswer(c) \/ Cancel(c) \/ Crash(c) PROVE Taken
    BY Zenon, <2>3 DEF Proceed, Refresh, TryAcquire, HandlerReturns, Send, Receive, LoseAnswer, Cancel, Crash
  <2> QED BY Zenon, <2>1, <2>2, <2>3 DEF Next
<1> QED BY Invariant, <1>1, PTL DEF Spec, OnlyOwnerOrExpiry

HIDE DEF InFlight, Answered, Holding

-----------------------------------------------------------------------------
(* RateLimit *)

CONSTANTS Micro, Milli, MaxInt, Rates, Periods, Bursts, Redis, MaxTime
VARIABLES limit, now, tat, until, takes
Limiter == INSTANCE RateLimit WITH log <- takes

\* Multiples of a natural number keep the order and distribute.
LEMMA Multiples ==
    ASSUME NEW d \in Nat, NEW a \in Int, NEW b \in Int
    PROVE  /\ a <= b => d * a <= d * b
           /\ d * (a + b) = d * a + d * b /\ d * (a - b) = d * a - d * b /\ d * a \in Int /\ d * b \in Int
           /\ d * 0 = 0 /\ d * 1 = d
BY SMTT(30)

\* What \\div and % compute.
LEMMA Division ==
    ASSUME NEW v \in Nat, NEW d \in Nat \ {0}
    PROVE  \E q \in Nat, r \in 0..(d - 1) : q = v \div d /\ r = v % d /\ v = d * q + r
<1>1. PICK q \in Nat, r \in 0..(d - 1) : q = v \div d /\ r = v % d
  OBVIOUS
<1>2. v = d * q + r
  BY <1>1
<1> QED BY Zenon, <1>1, <1>2

\* Rounding up covers the whole, and is positive unless the whole is 0.
LEMMA RoundsUp ==
    ASSUME NEW v \in Nat, NEW d \in Nat \ {0}
    PROVE  Limiter!Ceil(v, d) \in Nat /\ d * Limiter!Ceil(v, d) >= v /\ (v > 0 => Limiter!Ceil(v, d) > 0)
<1>1. PICK q \in Nat, r \in 0..(d - 1) : q = v \div d /\ r = v % d /\ v = d * q + r
  BY Zenon, Division
<1>2. d * q \in Nat /\ d * (q + 1) = d * q + d /\ d * 0 = 0
  BY SMTT(30)
<1>3. Limiter!Ceil(v, d) = IF r # 0 THEN q + 1 ELSE q
  BY <1>1 DEF Limiter!Ceil
<1> QED BY <1>1, <1>2, <1>3

\* A limit has a positive rate, period and burst (limit.go rejects others), and clocks
\* have microseconds and milliseconds.
RateConstants ==
    Micro \in Nat \ {0} /\ Milli \in Nat \ {0} /\ MaxInt \in Nat
    /\ Rates \subseteq Nat \ {0} /\ Periods \subseteq Nat \ {0} /\ Bursts \subseteq Nat \ {0}

\* The interval between two units and the length of a burst, for the limit in force.
Gap == Limiter!Interval(limit)
Slack == Limiter!BurstOffset(limit)

\* They are what the rate, the period and the burst make them.
LEMMA LimitFacts ==
    ASSUME RateConstants, limit \in Limiter!Limits
    PROVE  /\ limit.rate \in Nat \ {0} /\ limit.period \in Nat \ {0} /\ limit.burst \in Nat \ {0}
           /\ Gap \in Nat \ {0} /\ Slack = Gap * limit.burst /\ Slack \in Nat
           /\ limit.period <= limit.rate * (Micro * Gap)
           /\ Slack <= MaxInt \div Micro /\ MaxInt \div Micro \in Nat /\ Micro * (MaxInt \div Micro) <= MaxInt
<1>1. limit.rate \in Nat \ {0} /\ limit.period \in Nat \ {0} /\ limit.burst \in Nat \ {0}
  BY Zenon DEF RateConstants, Limiter!Limits
<1> DEFINE c == Limiter!Ceil(limit.period, limit.rate)
<1>2. c \in Nat \ {0} /\ limit.rate * c >= limit.period
  <2>1. limit.period \in Nat /\ limit.period > 0
    BY <1>1
  <2> HIDE DEF c
  <2> QED BY <1>1, <2>1, RoundsUp DEF c
<1>3. Gap \in Nat \ {0} /\ Micro * Gap >= c
  <2> HIDE DEF c
  <2>1. Gap = Limiter!Ceil(c, Micro)
    BY Zenon DEF Gap, Limiter!Interval, c
  <2>2. c \in Nat /\ c > 0
    BY <1>2
  <2> QED BY <2>1, <2>2, RoundsUp DEF RateConstants
<1>4. limit.rate * c <= limit.rate * (Micro * Gap)
  <2>1. Micro * Gap \in Int
    BY <1>3 DEF RateConstants
  <2> HIDE DEF c
  <2> QED BY <1>1, <1>2, <1>3, <2>1, Multiples
<1>5. limit.period <= limit.rate * (Micro * Gap)
  <2> HIDE DEF c
  <2>1. limit.rate * c \in Int
    BY <1>1, <1>2
  <2>2. limit.rate * (Micro * Gap) \in Int
    BY <1>1, <1>3 DEF RateConstants
  <2> QED BY <1>1, <1>2, <1>4, <2>1, <2>2
<1>6. Slack = Gap * limit.burst /\ Slack \in Nat
  BY <1>1, <1>3 DEF Slack, Gap, Limiter!BurstOffset
<1>7. Slack <= MaxInt \div Micro
  BY Zenon DEF Limiter!Limits, Limiter!Validate, Slack
<1>8. MaxInt \div Micro \in Nat /\ Micro * (MaxInt \div Micro) <= MaxInt
  <2>1. PICK q \in Nat, r \in 0..(Micro - 1) : q = MaxInt \div Micro /\ r = MaxInt % Micro /\ MaxInt = Micro * q + r
    BY Zenon, Division DEF RateConstants
  <2>2. Micro * q <= MaxInt
    BY <2>1 DEF RateConstants
  <2> QED BY Zenon, <2>1, <2>2
<1> QED BY Zenon, <1>1, <1>3, <1>5, <1>6, <1>7, <1>8

\* An allowed request: its time and the units before and after it.
Take == [time : Nat, from : Nat, to : Nat]

\* The fields of the takes in the log.
LEMMA TakeFields ==
    ASSUME NEW s \in Seq(Take), NEW i \in 1..Len(s)
    PROVE  s[i].time \in Nat /\ s[i].from \in Nat /\ s[i].to \in Nat
<1>1. s[i] \in Take
  OBVIOUS
<1> QED BY Zenon, <1>1 DEF Take

\* Every variable has the values its place allows.
RateTypeOK ==
    /\ limit \in Limiter!Limits /\ now \in Nat /\ tat \in Nat /\ until \in Nat
    /\ takes \in Seq(Take)

\* The store keeps an arrival time until it has passed, and it is at most a burst ahead.
Kept == tat <= until /\ tat <= now + Slack

\* Every unit allowed since a take has moved the arrival time on by an interval.
Paid ==
    \A i \in 1..Len(takes) :
        /\ takes[i].time <= now
        /\ takes[i].time + Gap * (Limiter!Total - takes[i].from) <= tat

\* The units allowed in any window fit the window and a burst.
Windows ==
    \A i, j \in 1..Len(takes) : i <= j =>
        /\ takes[i].time <= takes[j].time
        /\ Gap * (takes[j].to - takes[i].from) <= takes[j].time + Slack - takes[i].time

\* The inductive invariant.
RateInv == RateTypeOK /\ Kept /\ Paid /\ Windows

\* No request was made at first.
LEMMA RateInit == ASSUME RateConstants PROVE Limiter!Init => RateInv
<1> SUFFICES ASSUME Limiter!Init PROVE RateInv
  BY Zenon
<1>1. takes = <<>> /\ Len(takes) = 0
  BY Zenon DEF Limiter!Init
<1>2. RateTypeOK
  BY <1>1 DEF Limiter!Init, RateTypeOK
<1>3. Kept
  BY <1>2, LimitFacts DEF Limiter!Init, RateTypeOK, Kept
<1>4. Paid /\ Windows
  BY <1>1 DEF Paid, Windows
<1> QED BY Zenon, <1>2, <1>3, <1>4 DEF RateInv

\* A dropped arrival time had passed.
LEMMA FromStored == ASSUME RateInv PROVE /\ Limiter!From(Limiter!Stored, now) = Limiter!From(tat, now)
                                         /\ Limiter!Stored \in {0, tat} /\ Limiter!Stored \in Nat
<1>1. tat \in Nat /\ until \in Nat /\ now \in Nat /\ tat <= until
  BY Zenon DEF RateInv, RateTypeOK, Kept
<1> QED BY <1>1 DEF Limiter!From, Limiter!Stored

\* An allowed request moves the arrival time on, and keeps the invariant.
LEMMA RateTakes ==
    ASSUME RateConstants, RateInv, NEW cost \in 1..limit.burst, Limiter!MemoryTake(cost) \/ Limiter!RedisTake(cost)
    PROVE  RateInv'
<1> DEFINE at == Limiter!After(Limiter!Stored, now, cost)
           e == [time |-> now, from |-> Limiter!Total, to |-> Limiter!Total + cost]
<1>0. now \in Nat /\ tat \in Nat /\ until \in Nat /\ cost \in Nat \ {0} /\ limit \in Limiter!Limits
      /\ takes \in Seq(Take)
  <2>1. limit.burst \in Nat
    BY Zenon, LimitFacts DEF RateInv, RateTypeOK
  <2> QED BY <2>1 DEF RateInv, RateTypeOK
<1>1. Gap \in Nat \ {0} /\ Slack \in Nat /\ Gap * cost \in Nat
  <2>1. Gap \in Nat \ {0} /\ Slack \in Nat
    BY Zenon, <1>0, LimitFacts
  <2> QED BY <1>0, <2>1
<1>2. at \in Nat /\ at >= tat + Gap * cost /\ at >= now + Gap * cost /\ at <= now + Slack
  <2>1. at = Limiter!From(tat, now) + Gap * cost
    BY Zenon, FromStored DEF Limiter!After, Gap
  <2>2. at <= now + Slack
    BY Zenon DEF Limiter!MemoryTake, Limiter!RedisTake, Limiter!Allowed, Slack
  <2> HIDE DEF at
  <2> QED BY <1>0, <1>1, <2>1, <2>2 DEF Limiter!From
<1>3. /\ tat' = at /\ until' \in Nat /\ until' >= at /\ takes' = Append(takes, e) /\ UNCHANGED <<limit, now>>
  <2>1. tat' = at /\ takes' = Append(takes, e) /\ UNCHANGED <<limit, now>>
    BY Zenon DEF Limiter!MemoryTake, Limiter!RedisTake, Limiter!Store
  <2>2. CASE Limiter!MemoryTake(cost)
    <3>1. until' = at
      BY Zenon, <2>2 DEF Limiter!MemoryTake, Limiter!Store
    <3> HIDE DEF at, e
    <3> QED BY <1>2, <2>1, <3>1
  <2>3. CASE Limiter!RedisTake(cost)
    <3>1. until' = now + Limiter!PX(at - now)
      BY Zenon, <2>3 DEF Limiter!RedisTake, Limiter!Store
    <3> HIDE DEF at, e
    <3>2. at - now \in Nat
      BY <1>0, <1>1, <1>2
    <3>3. Limiter!Ceil(at - now, Milli) \in Nat /\ Milli * Limiter!Ceil(at - now, Milli) >= at - now
      BY Zenon, <3>2, RoundsUp DEF RateConstants
    <3>4. \A q \in Nat : q * Milli = Milli * q /\ q * Milli \in Nat
      BY DEF RateConstants
    <3>5. Limiter!PX(at - now) \in Nat /\ Limiter!PX(at - now) >= at - now
      BY Zenon, <3>3, <3>4 DEF Limiter!PX
    <3> QED BY <1>0, <1>2, <2>1, <3>1, <3>5
  <2> QED BY Zenon, <2>2, <2>3
<1>4. Limiter!Total \in Nat
  <2>1. CASE takes = <<>>
    BY Zenon, <2>1 DEF Limiter!Total
  <2>2. CASE takes # <<>>
    <3>1. Len(takes) \in 1..Len(takes)
      BY <1>0, <2>2
    <3> QED BY Zenon, <1>0, <2>2, <3>1, TakeFields DEF Limiter!Total
  <2> QED BY Zenon, <2>1, <2>2
<1> HIDE DEF at
<1>5. e \in Take /\ e.time = now /\ e.from = Limiter!Total /\ e.to = Limiter!Total + cost
  BY <1>0, <1>4 DEF Take
<1> HIDE DEF e
<1>6. /\ takes' \in Seq(Take) /\ Len(takes') = Len(takes) + 1 /\ Len(takes) \in Nat
      /\ takes'[Len(takes) + 1] = e /\ \A i \in 1..Len(takes) : takes'[i] = takes[i]
  BY <1>0, <1>3, <1>5
<1>7. Limiter!Total' = Limiter!Total + cost
  <2>1. takes' # <<>>
    BY <1>6
  <2> QED BY Zenon, <1>5, <1>6, <2>1 DEF Limiter!Total
<1>8. RateTypeOK'
  BY Zenon, <1>0, <1>2, <1>3, <1>6 DEF RateTypeOK
<1>9. Gap' = Gap /\ Slack' = Slack
  BY Zenon, <1>3 DEF Gap, Slack
<1>10. Kept'
  BY Zenon, <1>2, <1>3, <1>9 DEF Kept
<1>11. ASSUME NEW i \in 1..Len(takes')
       PROVE  /\ takes'[i].time \in Nat /\ takes'[i].from \in Nat /\ takes'[i].to \in Nat /\ takes'[i].time <= now
              /\ Gap * (Limiter!Total' - takes'[i].from) \in Int
              /\ takes'[i].time + Gap * (Limiter!Total' - takes'[i].from) <= at
  <2>0. takes'[i].time \in Nat /\ takes'[i].from \in Nat /\ takes'[i].to \in Nat
    BY Zenon, <1>6, TakeFields
  <2>1. CASE i \in 1..Len(takes)
    <3>1. takes'[i] = takes[i] /\ takes[i].time <= now /\ takes[i].time + Gap * (Limiter!Total - takes[i].from) <= tat
      BY Zenon, <1>6, <2>1 DEF RateInv, Paid
    <3>2. Limiter!Total' - takes'[i].from = (Limiter!Total - takes[i].from) + cost /\ Limiter!Total - takes[i].from \in Int
      <4>1. PICK f \in Nat : f = takes[i].from
        BY Zenon, <2>0, <3>1
      <4>2. PICK k \in Nat : k = cost
        BY Zenon, <1>0
      <4>3. PICK l \in Nat : l = Limiter!Total
        BY Zenon, <1>4
      <4>4. (l + k) - f = (l - f) + k /\ l - f \in Int
        BY ONLY f \in Nat, k \in Nat, l \in Nat
      <4> QED BY Zenon, <1>7, <3>1, <4>1, <4>2, <4>3, <4>4
    <3>3. /\ Gap * (Limiter!Total' - takes'[i].from) = Gap * (Limiter!Total - takes[i].from) + Gap * cost
          /\ Gap * (Limiter!Total - takes[i].from) \in Int
      BY <1>0, <1>1, <3>2, Multiples
    <3>4. PICK x \in Int : x = Gap * (Limiter!Total - takes[i].from)
      BY Zenon, <3>3
    <3>5. PICK y \in Nat : y = Gap * cost
      BY Zenon, <1>1
    <3>6. takes[i].time + x <= tat /\ Gap * (Limiter!Total' - takes'[i].from) = x + y
      BY Zenon, <3>1, <3>3, <3>4, <3>5
    <3>7. at \in Nat /\ at >= tat + y
      BY Zenon, <1>2, <3>5
    <3>8. takes'[i].time + (x + y) <= at /\ takes'[i].time <= now /\ x + y \in Int
      <4>1. PICK s \in Nat : s = takes[i].time
        BY Zenon, <2>0, <3>1
      <4>2. PICK b \in Nat : b = tat
        BY Zenon, <1>0
      <4>3. s + x <= b /\ at >= b + y
        BY Zenon, <3>6, <3>7, <4>1, <4>2
      <4>4. s + (x + y) <= at /\ x + y \in Int
        BY ONLY <3>7, <4>3, x \in Int, y \in Nat, s \in Nat, b \in Nat
      <4> QED BY Zenon, <3>1, <4>1, <4>4
    <3> QED BY Zenon, <2>0, <3>6, <3>8
  <2>2. CASE i = Len(takes) + 1
    <3>1. takes'[i].time = now /\ Limiter!Total' - takes'[i].from = cost
      BY <1>0, <1>4, <1>5, <1>6, <1>7, <2>2
    <3> QED BY <1>0, <1>1, <1>2, <2>0, <3>1
  <2> QED BY <1>6, <2>1, <2>2
<1>12. Paid'
  <2> SUFFICES ASSUME NEW i \in 1..Len(takes')
               PROVE  takes'[i].time <= now' /\ takes'[i].time + Gap' * (Limiter!Total' - takes'[i].from) <= tat'
    BY Zenon DEF Paid
  <2> QED BY Zenon, <1>3, <1>9, <1>11
<1>13. Windows'
  <2> SUFFICES ASSUME NEW i \in 1..Len(takes'), NEW j \in 1..Len(takes'), i <= j
               PROVE  /\ takes'[i].time <= takes'[j].time
                      /\ Gap' * (takes'[j].to - takes'[i].from) <= takes'[j].time + Slack' - takes'[i].time
    BY Zenon DEF Windows
  <2>1. CASE j \in 1..Len(takes)
    <3>1. i \in 1..Len(takes)
      BY <1>6, <2>1
    <3> QED BY Zenon, <1>6, <1>9, <2>1, <3>1 DEF RateInv, Windows
  <2>2. CASE j = Len(takes) + 1
    <3>1. takes'[j].time = now /\ takes'[j].to = Limiter!Total'
      BY Zenon, <1>5, <1>6, <1>7, <2>2
    <3>2. PICK x \in Int : x = Gap * (Limiter!Total' - takes'[i].from)
      BY Zenon, <1>11
    <3>3. takes'[i].time + x <= at /\ takes'[i].time \in Nat /\ takes'[i].time <= now
      BY Zenon, <1>11, <3>2
    <3>4. x <= now + Slack - takes'[i].time
      <4>1. PICK y \in Nat : y = takes'[i].time
        BY Zenon, <3>3
      <4>2. y + x <= at /\ at \in Nat /\ at <= now + Slack /\ now \in Nat /\ Slack \in Nat
        BY Zenon, <1>0, <1>1, <1>2, <3>3, <4>1
      <4>3. x <= now + Slack - y
        BY ONLY <4>2, x \in Int, y \in Nat
      <4> QED BY Zenon, <4>1, <4>3
    <3> QED BY Zenon, <1>9, <3>1, <3>2, <3>3, <3>4
  <2> QED BY <1>6, <2>1, <2>2
<1> QED BY Zenon, <1>8, <1>10, <1>12, <1>13 DEF RateInv

\* Every step keeps the invariant.
LEMMA RateStep == ASSUME RateConstants PROVE RateInv /\ [Limiter!Next]_(Limiter!vars) => RateInv'
<1> SUFFICES ASSUME RateInv, [Limiter!Next]_(Limiter!vars) PROVE RateInv'
  BY Zenon
<1>0. limit \in Limiter!Limits /\ now \in Nat /\ tat \in Nat
  BY Zenon DEF RateInv, RateTypeOK
<1>a. Slack \in Nat
  BY Zenon, <1>0, LimitFacts
<1>1. CASE Limiter!AllowN
  BY Zenon, <1>1, RateTakes DEF Limiter!AllowN
<1>2. CASE Limiter!Reset
  <2>1. takes' = <<>> /\ Len(takes') = 0 /\ tat' = 0 /\ until' = 0 /\ UNCHANGED <<limit, now>>
    BY Zenon, <1>2 DEF Limiter!Reset
  <2>2. RateTypeOK'
    BY <2>1 DEF RateInv, RateTypeOK
  <2>3. Slack' = Slack
    BY Zenon, <2>1 DEF Slack
  <2>4. Kept'
    <3>1. tat' <= until' /\ tat' <= now' + Slack
      BY <1>0, <1>a, <2>1
    <3> QED BY Zenon, <2>3, <3>1 DEF Kept
  <2>5. Paid' /\ Windows'
    BY <2>1 DEF Paid, Windows
  <2> QED BY Zenon, <2>2, <2>4, <2>5 DEF RateInv
<1>3. CASE Limiter!Tick \/ UNCHANGED Limiter!vars
  <2>1. now' \in Nat /\ now' >= now /\ UNCHANGED <<limit, tat, until, takes>>
    BY <1>3 DEF Limiter!Tick, Limiter!vars, RateInv, RateTypeOK
  <2>2. RateTypeOK'
    BY Zenon, <2>1 DEF RateInv, RateTypeOK
  <2>3. Gap' = Gap /\ Slack' = Slack /\ Limiter!Total' = Limiter!Total
    BY Zenon, <2>1 DEF Gap, Slack, Limiter!Total
  <2>5. Kept'
    <3>1. tat <= until /\ tat <= now + Slack
      BY Zenon DEF RateInv, Kept
    <3>2. PICK s \in Nat : s = Slack
      BY Zenon, <1>a
    <3>3. PICK n \in Nat : n = now' /\ n >= now
      BY Zenon, <2>1
    <3>4. tat <= n + s
      <4>1. tat <= now + s /\ n >= now
        BY Zenon, <3>1, <3>2, <3>3
      <4> QED BY <1>0, <4>1
    <3> QED BY <2>1, <2>3, <3>1, <3>2, <3>3, <3>4, Zenon DEF Kept
  <2>6. \A i \in 1..Len(takes) : takes[i].time \in Nat
    BY Zenon, TakeFields DEF RateInv, RateTypeOK
  <2>7. Paid'
    <3> SUFFICES ASSUME NEW i \in 1..Len(takes)
                 PROVE  takes[i].time <= now' /\ takes[i].time + Gap * (Limiter!Total - takes[i].from) <= tat
      BY Zenon, <2>1, <2>3 DEF Paid
    <3>1. takes[i].time <= now /\ takes[i].time + Gap * (Limiter!Total - takes[i].from) <= tat
      BY Zenon DEF RateInv, Paid
    <3> QED BY <1>0, <2>1, <2>6, <3>1
  <2>8. Windows'
    BY Zenon, <2>1, <2>3 DEF RateInv, Windows
  <2> QED BY Zenon, <2>2, <2>5, <2>7, <2>8 DEF RateInv
<1> QED BY Zenon, <1>1, <1>2, <1>3 DEF Limiter!Next

\* What the decisions are computed from, as numbers.
LEMMA DecisionFacts ==
    ASSUME RateConstants, RateInv
    PROVE  /\ now \in Nat /\ Limiter!Stored \in Nat /\ limit.burst \in Nat \ {0}
           /\ Gap \in Nat \ {0} /\ Slack \in Nat /\ Slack = Gap * limit.burst
           /\ Limiter!Stored <= now + Slack
           /\ \A c \in 1..limit.burst : Gap * c \in Nat /\ Gap * c <= Slack
<1>1. now \in Nat /\ tat \in Nat /\ limit \in Limiter!Limits /\ tat <= now + Slack
  BY Zenon DEF RateInv, RateTypeOK, Kept
<1>2. limit.burst \in Nat \ {0} /\ Gap \in Nat \ {0} /\ Slack \in Nat /\ Slack = Gap * limit.burst
  BY Zenon, <1>1, LimitFacts
<1>3. Limiter!Stored \in Nat /\ Limiter!Stored <= now + Slack
  BY <1>1, <1>2 DEF Limiter!Stored
<1>4. ASSUME NEW c \in 1..limit.burst PROVE Gap * c \in Nat /\ Gap * c <= Slack
  <2>1. c \in Int /\ c <= limit.burst /\ limit.burst \in Int /\ c \in Nat
    BY <1>2
  <2>2. Gap * c <= Gap * limit.burst
    BY Zenon, <1>2, <2>1, Multiples
  <2>3. Gap * c \in Nat
    BY <1>2, <2>1
  <2> QED BY Zenon, <1>2, <2>2, <2>3
<1> QED BY Zenon, <1>1, <1>2, <1>3, <1>4

\* Allowed, in terms of the numbers.
LEMMA AllowedMeans ==
    ASSUME NEW s, NEW t, NEW c
    PROVE  Limiter!Allowed(s, t, c) <=> (IF s > t THEN s ELSE t) + Gap * c <= t + Slack
BY Zenon DEF Limiter!Allowed, Limiter!After, Limiter!From, Gap, Slack

\* RetryAfter is the least wait after which the request is allowed.
LEMMA RetryIsExact == ASSUME RateConstants, RateInv PROVE Limiter!RetryAfterIsExact
<1> SUFFICES ASSUME NEW c \in 1..limit.burst, ~Limiter!Allowed(Limiter!Stored, now, c)
             PROVE  LET at == now + Limiter!RetryAfter(Limiter!Stored, now, c) IN
                    /\ Limiter!Allowed(Limiter!Stored, at, c)
                    /\ \A t \in now..(at - 1) : ~Limiter!Allowed(Limiter!Stored, t, c)
  BY Zenon DEF Limiter!RetryAfterIsExact
<1>1. PICK s \in Nat, x \in Nat, b \in Nat : s = Limiter!Stored /\ x = Gap * c /\ b = Slack /\ x <= b /\ now \in Nat
  BY Zenon, DecisionFacts
<1>2. s > now /\ s + x > now + b
  <2>1. ~((IF s > now THEN s ELSE now) + x <= now + b)
    BY Zenon, <1>1, AllowedMeans
  <2> QED BY <1>1, <2>1
<1>3. Limiter!RetryAfter(Limiter!Stored, now, c) = s + x - b - now
  BY <1>1, <1>2 DEF Limiter!RetryAfter, Limiter!After, Limiter!From, Gap, Slack
<1>4. PICK at \in Int : at = now + Limiter!RetryAfter(Limiter!Stored, now, c) /\ at = s + x - b
  BY <1>1, <1>3
<1>5. Limiter!Allowed(Limiter!Stored, at, c)
  <2>1. (IF s > at THEN s ELSE at) + x <= at + b
    BY <1>1, <1>4
  <2> QED BY Zenon, <1>1, <2>1, AllowedMeans
<1>6. ASSUME NEW t \in now..(at - 1) PROVE ~Limiter!Allowed(Limiter!Stored, t, c)
  <2>1. ~((IF s > t THEN s ELSE t) + x <= t + b)
    BY <1>1, <1>4
  <2> QED BY Zenon, <1>1, <2>1, AllowedMeans
<1> QED BY Zenon, <1>4, <1>5, <1>6

\* ResetAfter is the least wait after which the full burst is allowed.
LEMMA ResetIsExact == ASSUME RateConstants, RateInv PROVE Limiter!ResetAfterIsExact
<1>1. PICK s \in Nat, b \in Nat : s = Limiter!Stored /\ b = Slack /\ b = Gap * limit.burst /\ now \in Nat
  BY Zenon, DecisionFacts
<1>2. PICK at \in Nat : at = Limiter!From(Limiter!Stored, now) /\ at = IF s > now THEN s ELSE now
  BY Zenon, <1>1 DEF Limiter!From
<1>3. now + Limiter!ResetAfter(Limiter!From(Limiter!Stored, now), now) = at
  BY <1>1, <1>2 DEF Limiter!ResetAfter
<1>4. Limiter!Allowed(Limiter!Stored, at, limit.burst)
  <2>1. (IF s > at THEN s ELSE at) + b <= at + b
    BY <1>1, <1>2
  <2> QED BY Zenon, <1>1, <2>1, AllowedMeans
<1>5. ASSUME NEW t \in now..(at - 1) PROVE ~Limiter!Allowed(Limiter!Stored, t, limit.burst)
  <2>1. ~((IF s > t THEN s ELSE t) + b <= t + b)
    BY <1>1, <1>2
  <2> QED BY Zenon, <1>1, <2>1, AllowedMeans
<1> QED BY Zenon, <1>3, <1>4, <1>5 DEF Limiter!ResetAfterIsExact

\* Remaining rounds the time left of the burst down to whole intervals.
LEMMA RemainingMeans ==
    ASSUME RateConstants, RateInv, NEW at \in Nat, at >= now
    PROVE  /\ Limiter!Remaining(at, now) \in 0..limit.burst
           /\ Limiter!Remaining(at, now) > 0 => at + Gap * Limiter!Remaining(at, now) <= now + Slack
           /\ at + Gap * (Limiter!Remaining(at, now) + 1) > now + Slack
<1>1. now \in Nat /\ limit.burst \in Nat \ {0} /\ Gap \in Nat \ {0} /\ Slack \in Nat /\ Slack = Gap * limit.burst
  BY Zenon, DecisionFacts
<1>2. CASE now + Slack <= at
  <2>1. Limiter!Remaining(at, now) = 0
    BY Zenon, <1>2 DEF Limiter!Remaining, Slack
  <2>2. Gap * (0 + 1) = Gap
    BY <1>1
  <2>3. at + Gap > now + Slack
    <3>1. PICK g \in Nat \ {0}, b \in Nat : g = Gap /\ b = Slack
      BY Zenon, <1>1
    <3> QED BY <1>1, <1>2, <3>1
  <2> QED BY <1>1, <2>1, <2>2, <2>3
<1>3. CASE ~(now + Slack <= at)
  <2>1. PICK v \in Nat : v = now + Slack - at /\ v <= Slack
    <3>1. PICK b \in Nat : b = Slack
      BY Zenon, <1>1
    <3>2. now + b - at \in Nat /\ now + b - at <= b
      BY <1>1, <1>3, <3>1
    <3> QED BY Zenon, <3>1, <3>2
  <2>2. PICK q \in Nat, r \in 0..(Gap - 1) : q = v \div Gap /\ r = v % Gap /\ v = Gap * q + r
    BY Zenon, <1>1, Division
  <2>3. Limiter!Remaining(at, now) = q
    BY Zenon, <1>3, <2>1, <2>2 DEF Limiter!Remaining, Slack, Gap
  <2>4. Gap * q \in Nat /\ Gap * (q + 1) = Gap * q + Gap
    BY <1>1, SMTT(30)
  <2>5. Gap * q <= v /\ v < Gap * (q + 1)
    <3>1. PICK g \in Nat, x \in Nat : g = Gap /\ x = Gap * q
      BY Zenon, <1>1, <2>4
    <3>2. v = x + r /\ r \in 0..(g - 1) /\ Gap * (q + 1) = x + g
      BY Zenon, <2>2, <2>4, <3>1
    <3>3. x <= v /\ v < x + g
      BY <3>1, <3>2
    <3> QED BY Zenon, <3>1, <3>2, <3>3
  <2>6. q <= limit.burst
    <3>1. SUFFICES ASSUME limit.burst + 1 <= q PROVE FALSE
      BY <1>1
    <3>2. Gap * (limit.burst + 1) <= Gap * q /\ Gap * (limit.burst + 1) = Gap * limit.burst + Gap
      <4>1. limit.burst + 1 \in Int /\ q \in Int /\ limit.burst \in Int /\ Gap \in Nat
        BY <1>1
      <4>2. Gap * (limit.burst + 1) <= Gap * q
        BY Zenon, <3>1, <4>1, Multiples
      <4>3. Gap * (limit.burst + 1) = Gap * limit.burst + Gap * 1 /\ Gap * 1 = Gap
        BY <4>1, Multiples
      <4> QED BY Zenon, <4>2, <4>3
    <3>3. PICK g \in Nat \ {0}, b \in Nat, x \in Nat : g = Gap /\ b = Slack /\ x = Gap * q
      BY Zenon, <1>1, <2>4
    <3>4. b + g <= x /\ x <= v /\ v <= b
      BY Zenon, <1>1, <2>1, <2>5, <3>2, <3>3
    <3> QED BY <3>3, <3>4
  <2>7. at + Gap * q <= now + Slack /\ at + Gap * (q + 1) > now + Slack
    <3>1. PICK b \in Nat, x \in Nat, y \in Nat : b = Slack /\ x = Gap * q /\ y = Gap * (q + 1)
      BY <1>1, <2>4
    <3>2. x <= v /\ v < y /\ v = now + b - at
      BY Zenon, <2>1, <2>5, <3>1
    <3>3. at + x <= now + b /\ at + y > now + b
      BY <1>1, <3>1, <3>2
    <3> QED BY Zenon, <3>1, <3>3
  <2> QED BY <1>1, <2>3, <2>6, <2>7
<1> QED BY Zenon, <1>2, <1>3

\* Remaining is the most that is allowed now.
LEMMA RemainingExact == ASSUME RateConstants, RateInv PROVE Limiter!RemainingIsExact
<1>1. PICK s \in Nat, b \in Nat : s = Limiter!Stored /\ b = Slack /\ now \in Nat
  BY Zenon, DecisionFacts
<1>2. PICK at \in Nat : at = Limiter!From(Limiter!Stored, now) /\ at = (IF s > now THEN s ELSE now) /\ at >= now
  BY <1>1 DEF Limiter!From
<1>3. PICK n \in 0..limit.burst : n = Limiter!Remaining(at, now)
                                  /\ (n > 0 => at + Gap * n <= now + Slack) /\ at + Gap * (n + 1) > now + Slack
  BY Zenon, <1>2, RemainingMeans
<1>4. limit.burst \in Nat /\ n \in Nat /\ n <= limit.burst
  BY DecisionFacts
<1>5. n > 0 => Limiter!Allowed(Limiter!Stored, now, n)
  BY Zenon, <1>1, <1>2, <1>3, AllowedMeans
<1>6. ~Limiter!Allowed(Limiter!Stored, now, n + 1)
  <2>1. PICK y \in Nat : y = Gap * (n + 1)
    BY <1>4, DecisionFacts
  <2>2. ~(at + y <= now + b)
    BY <1>1, <1>2, <1>3, <2>1
  <2> QED BY Zenon, <1>1, <1>2, <2>1, <2>2, AllowedMeans
<1> QED BY Zenon, <1>2, <1>3, <1>4, <1>5, <1>6 DEF Limiter!RemainingIsExact

\* The durations of a decision, in microseconds, are at most the burst's.
LEMMA DurationsBounded ==
    ASSUME RateConstants, RateInv
    PROVE  /\ Limiter!ResetAfter(Limiter!From(Limiter!Stored, now), now) \in 0..Slack
           /\ \A c \in 1..limit.burst :
                IF Limiter!Allowed(Limiter!Stored, now, c)
                THEN /\ Limiter!After(Limiter!Stored, now, c) \in Nat /\ Limiter!After(Limiter!Stored, now, c) >= now
                     /\ Limiter!ResetAfter(Limiter!After(Limiter!Stored, now, c), now) \in 0..Slack
                ELSE Limiter!RetryAfter(Limiter!Stored, now, c) \in 0..Slack
<1>1. PICK s \in Nat, b \in Nat : s = Limiter!Stored /\ b = Slack /\ now \in Nat /\ s <= now + b
  BY Zenon, DecisionFacts
<1>2. Limiter!ResetAfter(Limiter!From(Limiter!Stored, now), now) \in 0..Slack
  <2>1. (IF s > now THEN s ELSE now) - now \in 0..b
    BY <1>1
  <2> QED BY Zenon, <1>1, <2>1 DEF Limiter!ResetAfter, Limiter!From
<1>3. ASSUME NEW c \in 1..limit.burst
      PROVE  IF Limiter!Allowed(Limiter!Stored, now, c)
             THEN /\ Limiter!After(Limiter!Stored, now, c) \in Nat /\ Limiter!After(Limiter!Stored, now, c) >= now
                  /\ Limiter!ResetAfter(Limiter!After(Limiter!Stored, now, c), now) \in 0..Slack
             ELSE Limiter!RetryAfter(Limiter!Stored, now, c) \in 0..Slack
  <2>1. PICK x \in Nat : x = Gap * c /\ x <= b
    BY Zenon, <1>1, DecisionFacts
  <2>2. PICK at \in Nat : at = Limiter!After(Limiter!Stored, now, c) /\ at = (IF s > now THEN s ELSE now) + x
    BY <1>1, <2>1 DEF Limiter!After, Limiter!From, Gap
  <2>3. at >= now /\ (at <= now + b => at - now \in 0..b) /\ (~(at <= now + b) => at - b - now \in 0..b)
    BY <1>1, <2>1, <2>2
  <2>4. Limiter!Allowed(Limiter!Stored, now, c) <=> at <= now + b
    BY Zenon, <1>1, <2>2 DEF Limiter!Allowed, Slack
  <2>5. Limiter!ResetAfter(at, now) = at - now /\ Limiter!RetryAfter(Limiter!Stored, now, c) = at - b - now
    BY Zenon, <1>1, <2>2 DEF Limiter!ResetAfter, Limiter!RetryAfter, Slack
  <2>6. CASE at <= now + b
    BY Zenon, <1>1, <2>2, <2>3, <2>4, <2>5, <2>6
  <2>7. CASE ~(at <= now + b)
    BY Zenon, <1>1, <2>2, <2>3, <2>4, <2>5, <2>7
  <2> QED BY Zenon, <2>6, <2>7
<1> QED BY Zenon, <1>2, <1>3

\* The durations are those of an int64.
LEMMA DurationsDoFit == ASSUME RateConstants, RateInv PROVE Limiter!DurationsFit
<1>1. ASSUME NEW d \in 0..Slack PROVE d * Micro <= MaxInt
  <2>1. PICK q \in Nat : q = MaxInt \div Micro /\ Slack <= q /\ Micro * q <= MaxInt /\ Slack \in Nat
    BY Zenon, LimitFacts DEF RateInv, RateTypeOK
  <2>2. d \in Nat /\ d <= q
    BY <2>1
  <2>3. Micro * d <= Micro * q /\ Micro * d \in Int /\ Micro * q \in Int
    BY <2>2, Multiples DEF RateConstants
  <2>4. d * Micro = Micro * d
    BY <2>2 DEF RateConstants
  <2>5. PICK x \in Int, y \in Int : x = Micro * d /\ y = Micro * q
    BY Zenon, <2>3
  <2>6. x <= MaxInt
    BY <2>1, <2>3, <2>5 DEF RateConstants
  <2> QED BY Zenon, <2>4, <2>5, <2>6
<1> QED BY Zenon, <1>1, DurationsBounded DEF Limiter!DurationsFit

\* What the script answers is what the client parses.
LEMMA AnswersParse == ASSUME RateConstants, RateInv PROVE Limiter!DecisionParses
<1> SUFFICES ASSUME NEW c \in 1..limit.burst PROVE Limiter!ParseDecision(Limiter!Script(c))
  BY Zenon DEF Limiter!DecisionParses
<1>1. PICK q \in Nat : q = MaxInt \div Micro /\ Slack <= q /\ Slack \in Nat
  BY Zenon, LimitFacts DEF RateInv, RateTypeOK
<1>2. \A d \in 0..Slack : d \in 0..q
  BY <1>1
<1>3. now \in Nat /\ Limiter!Stored \in Nat
  BY Zenon, DecisionFacts
<1>4. CASE Limiter!Allowed(Limiter!Stored, now, c)
  <2>1. PICK at \in Nat : at = Limiter!After(Limiter!Stored, now, c) /\ at >= now /\ Limiter!ResetAfter(at, now) \in 0..Slack
    BY Zenon, <1>4, DurationsBounded
  <2>2. Limiter!Remaining(at, now) \in 0..limit.burst
    BY Zenon, <2>1, RemainingMeans
  <2>3. Limiter!Script(c) = <<1, Limiter!Remaining(at, now), 0, Limiter!ResetAfter(at, now)>>
    BY Zenon, <1>4, <2>1 DEF Limiter!Script
  <2>4. 0 \in 0..q /\ Limiter!ResetAfter(at, now) \in 0..q
    BY <1>2, <2>1
  <2> QED BY <1>1, <2>2, <2>3, <2>4 DEF Limiter!ParseDecision
<1>5. CASE ~Limiter!Allowed(Limiter!Stored, now, c)
  <2>1. PICK at \in Nat : at = Limiter!From(Limiter!Stored, now) /\ at >= now /\ Limiter!ResetAfter(at, now) \in 0..Slack
    BY <1>3, DurationsBounded DEF Limiter!From
  <2>2. Limiter!Remaining(at, now) \in 0..limit.burst
    BY Zenon, <2>1, RemainingMeans
  <2>3. Limiter!Script(c)
          = <<0, Limiter!Remaining(at, now), Limiter!RetryAfter(Limiter!Stored, now, c), Limiter!ResetAfter(at, now)>>
    BY Zenon, <1>5, <2>1 DEF Limiter!Script
  <2>4. Limiter!RetryAfter(Limiter!Stored, now, c) \in 0..q /\ Limiter!ResetAfter(at, now) \in 0..q
    BY Zenon, <1>2, <1>5, <2>1, DurationsBounded
  <2> QED BY <1>1, <2>2, <2>3, <2>4 DEF Limiter!ParseDecision
<1> QED BY Zenon, <1>4, <1>5

\* Products of three factors, for the rate.
LEMMA RateProduct ==
    ASSUME NEW d \in Int, NEW p \in Nat, NEW r \in Nat, NEW m \in Nat, NEW g \in Nat, NEW t \in Nat,
           p <= r * (m * g), g * d <= t
    PROVE  d * p <= t * m * r
<1> DEFINE k == r * m
<1>1. k \in Nat /\ r * (m * g) = k * g /\ t * m * r = k * t
  BY SMTT(30)
<1> HIDE DEF k
<1>2. CASE d <= 0
  <2>1. d * p <= 0 /\ k * t >= 0
    BY <1>1, <1>2, SMTT(30)
  <2>2. d * p \in Int /\ k * t \in Int
    BY <1>1
  <2> QED BY <1>1, <2>1, <2>2
<1>3. CASE d > 0
  <2>1. d \in Nat /\ k * g \in Int /\ p <= k * g
    BY <1>1, <1>3
  <2>2. d * p <= d * (k * g)
    BY <2>1, Multiples
  <2>3. d * (k * g) = k * (g * d) /\ g * d \in Int
    BY <1>1, SMTT(30)
  <2>4. k * (g * d) <= k * t
    BY <1>1, <2>3, Multiples
  <2>5. PICK x \in Int, y \in Int, z \in Int : x = d * p /\ y = k * (g * d) /\ z = k * t
    BY <1>1, <2>3
  <2>6. x <= z
    BY <2>2, <2>3, <2>4, <2>5
  <2> QED BY Zenon, <1>1, <2>5, <2>6
<1> QED BY <1>2, <1>3

\* No window allows more than its rate and a burst.
LEMMA RateKept == ASSUME RateConstants, RateInv PROVE Limiter!RateIsRespected
<1> SUFFICES ASSUME NEW i \in 1..Len(takes), NEW j \in 1..Len(takes), i <= j
             PROVE  (Limiter!Costs(i, j) - limit.burst) * limit.period <= (takes[j].time - takes[i].time) * Micro * limit.rate
  BY Zenon DEF Limiter!RateIsRespected
<1>1. /\ limit.rate \in Nat /\ limit.period \in Nat /\ limit.burst \in Nat /\ Gap \in Nat /\ Slack \in Nat
      /\ Slack = Gap * limit.burst /\ limit.period <= limit.rate * (Micro * Gap) /\ Micro \in Nat
  BY Zenon, LimitFacts DEF RateInv, RateTypeOK, RateConstants
<1>2. takes[i].time \in Nat /\ takes[i].from \in Nat /\ takes[j].time \in Nat /\ takes[j].to \in Nat
  BY Zenon, TakeFields DEF RateInv, RateTypeOK
<1>3. PICK c \in Int : c = Limiter!Costs(i, j) /\ c = takes[j].to - takes[i].from
  BY <1>2 DEF Limiter!Costs
<1>4. PICK t \in Nat : t = takes[j].time - takes[i].time
  BY <1>2 DEF RateInv, Windows
<1>5. Gap * c <= takes[j].time + Slack - takes[i].time
  BY Zenon, <1>3 DEF RateInv, Windows
<1>6. Gap * (c - limit.burst) <= t
  <2>1. Gap * (c - limit.burst) = Gap * c - Gap * limit.burst /\ Gap * c \in Int
    BY <1>1, Multiples
  <2>2. PICK x \in Int, b \in Nat : x = Gap * c /\ b = Slack
    BY Zenon, <1>1, <2>1
  <2>3. PICK u \in Nat, v \in Nat : u = takes[j].time /\ v = takes[i].time
    BY Zenon, <1>2
  <2>4. x - b <= t
    <3>1. x <= u + b - v
      BY Zenon, <1>5, <2>2, <2>3
    <3>2. t = u - v
      BY Zenon, <1>4, <2>3
    <3> QED BY <3>1, <3>2
  <2> QED BY Zenon, <1>1, <2>1, <2>2, <2>4
<1>7. c - limit.burst \in Int
  BY <1>1
<1>8. (c - limit.burst) * limit.period <= t * Micro * limit.rate
  BY Zenon, <1>1, <1>6, <1>7, RateProduct
<1> QED BY Zenon, <1>3, <1>4, <1>8

\* RateLimit: no more is admitted than the limit, and every decision is true.
DecisionsAreExact == Limiter!DecisionsAreExact

\* ratelimit: every answer of the limiter is exact and no window is given more than its
\* rate and a burst, for every limit, whatever requests come and when.
THEOREM LimiterIsExact == ASSUME RateConstants PROVE Limiter!Spec => []DecisionsAreExact
<1>1. Limiter!Init => RateInv
  BY Zenon, RateInit
<1>2. RateInv /\ [Limiter!Next]_(Limiter!vars) => RateInv'
  BY Zenon, RateStep
<1>3. RateInv => Limiter!DecisionsAreExact
  BY Zenon, RateKept, RetryIsExact, RemainingExact, ResetIsExact, DurationsDoFit, AnswersParse DEF Limiter!DecisionsAreExact
<1> QED BY <1>1, <1>2, <1>3, PTL DEF Limiter!Spec, DecisionsAreExact

-----------------------------------------------------------------------------
(* Canal *)

CONSTANTS Listeners, MaxEvent, FileSize, Threshold, BatchSize
VARIABLES log, canal, cursor, running, failed, handled, skipped, lastPos, lastSaved, counter, timer, callback, getter,
          seen, saved, canalFaults
Binlog == INSTANCE Canal WITH pc <- canal, faults <- canalFaults

\* Every variable has the values its place allows.
CanalTypeOK ==
    /\ log \in 0..MaxEvent /\ cursor \in 0..log /\ lastPos \in 0..log /\ saved \in 0..log /\ seen \in Nat
    /\ lastSaved \in Nat
    /\ running \subseteq Listeners /\ failed \in BOOLEAN /\ handled \in [1..MaxEvent -> SUBSET Listeners]
    /\ canal \in {"down", "ready", "row", "sync", "stopped", "closed"}

\* An event is settled when all listeners handled it or a start left it out.
Settled(e) == handled[e] = Listeners \/ e \in skipped
SettledTo(p) == \A e \in 1..p : Settled(e)

\* The positions the process has are of its own reading, and a position that is to
\* be written is not behind the one in Redis.
Positions ==
    /\ canal # "down" => saved <= cursor /\ lastPos <= cursor
    /\ seen <= saved
    /\ lastPos # lastSaved => lastPos >= saved

\* All positions kept are settled, and so is what was read but for the event at work.
PositionsSettled ==
    /\ SettledTo(saved) /\ SettledTo(lastPos)
    /\ canal \in {"ready", "sync"} => SettledTo(cursor)
    /\ canal = "row" => \A e \in 1..cursor : e # cursor => Settled(e)

\* The listeners of the event at work: without an error, all but those running are done.
AtWork ==
    /\ running # {} => canal = "row"
    /\ canal = "row" => cursor >= 1 /\ (~failed => Listeners \ running \subseteq handled[cursor])
    /\ canal # "row" => ~failed

\* The inductive invariant.
CanalInv == CanalTypeOK /\ Positions /\ PositionsSettled /\ AtWork

\* Nothing is read at first.
LEMMA CanalInit == ASSUME MaxEvent \in Nat PROVE Binlog!Init => CanalInv
<1> SUFFICES ASSUME Binlog!Init PROVE CanalInv
  BY Zenon
<1>1. CanalTypeOK
  <2>1. handled \in [1..MaxEvent -> SUBSET Listeners] /\ failed \in BOOLEAN /\ running \subseteq Listeners
    BY Zenon DEF Binlog!Init, Binlog!Events
  <2>2. /\ log \in 0..MaxEvent /\ cursor \in 0..log /\ lastPos \in 0..log /\ saved \in 0..log /\ seen \in Nat
        /\ lastSaved \in Nat /\ canal = "down"
    BY DEF Binlog!Init
  <2> QED BY Zenon, <2>1, <2>2 DEF CanalTypeOK
<1>2. Positions /\ AtWork
  BY DEF Binlog!Init, Positions, AtWork
<1>3. PositionsSettled
  BY DEF Binlog!Init, PositionsSettled, SettledTo
<1> QED BY Zenon, <1>1, <1>2, <1>3 DEF CanalInv

\* A write of a position that is settled, read and not behind the one in Redis.
LEMMA CanalFlush ==
    ASSUME MaxEvent \in Nat, CanalInv, NEW pos \in 0..log, NEW count, Binlog!DoFlush(pos, count),
           UNCHANGED <<log, cursor, running, failed, handled, skipped, seen>>,
           SettledTo(pos), pos # lastSaved => pos >= saved, canal # "down" => pos <= cursor
    PROVE  saved' >= saved /\ saved' \in {saved, pos} /\ lastPos' = pos /\ lastSaved' \in Nat
           /\ (pos # lastSaved' => pos >= saved')
<1>1. saved \in Nat /\ pos \in Nat /\ lastSaved \in Nat
  BY DEF CanalInv, CanalTypeOK
<1>2. CASE pos = lastSaved
  BY <1>1, <1>2 DEF Binlog!DoFlush
<1>3. CASE pos # lastSaved
  BY <1>1, <1>3 DEF Binlog!DoFlush, Binlog!SetSucceeds, Binlog!SetFails
<1> QED BY Zenon, <1>2, <1>3

\* A position the positioner takes over.
LEMMA CanalTakes ==
    ASSUME MaxEvent \in Nat, CanalInv, NEW pos \in 0..log, SettledTo(pos), canal # "down" => pos <= cursor,
           UNCHANGED <<log, cursor, running, failed, handled, skipped, seen>>,
           saved' >= saved, saved' \in {saved, pos}, lastPos' = pos, lastSaved' \in Nat,
           pos # lastSaved' => pos >= saved',
           \/ canal' = canal
           \/ canal = "sync" /\ canal' \in {"ready", "stopped"}
           \/ canal = "stopped" /\ canal' = "closed"
    PROVE  CanalInv' /\ Binlog!PositionIsSafe
<1> USE DEF CanalInv
<1>1. CanalTypeOK'
  BY Zenon DEF CanalTypeOK
<1>2. Positions'
  BY DEF Positions, CanalTypeOK
<1>3. SettledTo(saved)' /\ SettledTo(lastPos)'
  BY Zenon DEF PositionsSettled, SettledTo, Settled
<1>4. PositionsSettled'
  BY Zenon, <1>3 DEF PositionsSettled, SettledTo, Settled
<1>5. AtWork'
  BY Zenon DEF AtWork
<1>6. Binlog!PositionIsSafe
  BY Zenon, <1>3 DEF Binlog!PositionIsSafe, Binlog!SavedAdvances, Binlog!SavedIsHandled, Binlog!HandledByAll, SettledTo, Settled
<1> QED BY Zenon, <1>1, <1>2, <1>4, <1>5, <1>6

\* The timer, its callback and the getter write or take over settled positions.
LEMMA CanalPositioning == ASSUME MaxEvent \in Nat, CanalInv, Binlog!Positioning PROVE CanalInv' /\ Binlog!PositionIsSafe
<1> USE DEF Binlog!canal
<1>0. lastPos \in 0..log /\ SettledTo(lastPos) /\ (lastPos # lastSaved => lastPos >= saved)
      /\ (canal # "down" => lastPos <= cursor)
  BY Zenon DEF CanalInv, CanalTypeOK, Positions, PositionsSettled
<1>1. CASE Binlog!TimerFires \/ Binlog!TimerReset \/ Binlog!GetLooks
  <2>1. UNCHANGED <<log, canal, cursor, running, failed, handled, skipped, seen, saved, lastPos, lastSaved>>
    BY Zenon, <1>1 DEF Binlog!TimerFires, Binlog!TimerReset, Binlog!GetLooks
  <2>2. saved \in Nat /\ lastSaved \in Nat
    BY DEF CanalInv, CanalTypeOK
  <2> QED BY <1>0, <2>1, <2>2, CanalTakes
<1>2. CASE Binlog!PeriodicFlush
  <2>1. Binlog!DoFlush(lastPos, counter) /\ UNCHANGED <<log, canal, cursor, running, failed, handled, skipped, seen>>
    BY Zenon, <1>2 DEF Binlog!PeriodicFlush
  <2>2. saved' >= saved /\ saved' \in {saved, lastPos} /\ lastPos' = lastPos /\ lastSaved' \in Nat
        /\ (lastPos # lastSaved' => lastPos >= saved')
    BY Zenon, <1>0, <2>1, CanalFlush
  <2> QED BY Zenon, <1>0, <2>1, <2>2, CanalTakes
<1>3. CASE Binlog!Close
  <2>1. /\ Binlog!DoFlush(lastPos, counter) /\ UNCHANGED <<log, cursor, running, failed, handled, skipped, seen>>
        /\ canal = "stopped" /\ canal' = "closed"
    BY Zenon, <1>3 DEF Binlog!Close
  <2>2. saved' >= saved /\ saved' \in {saved, lastPos} /\ lastPos' = lastPos /\ lastSaved' \in Nat
        /\ (lastPos # lastSaved' => lastPos >= saved')
    BY Zenon, <1>0, <2>1, CanalFlush
  <2> QED BY Zenon, <1>0, <2>1, <2>2, CanalTakes
<1>4. CASE Binlog!GetReads \/ Binlog!GetStores
  <2>1. UNCHANGED <<log, canal, cursor, running, failed, handled, skipped, saved>>
    BY Zenon, <1>4 DEF Binlog!GetReads, Binlog!GetStores
  <2>2. \/ seen' = saved /\ UNCHANGED <<lastPos, lastSaved>>
        \/ seen' = 0 /\ lastPos' = seen /\ lastSaved' = seen
    BY Zenon, <1>4 DEF Binlog!GetReads, Binlog!GetStores
  <2>3. CanalTypeOK' /\ Positions'
    BY <2>1, <2>2 DEF CanalInv, CanalTypeOK, Positions
  <2>4. SettledTo(saved)' /\ SettledTo(lastPos)'
    BY <2>1, <2>2 DEF CanalInv, CanalTypeOK, Positions, PositionsSettled, SettledTo, Settled
  <2>5. PositionsSettled' /\ AtWork'
    BY Zenon, <2>1, <2>4 DEF CanalInv, PositionsSettled, SettledTo, Settled, AtWork
  <2>6. Binlog!PositionIsSafe
    BY <2>1, <2>4 DEF CanalInv, CanalTypeOK, Binlog!PositionIsSafe, Binlog!SavedAdvances, Binlog!SavedIsHandled,
                      Binlog!HandledByAll, SettledTo, Settled
  <2> QED BY Zenon, <2>3, <2>5, <2>6 DEF CanalInv
<1> QED BY Zenon, <1>1, <1>2, <1>3, <1>4 DEF Binlog!Positioning

\* Steps that keep the saved position and settle no event less.
LEMMA CanalKeeps ==
    ASSUME MaxEvent \in Nat, CanalInv, UNCHANGED saved, \A e \in 1..saved : Settled(e) => Settled(e)'
    PROVE  SettledTo(saved)' /\ Binlog!PositionIsSafe
<1>1. SettledTo(saved)'
  BY Zenon DEF CanalInv, PositionsSettled, SettledTo
<1> QED BY <1>1 DEF CanalInv, CanalTypeOK, Binlog!PositionIsSafe, Binlog!SavedAdvances, Binlog!SavedIsHandled,
                    Binlog!HandledByAll, SettledTo, Settled

\* A start goes on from the position in Redis, or leaves out what came before.
LEMMA CanalStarts == ASSUME MaxEvent \in Nat, CanalInv, Binlog!Start \/ Binlog!StartGetFails
                     PROVE CanalInv' /\ Binlog!PositionIsSafe
<1>0. log \in Nat /\ saved \in 0..log /\ lastPos \in 0..log /\ seen \in Nat /\ canal = "down"
  BY DEF CanalInv, CanalTypeOK, Binlog!Start, Binlog!StartGetFails
<1>1. PICK p \in 0..log : p >= saved /\ Binlog!StartFrom(p)
  BY <1>0 DEF Binlog!Start, Binlog!StartGetFails
<1>2. /\ cursor' = p /\ canal' = "ready" /\ UNCHANGED <<log, running, failed, handled, seen, saved>>
      /\ skipped' = skipped \cup (IF p > saved THEN (saved + 1)..p ELSE {})
  BY Zenon, <1>1 DEF Binlog!Start, Binlog!StartGetFails, Binlog!StartFrom
<1>3. \/ lastPos' = saved /\ lastSaved' = saved
      \/ UNCHANGED <<lastPos, lastSaved>>
  BY Zenon DEF Binlog!Start, Binlog!StartGetFails
<1>4. \A e : Settled(e) => Settled(e)'
  BY Zenon, <1>2 DEF Settled
<1>5. SettledTo(saved)' /\ Binlog!PositionIsSafe
  BY Zenon, <1>2, <1>4, CanalKeeps
<1>6. SettledTo(cursor)'
  <2> SUFFICES ASSUME NEW e \in 1..p PROVE Settled(e)'
    BY Zenon, <1>2 DEF SettledTo
  <2>1. CASE e <= saved
    BY <1>0, <1>2, <1>5, <2>1 DEF SettledTo
  <2>2. CASE ~(e <= saved)
    BY <1>0, <1>1, <1>2, <2>2 DEF Settled
  <2> QED BY Zenon, <2>1, <2>2
<1>7. SettledTo(lastPos)'
  BY Zenon, <1>2, <1>3, <1>4, <1>5 DEF CanalInv, PositionsSettled, SettledTo
<1>8. CanalTypeOK'
  BY <1>0, <1>1, <1>2, <1>3 DEF CanalInv, CanalTypeOK
<1>9. lastPos' <= cursor'
  <2>1. CASE Binlog!Start
    BY Zenon, <1>0, <1>1, <1>2, <2>1 DEF Binlog!Start
  <2>2. CASE Binlog!StartGetFails
    BY <1>0, <1>2, <2>2 DEF Binlog!StartGetFails, Binlog!StartFrom
  <2> QED BY Zenon, <2>1, <2>2
<1>10. Positions'
  BY Zenon, <1>0, <1>1, <1>2, <1>3, <1>9 DEF CanalInv, CanalTypeOK, Positions
<1>11. PositionsSettled' /\ AtWork'
  BY Zenon, <1>0, <1>2, <1>5, <1>6, <1>7 DEF CanalInv, PositionsSettled, AtWork
<1> QED BY Zenon, <1>5, <1>8, <1>10, <1>11 DEF CanalInv

\* A listener that returns settles the event for itself.
LEMMA CanalListens ==
    ASSUME MaxEvent \in Nat, CanalInv, NEW l \in Listeners, Binlog!ListenerDone(l) \/ Binlog!ListenerFails(l)
    PROVE  CanalInv' /\ Binlog!PositionIsSafe
<1>1. /\ l \in running /\ running' = running \ {l}
      /\ UNCHANGED <<log, canal, cursor, skipped, lastPos, lastSaved, seen, saved>>
  BY Zenon DEF Binlog!ListenerDone, Binlog!ListenerFails, Binlog!timing
<1>2. canal = "row" /\ cursor \in 1..MaxEvent
  BY <1>1 DEF CanalInv, CanalTypeOK, AtWork
<1>3. /\ handled' \in [1..MaxEvent -> SUBSET Listeners] /\ failed' \in BOOLEAN
      /\ \A e \in 1..MaxEvent : handled[e] \subseteq handled'[e]
      /\ ~failed' => ~failed /\ l \in handled'[cursor]
  BY Zenon, <1>2 DEF Binlog!ListenerDone, Binlog!ListenerFails, CanalInv, CanalTypeOK
<1>4. \A e \in 1..MaxEvent : Settled(e) => Settled(e)'
  BY Zenon, <1>1, <1>3 DEF Settled
<1>5. log \in 0..MaxEvent /\ cursor \in 0..log /\ saved \in 0..log /\ lastPos \in 0..log
  BY Zenon DEF CanalInv, CanalTypeOK
<1>6. SettledTo(saved)' /\ Binlog!PositionIsSafe
  BY <1>1, <1>4, <1>5, CanalKeeps
<1>7. CanalTypeOK' /\ Positions'
  BY Zenon, <1>1, <1>3 DEF CanalInv, CanalTypeOK, Positions
<1>8. SettledTo(lastPos)'
  BY <1>1, <1>4, <1>5 DEF CanalInv, PositionsSettled, SettledTo
<1>9. \A e \in 1..cursor' : e # cursor' => Settled(e)'
  BY <1>1, <1>2, <1>4, <1>5 DEF CanalInv, PositionsSettled
<1>10. PositionsSettled'
  BY Zenon, <1>1, <1>2, <1>6, <1>8, <1>9 DEF PositionsSettled
<1>11. AtWork'
  BY Zenon, <1>1, <1>2, <1>3 DEF CanalInv, AtWork
<1> QED BY Zenon, <1>6, <1>7, <1>10, <1>11 DEF CanalInv

\* Reading an event, running its listeners and what follows them.
LEMMA CanalReading == ASSUME MaxEvent \in Nat, CanalInv, Binlog!Reading PROVE CanalInv' /\ Binlog!PositionIsSafe
<1> USE DEF Binlog!timing
<1>1. CASE Binlog!Dispatch
  <2>1. /\ canal = "ready" /\ cursor < log /\ cursor' = cursor + 1 /\ canal' = "row" /\ running' = Listeners
        /\ UNCHANGED <<log, failed, handled, skipped, lastPos, lastSaved, seen, saved>>
    BY Zenon, <1>1 DEF Binlog!Dispatch
  <2>2. \A e : Settled(e) => Settled(e)'
    BY Zenon, <2>1 DEF Settled
  <2>3. SettledTo(saved)' /\ Binlog!PositionIsSafe
    BY Zenon, <2>1, <2>2, CanalKeeps
  <2>4. CanalTypeOK' /\ Positions'
    BY <2>1 DEF CanalInv, CanalTypeOK, Positions
  <2>4a. SettledTo(lastPos)'
    BY Zenon, <2>1, <2>2 DEF CanalInv, PositionsSettled, SettledTo
  <2>4b. cursor \in Nat /\ SettledTo(cursor)
    BY <2>1 DEF CanalInv, CanalTypeOK, PositionsSettled
  <2>4c. \A e \in 1..cursor' : e # cursor' => e \in 1..cursor
    BY <2>1, <2>4b
  <2>5. SettledTo(lastPos)' /\ \A e \in 1..cursor' : e # cursor' => Settled(e)'
    BY Zenon, <2>2, <2>4a, <2>4b, <2>4c DEF SettledTo
  <2>6. PositionsSettled' /\ AtWork'
    BY <2>1, <2>3, <2>5 DEF CanalInv, CanalTypeOK, PositionsSettled, AtWork
  <2> QED BY Zenon, <2>3, <2>4, <2>6 DEF CanalInv
<1>2. CASE Binlog!Wait
  <2>1. /\ canal = "row" /\ running = {} /\ running' = {} /\ ~failed' /\ failed' \in BOOLEAN
        /\ canal' = IF failed THEN "stopped" ELSE "sync"
        /\ UNCHANGED <<log, cursor, handled, skipped, lastPos, lastSaved, seen, saved>>
    BY Zenon, <1>2 DEF Binlog!Wait, Binlog!AllDone, Binlog!WaitEnds
  <2>2. \A e : Settled(e) => Settled(e)'
    BY Zenon, <2>1 DEF Settled
  <2>3. SettledTo(saved)' /\ Binlog!PositionIsSafe
    BY Zenon, <2>1, <2>2, CanalKeeps
  <2>4. CanalTypeOK' /\ Positions'
    BY Zenon, <2>1 DEF CanalInv, CanalTypeOK, Positions
  <2>5. SettledTo(lastPos)'
    BY Zenon, <2>1, <2>2 DEF CanalInv, PositionsSettled, SettledTo
  <2>5a. handled[cursor] \subseteq Listeners
    <3>1. cursor \in 1..MaxEvent /\ handled \in [1..MaxEvent -> SUBSET Listeners]
      BY <2>1 DEF CanalInv, CanalTypeOK, AtWork
    <3> QED BY Zenon, <3>1
  <2>5b. ~failed => Listeners \subseteq handled[cursor]
    BY Zenon, <2>1 DEF CanalInv, AtWork
  <2>6. ~failed => handled[cursor] = Listeners
    BY Zenon, <2>5a, <2>5b
  <2>7. ~failed => SettledTo(cursor)'
    BY Zenon, <2>1, <2>6 DEF CanalInv, PositionsSettled, SettledTo, Settled
  <2>8. PositionsSettled' /\ AtWork'
    BY Zenon, <2>1, <2>3, <2>5, <2>7 DEF CanalInv, PositionsSettled, AtWork
  <2> QED BY Zenon, <2>3, <2>4, <2>8 DEF CanalInv
<1>3. CASE Binlog!OnPosSynced
  <2>1. /\ canal = "sync" /\ Binlog!SetPosition(cursor) /\ canal' \in {"ready", "stopped"}
        /\ UNCHANGED <<log, cursor, running, failed, handled, skipped, seen>>
    BY Zenon, <1>3 DEF Binlog!OnPosSynced
  <2>2. cursor \in 0..log /\ SettledTo(cursor) /\ cursor >= saved /\ cursor <= cursor
    BY <2>1 DEF CanalInv, CanalTypeOK, Positions, PositionsSettled
  <2>3. saved' >= saved /\ saved' \in {saved, cursor} /\ lastPos' = cursor /\ lastSaved' \in Nat
        /\ (cursor # lastSaved' => cursor >= saved')
    <3>1. CASE Binlog!DoFlush(cursor, counter + 1)
      BY Zenon, <2>1, <2>2, <3>1, CanalFlush
    <3>2. CASE lastPos' = cursor /\ UNCHANGED <<lastSaved, saved>>
      BY <2>2, <3>2 DEF CanalInv, CanalTypeOK
    <3> QED BY Zenon, <2>1, <3>1, <3>2 DEF Binlog!SetPosition
  <2> QED BY Zenon, <2>1, <2>2, <2>3, CanalTakes
<1>4. CASE Binlog!Stop
  <2>1. /\ canal = "ready" /\ canal' = "stopped"
        /\ UNCHANGED <<log, cursor, running, failed, handled, skipped, lastPos, lastSaved, seen, saved>>
    BY Zenon, <1>4 DEF Binlog!Stop
  <2>2. \A e : Settled(e) => Settled(e)'
    BY Zenon, <2>1 DEF Settled
  <2>3. SettledTo(saved)' /\ Binlog!PositionIsSafe
    BY Zenon, <2>1, <2>2, CanalKeeps
  <2>4. CanalTypeOK' /\ Positions' /\ PositionsSettled' /\ AtWork'
    BY Zenon, <2>1, <2>2, <2>3 DEF CanalInv, CanalTypeOK, Positions, PositionsSettled, SettledTo, AtWork
  <2> QED BY Zenon, <2>3, <2>4 DEF CanalInv
<1> QED BY Zenon, <1>1, <1>2, <1>3, <1>4, CanalStarts, CanalListens DEF Binlog!Reading

\* A commit, a crash and the exit of Start.
LEMMA CanalEnds == ASSUME MaxEvent \in Nat, CanalInv, Binlog!Commit \/ Binlog!Crash \/ Binlog!Exit
                   PROVE CanalInv' /\ Binlog!PositionIsSafe
<1> USE DEF Binlog!timing
<1>1. UNCHANGED <<handled, skipped, saved>>
  BY Zenon DEF Binlog!Commit, Binlog!Crash, Binlog!Exit, Binlog!Reborn
<1>2. \A e : Settled(e) => Settled(e)'
  BY Zenon, <1>1 DEF Settled
<1>3. SettledTo(saved)' /\ Binlog!PositionIsSafe
  BY Zenon, <1>1, <1>2, CanalKeeps
<1>4. CASE Binlog!Commit
  <2>1. log < MaxEvent /\ log' = log + 1 /\ UNCHANGED <<canal, cursor, running, failed, lastPos, lastSaved, seen>>
    BY Zenon, <1>4 DEF Binlog!Commit
  <2>2. CanalTypeOK' /\ Positions'
    BY <1>1, <2>1 DEF CanalInv, CanalTypeOK, Positions
  <2>3. PositionsSettled'
    BY Zenon, <1>1, <2>1 DEF CanalInv, PositionsSettled, SettledTo, Settled
  <2>4. AtWork'
    BY Zenon, <1>1, <2>1 DEF CanalInv, AtWork
  <2> QED BY Zenon, <1>3, <2>2, <2>3, <2>4 DEF CanalInv
<1>5. CASE Binlog!Crash \/ Binlog!Exit
  <2>1. /\ canal' = "down" /\ cursor' = 0 /\ running' = {} /\ failed' = FALSE /\ lastPos' = 0 /\ lastSaved' = 0
        /\ seen' = 0 /\ UNCHANGED log
    BY Zenon, <1>5 DEF Binlog!Crash, Binlog!Exit, Binlog!Reborn
  <2>2. CanalTypeOK'
    <3>1. failed' \in BOOLEAN
      BY Zenon, <2>1
    <3> QED BY <1>1, <2>1, <3>1 DEF CanalInv, CanalTypeOK
  <2>2a. Positions'
    BY <1>1, <2>1 DEF CanalInv, CanalTypeOK, Positions
  <2>3. PositionsSettled' /\ AtWork'
    BY <1>3, <2>1 DEF PositionsSettled, SettledTo, AtWork
  <2> QED BY Zenon, <1>3, <2>2, <2>2a, <2>3 DEF CanalInv
<1> QED BY Zenon, <1>4, <1>5

\* Every step keeps the invariant and is safe.
LEMMA CanalStep ==
    ASSUME MaxEvent \in Nat
    PROVE  CanalInv /\ [Binlog!Next]_(Binlog!vars) => CanalInv' /\ [Binlog!PositionIsSafe]_(Binlog!vars)
<1> SUFFICES ASSUME CanalInv, [Binlog!Next]_(Binlog!vars) PROVE CanalInv' /\ [Binlog!PositionIsSafe]_(Binlog!vars)
  BY Zenon
<1>1. CASE UNCHANGED Binlog!vars
  <2>1. UNCHANGED <<log, canal, cursor, running, failed, handled, skipped, lastPos, lastSaved, seen, saved>>
    BY Zenon, <1>1 DEF Binlog!vars
  <2>2. CanalInv'
    BY Zenon, <2>1 DEF CanalInv, CanalTypeOK, Positions, PositionsSettled, SettledTo, Settled, AtWork
  <2> QED BY Zenon, <1>1, <2>2
<1>2. CASE Binlog!Next
  BY Zenon, <1>2, CanalPositioning, CanalReading, CanalEnds DEF Binlog!Next
<1> QED BY Zenon, <1>1, <1>2

\* Canal: what is behind the saved position was handled, and it never moves back.
PositionIsSafe == [][Binlog!PositionIsSafe]_(Binlog!vars)

\* canal: the position in Redis never goes back, and every event up to it was handled by
\* all listeners or left out by a start that asked for it, through crashes and failing
\* writes, for any number of events and listeners.
THEOREM CanalIsSafe == ASSUME MaxEvent \in Nat PROVE Binlog!Spec => PositionIsSafe
<1>1. Binlog!Init => CanalInv
  BY Zenon, CanalInit
<1>2. CanalInv /\ [Binlog!Next]_(Binlog!vars) => CanalInv' /\ [Binlog!PositionIsSafe]_(Binlog!vars)
  BY Zenon, CanalStep
<1> QED BY <1>1, <1>2, PTL DEF Binlog!Spec, PositionIsSafe

-----------------------------------------------------------------------------
(* CacheSnapshot *)

CONSTANTS Threads, Expires, MaxEvents
VARIABLES entry, stale, writer, reader, value, calls, gone, before, snapshotEvents
Snapshot == INSTANCE CacheSnapshot WITH pc <- reader, events <- snapshotEvents
INSTANCE FiniteSetTheorems

\* No goroutine has the name of the free lock.
SnapshotConstants == "none" \notin Threads /\ Expires \in BOOLEAN /\ MaxEvents \in Nat

\* Every value fn returned is the entry or gone; an entry is gone when it is stale.
ValuesAccounted ==
    /\ 1..calls = gone \cup ({entry} \ {0})
    /\ entry # 0 => (stale <=> entry \in gone)
    /\ entry = 0 => ~stale

CallOnMiss == \A t \in Threads : reader[t] = "call" => ~Snapshot!Hit

ReturnsRecent == \A t \in Threads :
    /\ before[t] \subseteq gone
    /\ reader[t] = "done" => value[t] \notin before[t] \cup {0}

SnapshotInv == Snapshot!TypeOK /\ ValuesAccounted /\ CallOnMiss /\ ReturnsRecent

\* The invariant holds of an empty map.
LEMMA SnapshotInit == ASSUME SnapshotConstants PROVE Snapshot!Init => SnapshotInv
<1> SUFFICES ASSUME Snapshot!Init PROVE SnapshotInv
  BY Zenon
<1> USE DEF SnapshotConstants, Snapshot!Init
<1>1. Snapshot!TypeOK
  <2>1. entry \in 0..calls /\ gone \subseteq 1..calls /\ snapshotEvents \in 0..MaxEvents
    OBVIOUS
  <2>2. value \in [Threads -> 0..calls] /\ before \in [Threads -> SUBSET (1..calls)]
    OBVIOUS
  <2>3. \A t \in Threads : writer = t <=> reader[t] \in {"again", "call"}
    BY Zenon
  <2> QED
    BY Zenon, <2>1, <2>2, <2>3 DEF Snapshot!TypeOK
<1>2. ValuesAccounted
  BY DEF ValuesAccounted
<1>3. CallOnMiss /\ ReturnsRecent
  BY Zenon DEF CallOnMiss, ReturnsRecent, Snapshot!Hit
<1> QED
  BY Zenon, <1>1, <1>2, <1>3 DEF SnapshotInv

\* The steps of the map alone.
LEMMA SnapshotEvents ==
    ASSUME SnapshotConstants, SnapshotInv, Snapshot!Expire \/ Snapshot!Reset \/ Snapshot!CleanupExpired
    PROVE  SnapshotInv'
<1> USE DEF SnapshotConstants
<1>1. /\ UNCHANGED <<writer, reader, value, calls, before>> /\ snapshotEvents' \in 0..MaxEvents
  BY DEF Snapshot!Expire, Snapshot!Reset, Snapshot!CleanupExpired, Snapshot!Event, SnapshotInv, Snapshot!TypeOK
<1>2. CASE Snapshot!Expire
  <2>1. entry # 0 /\ ~stale /\ stale' = TRUE /\ gone' = gone \cup {entry} /\ entry' = entry
    BY Zenon, <1>2 DEF Snapshot!Expire, Snapshot!Hit
  <2>2. ValuesAccounted'
    BY Zenon, <1>1, <2>1 DEF SnapshotInv, ValuesAccounted
  <2>3. Snapshot!TypeOK'
    BY <1>1, <2>1 DEF SnapshotInv, Snapshot!TypeOK
  <2>4. CallOnMiss' /\ ReturnsRecent'
    BY Zenon, <1>1, <2>1 DEF SnapshotInv, CallOnMiss, ReturnsRecent, Snapshot!Hit
  <2> QED
    BY Zenon, <2>2, <2>3, <2>4 DEF SnapshotInv
<1>3. CASE Snapshot!Reset \/ Snapshot!CleanupExpired
  <2>1. entry' = 0 /\ stale' = FALSE /\ gone' = gone \cup ({entry} \ {0})
    BY Zenon, <1>3 DEF Snapshot!Reset, Snapshot!CleanupExpired, Snapshot!Remove
  <2>2. ValuesAccounted'
    BY Zenon, <1>1, <2>1 DEF SnapshotInv, ValuesAccounted
  <2>3. Snapshot!TypeOK'
    <3>1. entry' \in 0..calls /\ gone' \subseteq 1..calls
      BY <2>1 DEF SnapshotInv, Snapshot!TypeOK
    <3> QED
      BY Zenon, <1>1, <2>1, <3>1 DEF SnapshotInv, Snapshot!TypeOK
  <2>4. CallOnMiss' /\ ReturnsRecent'
    BY Zenon, <1>1, <2>1 DEF SnapshotInv, CallOnMiss, ReturnsRecent, Snapshot!Hit
  <2> QED
    BY Zenon, <2>2, <2>3, <2>4 DEF SnapshotInv
<1> QED
  BY Zenon, <1>2, <1>3

\* The steps of a Snapshot!Lookup that do not call fn.
LEMMA SnapshotReads ==
    ASSUME SnapshotConstants, SnapshotInv, NEW t \in Threads, Snapshot!Lookup(t) \/ Snapshot!Read(t) \/ Snapshot!Lock(t) \/ Snapshot!Again(t)
    PROVE  SnapshotInv'
<1> USE DEF SnapshotConstants
<1>1. UNCHANGED <<entry, stale, calls, gone, snapshotEvents>>
  BY Zenon DEF Snapshot!Lookup, Snapshot!Read, Snapshot!Lock, Snapshot!Again
<1>2. ValuesAccounted'
  BY Zenon, <1>1 DEF SnapshotInv, ValuesAccounted
<1>3. Snapshot!TypeOK'
  <2>1. value' \in [Threads -> 0..calls] /\ before' \in [Threads -> SUBSET (1..calls)]
    <3>1. CASE Snapshot!Lookup(t)
      BY Zenon, <3>1 DEF Snapshot!Lookup, SnapshotInv, Snapshot!TypeOK
    <3>2. CASE Snapshot!Read(t)
      BY Zenon, <3>2 DEF Snapshot!Read, SnapshotInv, Snapshot!TypeOK
    <3>3. CASE Snapshot!Lock(t)
      BY Zenon, <3>3 DEF Snapshot!Lock, SnapshotInv, Snapshot!TypeOK
    <3>4. CASE Snapshot!Again(t)
      BY Zenon, <3>4 DEF Snapshot!Again, SnapshotInv, Snapshot!TypeOK
    <3> QED BY Zenon, <3>1, <3>2, <3>3, <3>4
  <2>2. reader' \in [Threads -> {"new", "read", "lock", "again", "call", "done"}]
    BY Zenon DEF Snapshot!Lookup, Snapshot!Read, Snapshot!Lock, Snapshot!Again, Snapshot!Goto, SnapshotInv, Snapshot!TypeOK
  <2>3. writer' \in Threads \cup {"none"} /\ \A u \in Threads : writer' = u <=> reader'[u] \in {"again", "call"}
    BY DEF Snapshot!Lookup, Snapshot!Read, Snapshot!Lock, Snapshot!Again, Snapshot!Goto, Snapshot!Unlocked, SnapshotInv, Snapshot!TypeOK
  <2> QED
    BY Zenon, <1>1, <2>1, <2>2, <2>3 DEF SnapshotInv, Snapshot!TypeOK
<1>4. CallOnMiss'
  BY Zenon, <1>1 DEF Snapshot!Lookup, Snapshot!Read, Snapshot!Lock, Snapshot!Again, Snapshot!Goto, Snapshot!FoundAgain, SnapshotInv, Snapshot!TypeOK, CallOnMiss, Snapshot!Hit
<1>5. ReturnsRecent'
  <2>1. /\ \A u \in Threads \ {t} : reader'[u] = reader[u] /\ value'[u] = value[u] /\ before'[u] = before[u]
    BY Zenon DEF Snapshot!Lookup, Snapshot!Read, Snapshot!Lock, Snapshot!Again, Snapshot!Goto, SnapshotInv, Snapshot!TypeOK
  <2>2. before'[t] \subseteq gone
    BY Zenon DEF Snapshot!Lookup, Snapshot!Read, Snapshot!Lock, Snapshot!Again, SnapshotInv, Snapshot!TypeOK, ReturnsRecent
  <2>3. reader'[t] = "done" => Snapshot!Hit /\ value'[t] = entry
    BY Zenon DEF Snapshot!Lookup, Snapshot!Read, Snapshot!Lock, Snapshot!Again, Snapshot!Goto, Snapshot!FoundAgain, SnapshotInv, Snapshot!TypeOK
  <2>4. reader'[t] = "done" => value'[t] \notin before'[t] \cup {0}
    BY Zenon, <2>2, <2>3 DEF SnapshotInv, ValuesAccounted, Snapshot!Hit
  <2> QED
    BY Zenon, <1>1, <2>1, <2>2, <2>4 DEF SnapshotInv, ReturnsRecent
<1> QED
  BY Zenon, <1>2, <1>3, <1>4, <1>5 DEF SnapshotInv

\* The step that calls fn and stores what it returned.
LEMMA SnapshotCalls ==
    ASSUME SnapshotConstants, SnapshotInv, NEW t \in Threads, Snapshot!Call(t)
    PROVE  SnapshotInv'
<1> USE DEF SnapshotConstants
<1>1. /\ reader[t] = "call" /\ calls' = calls + 1 /\ entry' = calls + 1 /\ stale' = FALSE
      /\ value' = [value EXCEPT ![t] = calls + 1] /\ writer' = "none"
      /\ reader' = [reader EXCEPT ![t] = "done"] /\ UNCHANGED <<gone, before, snapshotEvents>>
  BY Zenon DEF Snapshot!Call, Snapshot!Goto
<1>2. writer = t /\ \A u \in Threads \ {t} : reader[u] \notin {"again", "call"}
  BY Zenon, <1>1 DEF SnapshotInv, Snapshot!TypeOK
<1>3. gone = 1..calls /\ calls \in Nat
  BY Zenon, <1>1 DEF SnapshotInv, Snapshot!TypeOK, CallOnMiss, Snapshot!Hit, ValuesAccounted
<1>4. ValuesAccounted'
  BY <1>1, <1>3 DEF ValuesAccounted
<1>5. Snapshot!TypeOK'
  <2>1. value' \in [Threads -> 0..calls'] /\ before' \in [Threads -> SUBSET (1..calls')]
    BY <1>1, <1>3 DEF SnapshotInv, Snapshot!TypeOK
  <2>2. \A u \in Threads : writer' = u <=> reader'[u] \in {"again", "call"}
    BY Zenon, <1>1, <1>2 DEF SnapshotInv, Snapshot!TypeOK
  <2>3. calls' \in Nat /\ entry' \in 0..calls' /\ gone' \subseteq 1..calls'
    BY <1>1, <1>3
  <2>4. reader' \in [Threads -> {"new", "read", "lock", "again", "call", "done"}]
    BY Zenon, <1>1 DEF SnapshotInv, Snapshot!TypeOK
  <2> QED
    BY Zenon, <1>1, <2>1, <2>2, <2>3, <2>4 DEF SnapshotInv, Snapshot!TypeOK
<1>6. CallOnMiss'
  BY Zenon, <1>1, <1>2 DEF SnapshotInv, Snapshot!TypeOK, CallOnMiss
<1>7. ReturnsRecent'
  <2>1. value'[t] = calls + 1 /\ before'[t] \subseteq 1..calls
    BY Zenon, <1>1 DEF SnapshotInv, Snapshot!TypeOK
  <2>2. \A u \in Threads \ {t} : reader'[u] = reader[u] /\ value'[u] = value[u]
    BY Zenon, <1>1 DEF SnapshotInv, Snapshot!TypeOK
  <2> QED
    BY <1>1, <1>3, <2>1, <2>2 DEF SnapshotInv, ReturnsRecent
<1> QED
  BY Zenon, <1>4, <1>5, <1>6, <1>7 DEF SnapshotInv

\* The map and its goroutines always satisfy the inductive invariant.
THEOREM SnapshotInvariant == ASSUME SnapshotConstants PROVE Snapshot!Spec => []SnapshotInv
<1>1. Snapshot!Init => SnapshotInv
  BY Zenon, SnapshotInit
<1>2. SnapshotInv /\ [Snapshot!Next]_(Snapshot!vars) => SnapshotInv'
  <2> SUFFICES ASSUME SnapshotInv, [Snapshot!Next]_(Snapshot!vars) PROVE SnapshotInv'
    BY Zenon
  <2>1. CASE UNCHANGED Snapshot!vars
    BY Zenon, <2>1 DEF Snapshot!vars, SnapshotInv, Snapshot!TypeOK, ValuesAccounted, CallOnMiss, ReturnsRecent, Snapshot!Hit
  <2> QED
    BY Zenon, <2>1, SnapshotEvents, SnapshotReads, SnapshotCalls DEF Snapshot!Next, Snapshot!Step
<1> QED
  BY <1>1, <1>2, PTL DEF Snapshot!Spec

\* Goroutines that miss at once call fn once between them: its calls are at most
\* one more than the values that expired or were removed.
THEOREM OneCallPerMiss == ASSUME SnapshotConstants PROVE Snapshot!Spec => []Snapshot!CalledOncePerMiss
<1>1. SnapshotInv => Snapshot!CalledOncePerMiss
  <2> SUFFICES ASSUME SnapshotInv PROVE calls <= 1 + Cardinality(gone)
    BY Zenon DEF Snapshot!CalledOncePerMiss, Snapshot!Cardinality, Cardinality
  <2>1. calls \in Nat /\ gone \in SUBSET (1..calls) /\ 1..calls \in SUBSET (gone \cup {entry})
    BY Zenon DEF SnapshotInv, Snapshot!TypeOK, ValuesAccounted
  <2>2. IsFiniteSet(1..calls) /\ Cardinality(1..calls) = calls
    BY <2>1, FS_Interval
  <2>3. IsFiniteSet(gone)
    BY Zenon, <2>1, <2>2, FS_Subset
  <2>4. /\ IsFiniteSet(gone \cup {entry}) /\ Cardinality(gone) \in Nat
        /\ Cardinality(gone \cup {entry}) <= Cardinality(gone) + 1
    BY <2>3, FS_AddElement, FS_CardinalityType
  <2>5. Cardinality(1..calls) <= Cardinality(gone \cup {entry})
    BY Zenon, <2>1, <2>4, FS_Subset
  <2>6. Cardinality(gone \cup {entry}) \in Nat
    BY Zenon, <2>4, FS_CardinalityType
  <2> QED
    BY <2>1, <2>2, <2>4, <2>5, <2>6
<1> QED
  BY <1>1, SnapshotInvariant, PTL

\* CacheSnapshot: a Lookup returns no value that was gone before it was called.
NeverOlderThanCall == Snapshot!NeverOlderThanCall

\* Snapshot!Lookup never returns a value that was already expired or removed when it began.
THEOREM NothingOld == ASSUME SnapshotConstants PROVE Snapshot!Spec => []NeverOlderThanCall
<1>1. SnapshotInv => Snapshot!NeverOlderThanCall
  BY Zenon DEF SnapshotInv, ReturnsRecent, Snapshot!NeverOlderThanCall
<1> QED
  BY <1>1, SnapshotInvariant, PTL DEF NeverOlderThanCall

-----------------------------------------------------------------------------
(* CacheStore *)

CONSTANTS Keys, Pages, Addable
VARIABLES val, op, key, client, got, removals, flush, page, found, untouched, events
Cache == INSTANCE CacheStore WITH pc <- client

\* A client is not the mark of a missing value, and SCAN returns every key.
CacheConstants ==
    /\ IsFiniteSet(Clients) /\ "none" \notin Clients /\ Addable \in BOOLEAN
    /\ Pages \in Seq(SUBSET Keys) /\ \A k \in Keys : \E p \in 1..Len(Pages) : k \in Pages[p]

\* Every variable has the values its place allows.
CacheTypeOK ==
    /\ DOMAIN val = Keys /\ key \in [Clients -> Keys] /\ DOMAIN client = Clients /\ op \in [Clients -> {"add", "remember"}]
    /\ removals \in [Keys -> Nat] /\ page \in Nat \ {0} /\ found \subseteq Keys /\ untouched \subseteq Keys
    /\ flush \in {"idle", "scan", "delete", "done", "failed"}

\* The clients whose Add of k returned true.
True(k) == {c \in Clients : key[c] = k /\ client[c] = "true"}

\* A missing key has as many successful Adds as removals, at most.
AddsCounted ==
    Addable => /\ \A c \in Clients : client[c] # "missing"
               /\ \A k \in Keys : Cardinality(True(k)) <= IF val[k] = "none" THEN removals[k] ELSE 1 + removals[k]

\* A key that Flush found at its start is gone, or is still to be scanned or deleted.
Ahead(k) == \E p \in page..Len(Pages) : k \in Pages[p]
OldAhead ==
    /\ flush = "idle" => page = 1 /\ untouched = {}
    /\ flush = "scan" => \A k \in untouched : val[k] = "none" \/ Ahead(k)
    /\ flush = "delete" => \A k \in untouched : val[k] = "none" \/ Ahead(k) \/ k \in found
    /\ flush = "done" => \A k \in untouched : val[k] = "none"

\* The inductive invariant.
CacheInv == CacheTypeOK /\ AddsCounted /\ OldAhead

\* No client has called, and Flush has not begun.
LEMMA CacheInit == ASSUME CacheConstants PROVE Cache!Init => CacheInv
<1> SUFFICES ASSUME Cache!Init PROVE CacheInv
  BY Zenon
<1>1. CacheTypeOK
  BY DEF Cache!Init, CacheTypeOK
<1>2. \A k \in Keys : True(k) = {}
  BY Zenon DEF Cache!Init, True
<1>3. AddsCounted
  BY <1>2, FS_EmptySet DEF Cache!Init, AddsCounted
<1>4. OldAhead
  BY Zenon DEF Cache!Init, OldAhead
<1> QED BY Zenon, <1>1, <1>3, <1>4 DEF CacheInv

\* A write of a key takes it out of the keys that Flush must remove.
LEMMA CacheWrites ==
    ASSUME CacheConstants, CacheInv, NEW k \in Keys, NEW v, v # "none", Cache!Write(k, v),
           UNCHANGED <<key, op, removals, flush, page, found>>
    PROVE  /\ DOMAIN val' = Keys /\ OldAhead' /\ untouched' \subseteq Keys
           /\ \A h \in Keys : val'[h] = "none" => val[h] = "none"
<1> USE DEF CacheInv, CacheTypeOK, Cache!Write
<1>1. DOMAIN val' = Keys /\ untouched' = untouched \ {k} /\ \A h \in Keys : h # k => val'[h] = val[h]
  BY Zenon
<1>2. val'[k] # "none"
  BY Zenon
<1>3. OldAhead'
  BY Zenon, <1>1 DEF OldAhead, Ahead
<1> QED BY Zenon, <1>1, <1>2, <1>3

\* The clients of one step that does not make an Add succeed.
LEMMA CacheCounts ==
    ASSUME CacheConstants, CacheInv, UNCHANGED <<key, removals>>,
           \A k \in Keys : val'[k] = "none" => val[k] = "none",
           \A c \in Clients : (client'[c] = "true" => client[c] = "true") /\ (Addable => client'[c] # "missing")
    PROVE  AddsCounted'
<1> SUFFICES ASSUME Addable, NEW k \in Keys
             PROVE  Cardinality(True(k)') <= IF val'[k] = "none" THEN removals'[k] ELSE 1 + removals'[k]
  BY Zenon DEF AddsCounted
<1>1. True(k)' \subseteq True(k) /\ IsFiniteSet(True(k))
  BY Zenon, FS_Subset DEF CacheConstants, True
<1>2. Cardinality(True(k)') <= Cardinality(True(k)) /\ Cardinality(True(k)') \in Nat /\ Cardinality(True(k)) \in Nat
  BY Zenon, <1>1, FS_Subset, FS_CardinalityType
<1>3. Cardinality(True(k)) <= IF val[k] = "none" THEN removals[k] ELSE 1 + removals[k]
  BY Zenon DEF CacheInv, AddsCounted
<1>4. removals[k] \in Nat
  BY Zenon DEF CacheInv, CacheTypeOK
<1> QED BY <1>2, <1>3, <1>4

\* SET NX succeeds on a missing key only, and a missing key has an Add to spare.
LEMMA CacheAdds == ASSUME CacheConstants, CacheInv, NEW c \in Clients, Cache!Add(c) PROVE CacheInv'
<1> USE DEF Cache!Goto
<1>1. CASE ~Cache!AddWins(c)
  <2>1. client' = [client EXCEPT ![c] = "false"] /\ UNCHANGED <<val, op, key, removals, flush, page, found, untouched>>
    BY Zenon, <1>1 DEF Cache!Add, Cache!flushVars
  <2>2. CacheTypeOK' /\ OldAhead'
    BY Zenon, <2>1 DEF CacheInv, CacheTypeOK, OldAhead, Ahead
  <2>3. \A d \in Clients : (client'[d] = "true" => client[d] = "true") /\ (Addable => client'[d] # "missing")
    BY Zenon, <2>1 DEF CacheInv, CacheTypeOK, AddsCounted
  <2>4. AddsCounted'
    BY <2>1, <2>3, CacheCounts
  <2> QED BY Zenon, <2>2, <2>4 DEF CacheInv
<1>2. CASE Cache!AddWins(c)
  <2> DEFINE k == key[c]
  <2>1. /\ client' = [client EXCEPT ![c] = "true"] /\ Cache!Write(k, c) /\ UNCHANGED <<op, key, removals, flush, page, found>>
        /\ val[k] = "none" /\ client[c] = "new" /\ k \in Keys /\ c # "none" /\ Addable
    BY Zenon, <1>2 DEF Cache!Add, Cache!flushVars, Cache!AddWins, Cache!Missing, CacheInv, CacheTypeOK, CacheConstants
  <2>2. DOMAIN val' = Keys /\ OldAhead' /\ untouched' \subseteq Keys
        /\ \A h \in Keys : val'[h] = "none" => val[h] = "none"
    BY <2>1, CacheWrites
  <2>3. val'[k] = c
    BY Zenon, <2>1 DEF Cache!Write, CacheInv, CacheTypeOK
  <2>4. CacheTypeOK'
    BY Zenon, <2>1, <2>2 DEF CacheInv, CacheTypeOK
  <2>5. \A d \in Clients : client'[d] = IF d = c THEN "true" ELSE client[d]
    BY Zenon, <2>1 DEF CacheInv, CacheTypeOK
  <2>6. AddsCounted'
    <3>1. \A d \in Clients : client'[d] # "missing"
      BY <2>1, <2>5 DEF CacheInv, AddsCounted
    <3>2. ASSUME NEW h \in Keys
          PROVE  Cardinality(True(h)') <= IF val'[h] = "none" THEN removals'[h] ELSE 1 + removals'[h]
      <4>1. IsFiniteSet(True(h)) /\ Cardinality(True(h)) \in Nat /\ removals[h] \in Nat
        BY Zenon, FS_Subset, FS_CardinalityType DEF CacheConstants, True, CacheInv, CacheTypeOK
      <4>2. Cardinality(True(h)) <= IF val[h] = "none" THEN removals[h] ELSE 1 + removals[h]
        BY Zenon, <2>1 DEF CacheInv, AddsCounted
      <4>3. CASE h = k
        <5>1. True(h)' = True(h) \cup {c} /\ c \notin True(h)
          BY <2>1, <2>5, <4>3 DEF True
        <5>2. Cardinality(True(h)') = Cardinality(True(h)) + 1
          BY Zenon, <4>1, <5>1, FS_AddElement
        <5>3. PICK x \in Nat : x = Cardinality(True(h))
          BY Zenon, <4>1
        <5>4. PICK y \in Nat : y = removals[h]
          BY Zenon, <4>1
        <5>5. val[h] = "none" /\ val'[h] # "none" /\ removals'[h] = y
          BY Zenon, <2>1, <2>3, <4>3, <5>4
        <5>6. x <= y
          BY Zenon, <4>2, <5>3, <5>4, <5>5
        <5>7. x + 1 <= 1 + y
          BY ONLY <5>6, x \in Nat, y \in Nat
        <5> QED BY Zenon, <5>2, <5>3, <5>5, <5>7
      <4>4. CASE h # k
        <5>1. True(h)' = True(h)
          BY <2>1, <2>5, <4>4 DEF True
        <5>2. val'[h] = val[h] /\ removals' = removals
          BY Zenon, <2>1, <4>4 DEF Cache!Write, CacheInv, CacheTypeOK
        <5> QED BY Zenon, <4>2, <5>1, <5>2
      <4> QED BY Zenon, <4>3, <4>4
    <3> QED BY Zenon, <3>1, <3>2 DEF AddsCounted
  <2> QED BY <2>2, <2>4, <2>6 DEF CacheInv
<1> QED BY Zenon, <1>1, <1>2

\* The other steps of Add and Remember.
LEMMA CacheClients ==
    ASSUME CacheConstants, CacheInv, NEW c \in Clients, Cache!Step(c), ~Cache!Add(c)
    PROVE  CacheInv'
<1> USE DEF Cache!Goto, Cache!flushVars
<1>1. UNCHANGED <<op, key, removals, flush, page, found>>
  BY Zenon DEF Cache!Step, Cache!AddChecks, Cache!AddSets, Cache!Get, Cache!Load, Cache!LoadFails, Cache!Set, Cache!SetFails
<1>2. PICK p : client' = [client EXCEPT ![c] = p] /\ (p = "missing" => ~Addable) /\ (p = "true" => client[c] = "missing")
  BY Zenon DEF Cache!Step, Cache!AddChecks, Cache!AddSets, Cache!Get, Cache!Load, Cache!LoadFails, Cache!Set, Cache!SetFails
<1>3. UNCHANGED <<val, untouched>> \/ Cache!Write(key[c], c)
  BY Zenon DEF Cache!Step, Cache!AddChecks, Cache!AddSets, Cache!Get, Cache!Load, Cache!LoadFails, Cache!Set, Cache!SetFails
<1>4. DOMAIN val' = Keys /\ OldAhead' /\ untouched' \subseteq Keys
      /\ \A h \in Keys : val'[h] = "none" => val[h] = "none"
  <2>1. CASE UNCHANGED <<val, untouched>>
    BY Zenon, <1>1, <2>1 DEF CacheInv, CacheTypeOK, OldAhead, Ahead
  <2>2. CASE Cache!Write(key[c], c)
    <3>1. key[c] \in Keys /\ c # "none"
      BY Zenon DEF CacheInv, CacheTypeOK, CacheConstants
    <3> QED BY <1>1, <2>2, <3>1, CacheWrites
  <2> QED BY Zenon, <1>3, <2>1, <2>2
<1>5. CacheTypeOK'
  BY Zenon, <1>1, <1>2, <1>4 DEF CacheInv, CacheTypeOK
<1>6. AddsCounted'
  <2>1. CASE ~Addable
    BY Zenon, <2>1 DEF AddsCounted
  <2>2. CASE Addable
    <3>1. client[c] # "missing"
      BY Zenon, <2>2 DEF CacheInv, AddsCounted
    <3>2. \A d \in Clients : (client'[d] = "true" => client[d] = "true") /\ (Addable => client'[d] # "missing")
      BY Zenon, <1>2, <2>2, <3>1 DEF CacheInv, CacheTypeOK, AddsCounted
    <3> QED BY <1>1, <1>4, <3>2, CacheCounts
  <2> QED BY Zenon, <2>1, <2>2
<1> QED BY <1>4, <1>5, <1>6 DEF CacheInv

\* Removing keys gives each of them a new Add.
LEMMA CacheRemoves ==
    ASSUME CacheConstants, CacheInv, NEW ks, Cache!Remove(ks), UNCHANGED <<key, client>>
    PROVE  /\ AddsCounted' /\ DOMAIN val' = Keys /\ removals' \in [Keys -> Nat]
           /\ \A k \in Keys : val'[k] = IF k \in ks THEN "none" ELSE val[k]
<1>1. /\ DOMAIN val' = Keys /\ removals' \in [Keys -> Nat]
      /\ \A k \in Keys : /\ val'[k] = IF k \in ks THEN "none" ELSE val[k]
                         /\ removals'[k] = IF k \in ks /\ val[k] # "none" THEN removals[k] + 1 ELSE removals[k]
  BY DEF Cache!Remove, Cache!Missing, CacheInv, CacheTypeOK
<1>2. AddsCounted'
  <2> SUFFICES ASSUME Addable, NEW k \in Keys
               PROVE  Cardinality(True(k)') <= IF val'[k] = "none" THEN removals'[k] ELSE 1 + removals'[k]
    BY Zenon DEF AddsCounted, CacheInv
  <2>1. True(k)' = True(k)
    BY Zenon DEF True
  <2>2. Cardinality(True(k)) \in Nat /\ removals[k] \in Nat
    BY Zenon, FS_Subset, FS_CardinalityType DEF CacheConstants, True, CacheInv, CacheTypeOK
  <2>3. Cardinality(True(k)) <= IF val[k] = "none" THEN removals[k] ELSE 1 + removals[k]
    BY Zenon DEF CacheInv, AddsCounted
  <2> QED BY <1>1, <2>1, <2>2, <2>3
<1> QED BY Zenon, <1>1, <1>2

\* Put, Forget and the steps of Flush.
LEMMA CacheOthers ==
    ASSUME CacheConstants, CacheInv,
           \/ \E k \in Keys : Cache!Put(k) \/ Cache!Forget(k)
           \/ Cache!Flush \/ Cache!Scan \/ Cache!Delete \/ Cache!FlushFails
    PROVE  CacheInv'
<1> USE DEF Cache!flushVars
<1>1. ASSUME NEW k \in Keys, Cache!Put(k) PROVE CacheInv'
  <2>1. Cache!Write(k, "put") /\ UNCHANGED <<op, key, client, removals, flush, page, found>>
    BY Zenon, <1>1 DEF Cache!Put
  <2>2. DOMAIN val' = Keys /\ OldAhead' /\ untouched' \subseteq Keys
        /\ \A h \in Keys : val'[h] = "none" => val[h] = "none"
    BY Zenon, <2>1, CacheWrites
  <2>3. CacheTypeOK'
    BY Zenon, <2>1, <2>2 DEF CacheInv, CacheTypeOK
  <2>4. \A c \in Clients : Addable => client[c] # "missing"
    BY Zenon DEF CacheInv, AddsCounted
  <2>5. AddsCounted'
    BY <2>1, <2>2, <2>4, CacheCounts
  <2> QED BY Zenon, <2>2, <2>3, <2>5 DEF CacheInv
<1>2. ASSUME NEW k \in Keys, Cache!Forget(k) PROVE CacheInv'
  <2>1. Cache!Remove({k}) /\ UNCHANGED <<op, key, client, flush, page, found, untouched>>
    BY Zenon, <1>2 DEF Cache!Forget
  <2>2. /\ AddsCounted' /\ DOMAIN val' = Keys /\ removals' \in [Keys -> Nat]
        /\ \A h \in Keys : val'[h] = IF h \in {k} THEN "none" ELSE val[h]
    BY Zenon, <2>1, CacheRemoves
  <2>3. OldAhead'
    BY Zenon, <2>1, <2>2 DEF CacheInv, CacheTypeOK, OldAhead, Ahead
  <2> QED BY <2>1, <2>2, <2>3 DEF CacheInv, CacheTypeOK
<1>3. CASE Cache!Delete
  <2>1. /\ Cache!Remove(found) /\ flush = "delete" /\ UNCHANGED <<op, key, client, page, untouched>> /\ found' = {}
        /\ flush' = IF page > Len(Pages) THEN "done" ELSE "scan"
    BY Zenon, <1>3 DEF Cache!Delete, Cache!Deleted, Cache!LastPage
  <2>2. /\ AddsCounted' /\ DOMAIN val' = Keys /\ removals' \in [Keys -> Nat]
        /\ \A h \in Keys : val'[h] = IF h \in found THEN "none" ELSE val[h]
    BY Zenon, <2>1, CacheRemoves
  <2>3. \A k \in untouched' : val'[k] = "none" \/ Ahead(k)'
    BY Zenon, <2>1, <2>2 DEF CacheInv, CacheTypeOK, OldAhead, Ahead
  <2>4. page \in Nat /\ Len(Pages) \in Nat
    BY DEF CacheInv, CacheTypeOK, CacheConstants
  <2>5. page > Len(Pages) => \A k : ~Ahead(k)'
    BY <2>1, <2>4 DEF Ahead
  <2>6. OldAhead'
    BY Zenon, <2>1, <2>3, <2>5 DEF OldAhead
  <2> QED BY <2>1, <2>2, <2>6 DEF CacheInv, CacheTypeOK
<1>4. CASE Cache!Flush \/ Cache!Scan \/ Cache!FlushFails
  <2>1. UNCHANGED <<val, op, key, client, removals>>
    BY Zenon, <1>4 DEF Cache!Flush, Cache!Scan, Cache!FlushFails
  <2>2. AddsCounted'
    BY Zenon, <2>1 DEF CacheInv, AddsCounted, True
  <2>3. CASE Cache!Flush
    <3>1. flush = "idle" /\ flush' = "scan" /\ untouched' \subseteq Keys /\ UNCHANGED <<page, found>>
      BY Zenon, <2>3 DEF Cache!Flush
    <3>2. page = 1
      BY Zenon, <3>1 DEF CacheInv, OldAhead
    <3>3. \A k \in Keys : Ahead(k)'
      BY Zenon, <3>1, <3>2 DEF CacheConstants, Ahead
    <3>4. OldAhead' /\ CacheTypeOK'
      BY <2>1, <3>1, <3>3 DEF OldAhead, CacheInv, CacheTypeOK
    <3> QED BY Zenon, <2>2, <3>4 DEF CacheInv
  <2>4. CASE Cache!Scan
    <3>1. /\ flush = "scan" /\ flush' = "delete" /\ page' = page + 1 /\ page <= Len(Pages) /\ UNCHANGED untouched
          /\ found' = {k \in Pages[page] : val[k] # "none"}
      BY Zenon, <2>4 DEF Cache!Scan, Cache!Missing
    <3>2. page \in 1..Len(Pages) /\ Pages[page] \subseteq Keys /\ page \in Nat /\ Len(Pages) \in Nat
      BY <3>1 DEF CacheInv, CacheTypeOK, CacheConstants
    <3>3. \A k : Ahead(k) => Ahead(k)' \/ k \in Pages[page]
      <4>1. \A p \in page..Len(Pages) : p = page \/ p \in page'..Len(Pages)
        BY ONLY <3>1, <3>2
      <4> QED BY Zenon, <4>1 DEF Ahead
    <3>4. OldAhead'
      BY Zenon, <2>1, <3>1, <3>3 DEF OldAhead, CacheInv
    <3>5. CacheTypeOK'
      BY <2>1, <3>1, <3>2 DEF CacheInv, CacheTypeOK
    <3> QED BY <2>2, <3>4, <3>5 DEF CacheInv
  <2>5. CASE Cache!FlushFails
    BY Zenon, <2>1, <2>2, <2>5 DEF Cache!FlushFails, CacheInv, CacheTypeOK, OldAhead
  <2> QED BY <1>4, <2>3, <2>4, <2>5
<1> QED BY <1>1, <1>2, <1>3, <1>4

\* Every step keeps the invariant.
LEMMA CacheStep == ASSUME CacheConstants PROVE CacheInv /\ [Cache!Next]_(Cache!vars) => CacheInv'
<1> SUFFICES ASSUME CacheInv, [Cache!Next]_(Cache!vars) PROVE CacheInv'
  BY Zenon
<1>1. CASE UNCHANGED Cache!vars
  <2>1. UNCHANGED <<val, op, key, client, removals, flush, page, found, untouched>>
    BY Zenon, <1>1 DEF Cache!vars
  <2> QED BY Zenon, <2>1 DEF CacheInv, CacheTypeOK, AddsCounted, True, OldAhead, Ahead
<1> QED BY <1>1, CacheAdds, CacheClients, CacheOthers DEF Cache!Next

\* CacheStore: one Add wins, and Flush removes what was there.
CacheIsSound == Cache!CacheIsSound

\* cache: between two removals of a key one Add returns true, and a Flush that ends without
\* an error has removed every key that was there when it began and was not written since,
\* for any number of clients, keys and pages of SCAN.
THEOREM CacheHolds == ASSUME CacheConstants PROVE Cache!Spec => []CacheIsSound
<1>1. CacheInv => Cache!CacheIsSound
  <2> SUFFICES ASSUME CacheInv PROVE Cache!OneAddWins /\ Cache!FlushRemovesOld
    BY Zenon DEF Cache!CacheIsSound
  <2>1. Cache!FlushRemovesOld
    BY Zenon DEF CacheInv, OldAhead, Cache!FlushRemovesOld, Cache!Missing
  <2>2. ASSUME NEW k \in Keys, Addable PROVE Cache!Cardinality(Cache!Winners(k)) <= 1 + removals[k]
    <3>1. Cache!Cardinality(Cache!Winners(k)) = Cardinality(True(k))
      BY Zenon DEF Cache!Winners, True, Cardinality, Cache!Cardinality
    <3>2. Cardinality(True(k)) \in Nat /\ removals[k] \in Nat
      BY Zenon, FS_Subset, FS_CardinalityType DEF CacheConstants, True, CacheInv, CacheTypeOK
    <3>3. Cardinality(True(k)) <= IF val[k] = "none" THEN removals[k] ELSE 1 + removals[k]
      BY Zenon, <2>2 DEF CacheInv, AddsCounted
    <3> QED BY <3>1, <3>2, <3>3
  <2> QED BY Zenon, <2>1, <2>2 DEF Cache!OneAddWins
<1>2. Cache!Init => CacheInv
  BY Zenon, CacheInit
<1> QED BY <1>1, <1>2, CacheStep, PTL DEF Cache!Spec, CacheIsSound

=============================================================================
