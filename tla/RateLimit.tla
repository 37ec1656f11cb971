------------------------------ MODULE RateLimit ------------------------------
(***************************************************************************)
(* ratelimit.Limiter over its stores: the generic cell rate algorithm of   *)
(* ratelimit/memory/store.go and of the script in ratelimit/redis.  A key  *)
(* has one number, its theoretical arrival time tat; the memory store      *)
(* drops it when it has passed, Redis when the TTL of the key, in whole    *)
(* milliseconds, is over.                                                  *)
(*                                                                         *)
(* The clock counts microseconds, periods are nanoseconds.  The ratios of  *)
(* the units and the largest integer are constants, so that rounding and   *)
(* overflow happen with small numbers.                                     *)
(***************************************************************************)
EXTENDS Integers, Sequences

CONSTANTS
    Micro,      \* nanoseconds of a microsecond
    Milli,      \* microseconds of a millisecond
    MaxInt,     \* math.MaxInt64
    Rates, Periods, Bursts,
    Redis,      \* whether the store is the Redis one
    MaxTime     \* bound on the clock

VARIABLES
    limit,      \* the Limiter's limit
    now,        \* the clock
    tat,        \* the stored arrival time, 0 if there is none
    until,      \* when the store drops it
    log         \* history: the takes allowed since the last Reset, each with its time
                \* and the units allowed before and after it

vars == <<limit, now, tat, until, log>>

-----------------------------------------------------------------------------
\* divideRoundUp
Ceil(value, divisor) == value \div divisor + (IF value % divisor # 0 THEN 1 ELSE 0)

\* Mutant: the interval is rounded down.
IntervalFloor(l) == (l.period \div l.rate) \div Micro + (IF l.period \div l.rate < Micro THEN 1 ELSE 0)

\* emissionInterval, in microseconds
Interval(l) == Ceil(Ceil(l.period, l.rate), Micro)

BurstOffset(l) == Interval(l) * l.burst

\* validateLimit
Validate(l) ==
    /\ l.rate <= l.period \div Micro
    /\ l.burst <= MaxInt \div Interval(l)
    /\ BurstOffset(l) <= MaxInt \div Micro

\* The arrival time a take at t starts from, and the one it would leave.
From(stored, t) == IF stored > t THEN stored ELSE t
After(stored, t, cost) == From(stored, t) + Interval(limit) * cost

Allowed(stored, t, cost) == After(stored, t, cost) <= t + BurstOffset(limit)

\* remaining
Remaining(at, t) ==
    IF t + BurstOffset(limit) <= at THEN 0 ELSE (t + BurstOffset(limit) - at) \div Interval(limit)

\* Decision.RetryAfter of a rejected take.
RetryAfter(stored, t, cost) == After(stored, t, cost) - BurstOffset(limit) - t

\* Decision.ResetAfter, of the arrival time in force after the decision.
ResetAfter(at, t) == at - t

-----------------------------------------------------------------------------
Limits == {l \in [rate : Rates, period : Periods, burst : Bursts] : Validate(l)}

Init == limit \in Limits /\ now = 1 /\ tat = 0 /\ until = 0 /\ log = <<>>

\* What the store still has.
Stored == IF until > now THEN tat ELSE 0

Total == IF log = <<>> THEN 0 ELSE log[Len(log)].to

Store(at, kept, cost) ==
    /\ tat' = at /\ until' = kept
    /\ log' = Append(log, [time |-> now, from |-> Total, to |-> Total + cost])
    /\ UNCHANGED <<limit, now>>

\* The memory store: cleanup removes what has passed; a rejected take stores nothing.
MemoryTake(cost) ==
    /\ ~Redis /\ Allowed(Stored, now, cost)
    /\ Store(After(Stored, now, cost), After(Stored, now, cost), cost)

\* The TTL of the Redis key, in whole milliseconds.
PX(duration) == Ceil(duration, Milli) * Milli

\* takeScript
RedisTake(cost) ==
    /\ Redis /\ Allowed(Stored, now, cost)
    /\ Store(After(Stored, now, cost), now + PX(After(Stored, now, cost) - now), cost)

\* AllowN accepts costs up to the burst.
AllowN == \E cost \in 1..limit.burst : MemoryTake(cost) \/ RedisTake(cost)

Reset ==
    /\ tat' = 0 /\ until' = 0 /\ log' = <<>>
    /\ UNCHANGED <<limit, now>>

\* The answer of the script: allowed, remaining, retry after and reset after.
Script(cost) ==
    IF Allowed(Stored, now, cost)
      THEN <<1, Remaining(After(Stored, now, cost), now), 0, ResetAfter(After(Stored, now, cost), now)>>
      ELSE <<0, Remaining(From(Stored, now), now), RetryAfter(Stored, now, cost), ResetAfter(From(Stored, now), now)>>

\* The answers the Go side takes for valid.
ParseDecision(raw) ==
    /\ raw[1] \in {0, 1} /\ raw[2] \in 0..limit.burst
    /\ \A i \in {3, 4} : raw[i] \in 0..(MaxInt \div Micro)

Tick == now < MaxTime /\ now' = now + 1 /\ UNCHANGED <<limit, tat, until, log>>

Next == Tick \/ Reset \/ AllowN

Spec == Init /\ [][Next]_vars

-----------------------------------------------------------------------------
(* Properties *)

Costs(i, j) == log[j].to - log[i].from

\* In any window the units allowed are at most the burst plus what Rate per Period
\* replenishes in it: rounding of the interval and dropped state never add to it.
RateIsRespected ==
    \A i, j \in 1..Len(log) : i <= j =>
        (Costs(i, j) - limit.burst) * limit.period <= (log[j].time - log[i].time) * Micro * limit.rate

\* RetryAfter is exact: the rejected cost is accepted then and not before.
RetryAfterIsExact ==
    \A cost \in 1..limit.burst : ~Allowed(Stored, now, cost) =>
        LET at == now + RetryAfter(Stored, now, cost) IN
        /\ Allowed(Stored, at, cost)
        /\ \A t \in now..(at - 1) : ~Allowed(Stored, t, cost)

\* Remaining is the most that is accepted at once, and no more than the burst.
RemainingIsExact ==
    LET n == Remaining(From(Stored, now), now) IN
    /\ n <= limit.burst
    /\ n > 0 => Allowed(Stored, now, n)
    /\ n < limit.burst => ~Allowed(Stored, now, n + 1)

\* After ResetAfter the full burst is accepted, and not before.
ResetAfterIsExact ==
    LET at == now + ResetAfter(From(Stored, now), now) IN
    /\ Allowed(Stored, at, limit.burst)
    /\ \A t \in now..(at - 1) : ~Allowed(Stored, t, limit.burst)

\* The durations of a decision do not overflow: limits are validated for it.
DurationsFit ==
    /\ ResetAfter(From(Stored, now), now) * Micro <= MaxInt
    /\ \A cost \in 1..limit.burst :
         ~Allowed(Stored, now, cost) => RetryAfter(Stored, now, cost) * Micro <= MaxInt

\* No answer of the script is rejected by parseDecision: validateLimit is strict
\* enough for every decision the script can reach.
DecisionParses == \A cost \in 1..limit.burst : ParseDecision(Script(cost))

\* The limiter is exact: it admits no more than its limit, and every decision says
\* truly, and in numbers that fit, what will be admitted and when.
DecisionsAreExact ==
    /\ RateIsRespected
    /\ RetryAfterIsExact /\ RemainingIsExact /\ ResetAfterIsExact
    /\ DurationsFit /\ DecisionParses

=============================================================================
