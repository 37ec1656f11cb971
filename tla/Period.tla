-------------------------------- MODULE Period -------------------------------
(***************************************************************************)
(* time/period: half-open intervals of absolute times, here the integers   *)
(* of a range, and unions, differences and gaps of lists of them.  A       *)
(* period is one that New can return: its end is not before its start.     *)
(* The zero value is an empty period.  A state is a list of periods and a  *)
(* window; a step appends a period to the list.                            *)
(***************************************************************************)
EXTENDS Integers, Sequences, TLAPS
LOCAL SE == INSTANCE SequencesExt

CONSTANTS
    MinTime, MaxTime,   \* the range of times; the zero time is in it
    MaxPeriods          \* bound of the length of the list

ASSUME TimesAssumption == MinTime \in Int /\ MaxTime \in Int /\ MinTime <= 0 /\ 0 <= MaxTime

VARIABLES periods, window

periodVars == <<periods, window>>

Times == MinTime..MaxTime
Periods == [start : Times, end : Times]
Zero == [start |-> 0, end |-> 0]

\* New, without its error: what it returns for end < start is the zero value.
New(start, end) == IF end < start THEN Zero ELSE [start |-> start, end |-> end]
Valid(p) == p \in Periods /\ p.start <= p.end

IsEmpty(p) == p.start = p.end

Equal(p, other) == (IsEmpty(p) /\ IsEmpty(other)) \/ (p.start = other.start /\ p.end = other.end)

Contains(p, t) == ~(t < p.start) /\ t < p.end

ContainsPeriod(p, other) ==
    IsEmpty(other) \/ (~IsEmpty(p) /\ ~(other.start < p.start) /\ ~(other.end > p.end))

Overlaps(p, other) == ~IsEmpty(p) /\ ~IsEmpty(other) /\ p.start < other.end /\ other.start < p.end

Adjacent(p, other) == ~IsEmpty(p) /\ ~IsEmpty(other) /\ (p.end = other.start \/ other.end = p.start)

\* The period of Intersect; it is false without overlap.
Intersect(p, other) ==
    IF ~Overlaps(p, other) THEN Zero
    ELSE [start |-> IF other.start > p.start THEN other.start ELSE p.start,
          end |-> IF other.end < p.end THEN other.end ELSE p.end]

-----------------------------------------------------------------------------
(* Lists of periods *)

Before(a, b) == a.start < b.start \/ (a.start = b.start /\ a.end < b.end)

\* Mutant: a period inside the last one cuts it.
ExtendShrinks(result, p) ==
    IF result = <<>> \/ p.start > result[Len(result)].end THEN Append(result, p)
    ELSE [result EXCEPT ![Len(result)].end = p.end]

\* One period of the sorted list: a new interval, or part of the last one.
Extend(result, p) ==
    IF result = <<>> \/ p.start > result[Len(result)].end THEN Append(result, p)
    ELSE IF p.end > result[Len(result)].end THEN [result EXCEPT ![Len(result)].end = p.end]
    ELSE result

Merge(list) ==
    SE!FoldLeft(Extend, <<>>, SE!SortSeq(SelectSeq(list, LAMBDA p : ~IsEmpty(p)), Before))

\* One turn of the loop of Subtract; done stands for its break, after which the
\* rest of p is appended, and for its return.
Cut(p, s, cut) ==
    IF s.done \/ cut.end <= s.cursor THEN s
    ELSE IF cut.start >= p.end THEN [s EXCEPT !.done = TRUE, !.result = Append(@, [start |-> s.cursor, end |-> p.end])]
    ELSE [result |-> IF cut.start > s.cursor THEN Append(s.result, [start |-> s.cursor, end |-> cut.start]) ELSE s.result,
          cursor |-> cut.end, done |-> cut.end >= p.end]

Subtract(p, others) ==
    LET s == SE!FoldLeft(LAMBDA t, cut : Cut(p, t, cut), [result |-> <<>>, cursor |-> p.start, done |-> FALSE], Merge(others))
    IN IF IsEmpty(p) THEN <<>>
       ELSE IF s.done THEN s.result ELSE Append(s.result, [start |-> s.cursor, end |-> p.end])

Gaps(list) ==
    LET merged == Merge(list)
    IN [i \in 1..(IF Len(merged) < 2 THEN 0 ELSE Len(merged) - 1) |->
           [start |-> merged[i].end, end |-> merged[i + 1].start]]

-----------------------------------------------------------------------------
AllPeriods == {p \in Periods : p.start <= p.end}

PeriodInit == periods = <<>> /\ window \in AllPeriods

Add == Len(periods) < MaxPeriods /\ \E p \in AllPeriods : periods' = Append(periods, p) /\ UNCHANGED window

-----------------------------------------------------------------------------
(* Properties *)

\* The predicates on endpoints say of p and q what the sets of times say:
\* Overlaps that some time is in both, ContainsPeriod that each time of q is
\* in p, Equal that the same times are in both; Intersect has exactly the
\* times of both, and periods that touch leave no time between them and
\* share none.
RelationsAgree(p, q) ==
    /\ Overlaps(p, q) <=> \E t \in Times : Contains(p, t) /\ Contains(q, t)
    /\ ContainsPeriod(p, q) <=> \A t \in Times : Contains(q, t) => Contains(p, t)
    /\ Equal(p, q) <=> \A t \in Times : Contains(p, t) <=> Contains(q, t)
    /\ \A t \in Times : Contains(Intersect(p, q), t) <=> Contains(p, t) /\ Contains(q, t)
    /\ Adjacent(p, q) => ~Overlaps(p, q)

Covered(list) == {t \in Times : \E i \in 1..Len(list) : Contains(list[i], t)}

\* Ascending intervals, none empty, no two of which overlap or touch.
Normal(list) ==
    /\ \A i \in 1..Len(list) : list[i].start < list[i].end
    /\ \A i \in 1..(Len(list) - 1) : list[i].end < list[i + 1].start

\* Merge covers what the periods cover, in ascending intervals that neither
\* overlap nor touch, whatever the order, duplicates and empty periods.
MergeIsUnion == Covered(Merge(periods)) = Covered(periods) /\ Normal(Merge(periods))

\* Subtract leaves the times of the window that no cut has, in the same form.
SubtractIsDifference ==
    /\ Covered(Subtract(window, periods)) = Covered(<<window>>) \ Covered(periods)
    /\ Normal(Subtract(window, periods))

\* The gaps are the uncovered times between two covered ones.
GapsAreInside ==
    /\ Covered(Gaps(periods)) =
           {t \in Times \ Covered(periods) : \E a, b \in Covered(periods) : a < t /\ t < b}
    /\ Normal(Gaps(periods))

\* Merge, Subtract, Gaps and the relations of two periods are what they are on the
\* sets of times.
PeriodsAgree ==
    /\ MergeIsUnion /\ SubtractIsDifference /\ GapsAreInside
    /\ periods # <<>> => RelationsAgree(window, periods[Len(periods)])

-----------------------------------------------------------------------------
(* What the operations on single periods mean, for all times *)

\* New only returns periods whose end is not before their start, for any two
\* times it is given.
LEMMA NewIsValid == ASSUME NEW s \in Times, NEW e \in Times PROVE Valid(New(s, e))
  BY TimesAssumption DEF New, Valid, Zero, Periods, Times

\* Two periods overlap exactly when they share a time: the later start is one.
LEMMA OverlapsMeansShared ==
    ASSUME NEW p, NEW q, Valid(p), Valid(q)
    PROVE Overlaps(p, q) <=> \E t \in Times : Contains(p, t) /\ Contains(q, t)
  <1>1. ASSUME Overlaps(p, q) PROVE \E t \in Times : Contains(p, t) /\ Contains(q, t)
    <2>1. CASE p.start <= q.start
      BY <1>1, <2>1, TimesAssumption DEF Overlaps, Contains, Valid, Periods, Times, IsEmpty
    <2>2. CASE q.start < p.start
      BY <1>1, <2>2, TimesAssumption DEF Overlaps, Contains, Valid, Periods, Times, IsEmpty
    <2> QED BY <2>1, <2>2, TimesAssumption DEF Valid, Periods, Times
  <1>2. ASSUME NEW t \in Times, Contains(p, t), Contains(q, t) PROVE Overlaps(p, q)
    BY <1>2, TimesAssumption DEF Overlaps, Contains, Valid, Periods, Times, IsEmpty
  <1> QED BY Zenon, <1>1, <1>2

\* ContainsPeriod compares endpoints, and means inclusion of the times: the
\* start of q and the time just before its end tell.
LEMMA ContainsPeriodMeansSubset ==
    ASSUME NEW p, NEW q, Valid(p), Valid(q)
    PROVE ContainsPeriod(p, q) <=> \A t \in Times : Contains(q, t) => Contains(p, t)
  <1>1. ASSUME ContainsPeriod(p, q), NEW t \in Times, Contains(q, t) PROVE Contains(p, t)
    BY <1>1, TimesAssumption DEF ContainsPeriod, Contains, Valid, Periods, Times, IsEmpty
  <1>2. ASSUME \A t \in Times : Contains(q, t) => Contains(p, t) PROVE ContainsPeriod(p, q)
    <2>1. CASE IsEmpty(q)
      BY Zenon, <2>1 DEF ContainsPeriod
    <2>2. CASE ~IsEmpty(q)
      <3>1. Contains(q, q.start) /\ Contains(q, q.end - 1) /\ q.start \in Times /\ q.end - 1 \in Times
        BY <2>2, TimesAssumption DEF Contains, Valid, Periods, Times, IsEmpty
      <3>2. Contains(p, q.start) /\ Contains(p, q.end - 1)
        BY Zenon, <1>2, <3>1
      <3> QED BY <3>2, TimesAssumption DEF ContainsPeriod, Contains, Valid, Periods, Times, IsEmpty
    <2> QED BY <2>1, <2>2
  <1> QED BY Zenon, <1>1, <1>2

\* Equal compares endpoints except for empty periods, and means that the same
\* times are in both.
LEMMA EqualMeansSame ==
    ASSUME NEW p, NEW q, Valid(p), Valid(q)
    PROVE Equal(p, q) <=> \A t \in Times : Contains(p, t) <=> Contains(q, t)
  <1>1. ASSUME Equal(p, q), NEW t \in Times PROVE Contains(p, t) <=> Contains(q, t)
    BY <1>1, TimesAssumption DEF Equal, Contains, Valid, Periods, Times, IsEmpty
  <1>2. ASSUME \A t \in Times : Contains(p, t) <=> Contains(q, t) PROVE Equal(p, q)
    <2>1. ContainsPeriod(p, q) /\ ContainsPeriod(q, p)
      BY <1>2, ContainsPeriodMeansSubset
    <2> QED BY <2>1, TimesAssumption DEF ContainsPeriod, Equal, Valid, Periods, Times, IsEmpty
  <1> QED BY <1>1, <1>2

\* Intersect is the intersection of the sets of times.
LEMMA IntersectMeansBoth ==
    ASSUME NEW p, NEW q, Valid(p), Valid(q), NEW t \in Times
    PROVE Contains(Intersect(p, q), t) <=> Contains(p, t) /\ Contains(q, t)
  <1>1. CASE Overlaps(p, q)
    BY <1>1, TimesAssumption DEF Intersect, Contains, Valid, Periods, Times
  <1>2. CASE ~Overlaps(p, q)
    <2>1. ~Contains(Intersect(p, q), t)
      BY Zenon, <1>2 DEF Intersect, Contains, Zero
    <2> QED BY <2>1, <1>2, OverlapsMeansShared
  <1> QED BY Zenon, <1>1, <1>2

\* The operations of period.go on endpoints agree with the sets of times, for
\* every two periods that New can return.
THEOREM Relations == ASSUME NEW p, NEW q, Valid(p), Valid(q) PROVE RelationsAgree(p, q)
  <1>1. Adjacent(p, q) => ~Overlaps(p, q)
    BY TimesAssumption DEF Adjacent, Overlaps, Valid, Periods, Times, IsEmpty
  <1> QED
    BY <1>1, OverlapsMeansShared, ContainsPeriodMeansSubset, EqualMeansSame, IntersectMeansBoth DEF RelationsAgree

=============================================================================
