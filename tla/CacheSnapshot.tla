---------------------------- MODULE CacheSnapshot ----------------------------
(***************************************************************************)
(* cache.Snapshot, SnapshotWithErr and SnapshotWithExpireAndErr            *)
(* (cache/snapshot.go): Lookup reads under the read lock and, on a miss,   *)
(* looks again under the write lock before it calls fn.  One key; the n-th *)
(* call of fn returns n.                                                   *)
(***************************************************************************)
EXTENDS Naturals, FiniteSets

CONSTANTS
    Threads,    \* one Lookup each
    Expires,    \* whether entries expire
    MaxEvents   \* bound on expiries, resets and cleanups

VARIABLES
    entry,      \* the value in the map, 0 if none
    stale,      \* it has expired
    writer,     \* the thread that holds the write lock, or "none"
    pc, value,  \* each thread's place and the value it has
    calls,      \* history: calls of fn
    gone,       \* history: the values that expired or were removed
    before,     \* history: gone when the thread's Lookup began
    events

vars == <<entry, stale, writer, pc, value, calls, gone, before, events>>

\* fn runs under the write lock.
TypeOK ==
    /\ calls \in Nat /\ entry \in 0..calls /\ stale \in BOOLEAN
    /\ writer \in Threads \cup {"none"}
    /\ pc \in [Threads -> {"new", "read", "lock", "again", "call", "done"}]
    /\ \A t \in Threads : writer = t <=> pc[t] \in {"again", "call"}
    /\ value \in [Threads -> 0..calls]
    /\ gone \subseteq 1..calls /\ before \in [Threads -> SUBSET (1..calls)]
    /\ events \in 0..MaxEvents

Init ==
    /\ entry = 0 /\ stale = FALSE /\ writer = "none"
    /\ pc = [t \in Threads |-> "new"] /\ value = [t \in Threads |-> 0]
    /\ calls = 0 /\ gone = {} /\ before = [t \in Threads |-> {}] /\ events = 0

Goto(t, label) == pc' = [pc EXCEPT ![t] = label]
Unlocked == writer = "none"

\* Mutant: an expired entry is a hit.
HitStale == entry # 0

Hit == entry # 0 /\ ~stale

Lookup(t) ==
    /\ pc[t] = "new"
    /\ before' = [before EXCEPT ![t] = gone]
    /\ Goto(t, "read")
    /\ UNCHANGED <<entry, stale, writer, value, calls, gone, events>>

\* Under the read lock, with the look at the clock that follows it.
Read(t) ==
    /\ pc[t] = "read" /\ Unlocked
    /\ value' = [value EXCEPT ![t] = entry]
    /\ Goto(t, IF Hit THEN "done" ELSE "lock")
    /\ UNCHANGED <<entry, stale, writer, calls, gone, before, events>>

Lock(t) ==
    /\ pc[t] = "lock" /\ Unlocked
    /\ writer' = t
    /\ Goto(t, "again")
    /\ UNCHANGED <<entry, stale, value, calls, gone, before, events>>

FoundAgain == Hit

Again(t) ==
    /\ pc[t] = "again"
    /\ IF FoundAgain
         THEN value' = [value EXCEPT ![t] = entry] /\ writer' = "none" /\ Goto(t, "done")
         ELSE UNCHANGED <<value, writer>> /\ Goto(t, "call")
    /\ UNCHANGED <<entry, stale, calls, gone, before, events>>

\* fn returns; its value, or error, is stored.
Call(t) ==
    /\ pc[t] = "call"
    /\ calls' = calls + 1
    /\ entry' = calls' /\ stale' = FALSE /\ value' = [value EXCEPT ![t] = calls']
    /\ writer' = "none"
    /\ Goto(t, "done")
    /\ UNCHANGED <<gone, before, events>>

-----------------------------------------------------------------------------
Event == events < MaxEvents /\ events' = events + 1
Remove == entry' = 0 /\ stale' = FALSE /\ gone' = gone \cup ({entry} \ {0})

Expire ==
    /\ Expires /\ Hit /\ Event
    /\ stale' = TRUE /\ gone' = gone \cup {entry}
    /\ UNCHANGED <<entry, writer, pc, value, calls, before>>

Reset ==
    /\ Unlocked /\ Event
    /\ Remove
    /\ UNCHANGED <<writer, pc, value, calls, before>>

CleanupExpired ==
    /\ Unlocked /\ stale /\ Event
    /\ Remove
    /\ UNCHANGED <<writer, pc, value, calls, before>>

-----------------------------------------------------------------------------
Step(t) == Read(t) \/ Lock(t) \/ Again(t) \/ Call(t)

Next == Expire \/ Reset \/ CleanupExpired \/ \E t \in Threads : Lookup(t) \/ Step(t)

Spec == Init /\ [][Next]_vars

-----------------------------------------------------------------------------
(* Properties *)

\* However many goroutines miss at once, fn is called once for each time there was
\* nothing valid in the map.
CalledOncePerMiss == calls <= 1 + Cardinality(gone)

\* Lookup never returns a value that had expired or was removed before it began.
NeverOlderThanCall == \A t \in Threads : pc[t] = "done" => value[t] \notin before[t] \cup {0}

=============================================================================
