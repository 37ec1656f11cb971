------------------------------- MODULE Health -------------------------------
(***************************************************************************)
(* health.Registry: Check runs a snapshot of the registered checks by a    *)
(* bounded number of workers under a timeout; checks are registered        *)
(* meanwhile.  The HTTP handler answers 200 or 503 from the report.        *)
(***************************************************************************)
EXTENDS Naturals, Sequences, Functions

CONSTANTS
    Names,
    Concurrency,
    MaxRegisters    \* bound on the calls of Register

Workers == 1..Concurrency

VARIABLES
    checks,     \* the registry: a list of names
    panics,     \* calls of Register that panicked
    check,      \* Check: "new", "run" or the status of the HTTP answer
    entries, results,   \* its snapshot, and a result for each entry
    next, done,         \* the next index, and whether runCtx is done
    worker      \* place and index

vars == <<checks, panics, check, entries, results, next, done, worker>>

Init ==
    /\ checks = <<>> /\ panics = 0 /\ check = "new"
    /\ entries = <<>> /\ results = <<>> /\ next = 0 /\ done = FALSE
    /\ worker = [w \in Workers |-> <<"exit", 0>>]

Free(n) == n \notin Range(checks)

\* Register panics for a name that is taken.
Register(n) ==
    /\ Len(checks) + panics < MaxRegisters
    /\ IF Free(n) THEN checks' = Append(checks, n) /\ UNCHANGED panics
                  ELSE panics' = panics + 1 /\ UNCHANGED checks
    /\ UNCHANGED <<check, entries, results, next, done, worker>>

Check ==
    /\ check = "new" /\ check' = "run"
    /\ entries' = checks /\ results' = [i \in 1..Len(checks) |-> "none"]
    /\ worker' = [w \in Workers |-> IF w <= Len(checks) THEN <<"claim", 0>> ELSE <<"exit", 0>>]
    /\ UNCHANGED <<checks, panics, next, done>>

\* The timeout, or the end of the caller's context.
Timeout ==
    /\ check = "run" /\ ~done
    /\ done' = TRUE
    /\ UNCHANGED <<checks, panics, check, entries, results, next, worker>>

Go(w, place, i) == worker' = [worker EXCEPT ![w] = <<place, i>>]

Taken == next + 1

Claim(w) ==
    /\ worker[w][1] = "claim" /\ next' = Taken
    /\ IF next + 1 > Len(entries) THEN Go(w, "exit", 0) ELSE Go(w, "start", next + 1)
    /\ UNCHANGED <<checks, panics, check, entries, results, done>>

Report(w, r) == results' = [results EXCEPT ![worker[w][2]] = r]

Skipped == "cause"

\* An entry whose turn comes too late is not run.
Start(w) ==
    /\ worker[w][1] = "start"
    /\ IF done THEN Report(w, Skipped) /\ Go(w, "claim", 0)
               ELSE Go(w, "check", worker[w][2]) /\ UNCHANGED results
    /\ UNCHANGED <<checks, panics, check, entries, next, done>>

\* Mutant: a checker that ignored the timeout is healthy.
WithCauseErr(err) == IF done /\ err = "error" THEN "both" ELSE err

\* The cause of the context is joined to the checker's error.
WithCause(err) == IF ~done THEN err ELSE IF err = "healthy" THEN "cause" ELSE "both"

\* The checker returns nil or an error; a panic is recovered as an error.
RunChecker(w) ==
    /\ worker[w][1] = "check"
    /\ \E err \in {"healthy", "error"} : Report(w, WithCause(err))
    /\ Go(w, "claim", 0)
    /\ UNCHANGED <<checks, panics, check, entries, next, done>>

Healthy == \A i \in DOMAIN results : results[i] = "healthy"

AllExit == \A w \in Workers : worker[w][1] = "exit"

ServeHTTP ==
    /\ check = "run" /\ AllExit
    /\ check' = IF Healthy THEN "200" ELSE "503"
    /\ UNCHANGED <<checks, panics, entries, results, next, done, worker>>

Work(w) == Claim(w) \/ Start(w) \/ RunChecker(w)

Next ==
    \/ \E n \in Names : Register(n)
    \/ Check \/ Timeout \/ ServeHTTP \/ \E w \in Workers : Work(w)

Spec == Init /\ [][Next]_vars

-----------------------------------------------------------------------------
(* Properties *)

\* No step makes a check healthy once the timeout has passed: results that come late,
\* or not at all, carry the cause.
NothingHealthyLate ==
    \A i \in DOMAIN results : done /\ results[i] = "none" => results'[i] # "healthy"

=============================================================================
