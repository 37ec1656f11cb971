------------------------------ MODULE GroupRun ------------------------------
(***************************************************************************)
(* parallel.execute (parallel/parallel.go), on which Run, RunLimit,        *)
(* ForEach, Map, MapResults and Filter are built: one loop schedules the   *)
(* callbacks in an errgroup with a limit, the first error cancels the      *)
(* group's context, and a cancelled context stops the loop and the         *)
(* callbacks that have not begun.  MapResults (failFast = FALSE) keeps the *)
(* callbacks' errors to itself and fills in the entries that did not run.  *)
(***************************************************************************)
EXTENDS Naturals, FiniteSets

CONSTANTS
    Count,      \* number of callbacks
    Limit       \* errgroup limit; Count for Run

VARIABLES
    failFast,   \* whether a callback's error is returned to the group: FALSE in MapResults
    pc,         \* the loop: "check" and "go" of callback index, "wait", "return"
    index,      \* the callback being scheduled; all before it were
    call,       \* where each callback is
    outcome,    \* Result of each callback, as MapResults keeps it
    parent,     \* whether the caller's context is done
    cause,      \* context.Cause of the group's context: 0 none, a callback, or
                \* Count + 1 for the cause of the caller's context
    groupErr,   \* the error the errgroup keeps, numbered likewise
    result      \* what execute returns, numbered likewise

vars == <<failFast, pc, index, call, outcome, parent, cause, groupErr, result>>

Callbacks == 1..Count
Parent == Count + 1

Init ==
    /\ failFast \in BOOLEAN
    /\ pc = "check" /\ index = 1
    /\ call = [i \in Callbacks |-> "none"]
    /\ outcome = [i \in Callbacks |-> "zero"]
    /\ parent = FALSE /\ cause = 0 /\ groupErr = 0 /\ result = 0

-----------------------------------------------------------------------------
\* The caller's context is cancelled; the group's context is its child.
CancelParent ==
    /\ ~parent
    /\ parent' = TRUE
    /\ cause' = IF cause = 0 THEN Parent ELSE cause
    /\ UNCHANGED <<failFast, pc, index, call, outcome, groupErr, result>>

\* The head of the loop.
Check ==
    /\ pc = "check"
    /\ pc' = IF index > Count \/ cause # 0 THEN "wait" ELSE "go"
    /\ UNCHANGED <<failFast, index, call, outcome, parent, cause, groupErr, result>>

Active == {i \in Callbacks : call[i] \in {"begin", "run"}}

\* The semaphore of the errgroup.
SlotFree == Cardinality(Active) < Limit

\* group.Go waits for a slot, also when the context is done by now.
Go ==
    /\ pc = "go"
    /\ SlotFree
    /\ call' = [call EXCEPT ![index] = "begin"]
    /\ index' = index + 1
    /\ pc' = "check"
    /\ UNCHANGED <<failFast, outcome, parent, cause, groupErr, result>>

\* The errgroup keeps the first error and cancels its context with it.
Report(e) ==
    /\ groupErr' = IF groupErr = 0 THEN e ELSE groupErr
    /\ cause' = IF cause = 0 /\ groupErr = 0 THEN e ELSE cause

\* The first thing a scheduled callback does is to look at the group's context.
Begin(i) ==
    /\ call[i] = "begin"
    /\ IF cause # 0
         THEN call' = [call EXCEPT ![i] = "skipped"] /\ Report(cause)
         ELSE call' = [call EXCEPT ![i] = "run"] /\ UNCHANGED <<cause, groupErr>>
    /\ UNCHANGED <<failFast, pc, index, outcome, parent, result>>

\* The callback returns.
Ok(i) ==
    /\ call[i] = "run"
    /\ call' = [call EXCEPT ![i] = "ok"]
    /\ outcome' = [outcome EXCEPT ![i] = "value"]
    /\ UNCHANGED <<failFast, pc, index, parent, cause, groupErr, result>>

Fails(i) ==
    /\ call[i] = "run"
    /\ IF failFast
         THEN /\ call' = [call EXCEPT ![i] = "failed"]
              /\ Report(i)
              /\ UNCHANGED outcome
         ELSE /\ call' = [call EXCEPT ![i] = "ok"]
              /\ outcome' = [outcome EXCEPT ![i] = "error"]
              /\ UNCHANGED <<cause, groupErr>>
    /\ UNCHANGED <<failFast, pc, index, parent, result>>

\* Mutant: the caller's context goes before the group's error.
ReturnedLoopFirst == IF index <= Count THEN (IF parent THEN Parent ELSE 0) ELSE groupErr

\* What execute returns after group.Wait: the group's error, or the cause of
\* the caller's context when the loop stopped early.
Returned == IF groupErr # 0 THEN groupErr
            ELSE IF index <= Count THEN (IF parent THEN Parent ELSE 0) ELSE 0

AllBack == Active = {}

\* MapResults puts the error in every entry whose callback did not complete.
Filled == [i \in Callbacks |-> IF call[i] # "ok" THEN "context" ELSE outcome[i]]

Return ==
    /\ pc = "wait"
    /\ AllBack
    /\ pc' = "return"
    /\ result' = Returned
    /\ outcome' = IF ~failFast /\ Returned # 0 THEN Filled ELSE outcome
    /\ UNCHANGED <<failFast, index, call, parent, cause, groupErr>>

-----------------------------------------------------------------------------
CallStep(i) == Begin(i) \/ Ok(i) \/ Fails(i)

Next == CancelParent \/ Check \/ Go \/ Return \/ \E i \in Callbacks : CallStep(i)

Spec == Init /\ [][Next]_vars

-----------------------------------------------------------------------------
(* Properties *)

\* nil means that every callback ran and succeeded; an error is the first one: that
\* of a callback that failed, or the cause of the caller's context if that was done;
\* MapResults has an outcome for each value, the cause where the callback did not run.
ErrorIsTheFirst ==
    pc = "return" =>
        /\ result = 0 => \A i \in Callbacks : call[i] = "ok"
        /\ result \in Callbacks => call[result] = "failed"
        /\ result = Parent => parent
        /\ (\E i \in Callbacks : call[i] = "failed") => result = groupErr /\ result # 0
        /\ ~failFast => \A i \in Callbacks : outcome[i] = "context" <=> call[i] # "ok"

=============================================================================
