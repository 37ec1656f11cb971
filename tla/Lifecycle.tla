----------------------------- MODULE Lifecycle -----------------------------
(***************************************************************************)
(* lifecycle.Runner: Bootstrap starts the providers in order and rolls     *)
(* back when one fails; Shutdown stops them in reverse order, once,        *)
(* whoever calls it; Run is Bootstrap, a handler and Shutdown.  Any number *)
(* of threads call them concurrently.                                      *)
(***************************************************************************)
EXTENDS Naturals, Sequences, FiniteSets

CONSTANTS
    Providers,      \* how many providers there are
    Threads,        \* callers of Bootstrap, Run or Shutdown
    MaxFaults       \* bound on failing providers

VARIABLES
    state,      \* "new", "starting", "started", "stopping" or "stopped"
    at,         \* the provider that starts or stops next
    provider,   \* "new", "started", "failed", "stopped" or "stuck" (its Shutdown failed)
    failed,     \* a Shutdown of a provider failed in this round
    shutdownErr,
    op, pc,     \* what each thread calls, and its place or outcome
    trace,      \* history: the starts and stops, in order
    faults

vars == <<state, at, provider, failed, shutdownErr, op, pc, trace, faults>>

Results == {"nil", "error", "already", "startup"}

Init ==
    /\ state = "new" /\ at = 1 /\ provider = [i \in 1..Providers |-> "new"]
    /\ failed = FALSE /\ shutdownErr = "nil"
    /\ op \in [Threads -> {"bootstrap", "run", "shutdown"}] /\ pc = [t \in Threads |-> "new"]
    /\ trace = <<>> /\ faults = 0

Goto(t, label) == pc' = [pc EXCEPT ![t] = label]
Fault == faults < MaxFaults /\ faults' = faults + 1
Mark(i, status, what) ==
    provider' = [provider EXCEPT ![i] = status] /\ trace' = Append(trace, <<what, i>>)

-----------------------------------------------------------------------------
(* Bootstrap *)

MayStart == state = "new"

Bootstrap(t) ==
    /\ pc[t] = "new" /\ op[t] \in {"bootstrap", "run"}
    /\ IF MayStart THEN state' = "starting" /\ at' = 1 /\ Goto(t, "bootstrap")
                   ELSE UNCHANGED <<state, at>> /\ Goto(t, "already")
    /\ UNCHANGED <<provider, failed, shutdownErr, op, trace, faults>>

ProviderStarts(t) ==
    /\ pc[t] = "bootstrap" /\ at <= Providers
    /\ Mark(at, "started", "start") /\ at' = at + 1
    /\ UNCHANGED <<state, failed, shutdownErr, op, pc, faults>>

\* The rollback begins before the provider that failed.
RollbackFrom == at - 1

\* An error, or a nil context.
ProviderFails(t) ==
    /\ pc[t] = "bootstrap" /\ at <= Providers /\ Fault
    /\ provider' = [provider EXCEPT ![at] = "failed"]
    /\ at' = RollbackFrom /\ Goto(t, "rollback")
    /\ UNCHANGED <<state, failed, shutdownErr, op, trace>>

Started(t) ==
    /\ pc[t] = "bootstrap" /\ at > Providers
    /\ state' = "started"
    /\ Goto(t, IF op[t] = "run" THEN "handler" ELSE "nil")
    /\ UNCHANGED <<at, provider, failed, shutdownErr, op, trace, faults>>

\* The handler of Run returns, with or without an error.
HandlerReturns(t) ==
    /\ pc[t] = "handler" /\ Goto(t, "shutdown")
    /\ UNCHANGED <<state, at, provider, failed, shutdownErr, op, trace, faults>>

-----------------------------------------------------------------------------
(* Stopping the providers, in a rollback or a Shutdown *)

\* Mutant: the first error ends the loop.
AfterStopFailsEnds == 0

\* The loop goes on after an error.
AfterStopFails == at - 1

Stops(t) == pc[t] \in {"rollback", "stopping"} /\ at >= 1

ProviderStops(t) ==
    /\ Stops(t)
    /\ Mark(at, "stopped", "stop") /\ at' = at - 1
    /\ UNCHANGED <<state, failed, shutdownErr, op, pc, faults>>

ProviderStopFails(t) ==
    /\ Stops(t) /\ Fault
    /\ Mark(at, "stuck", "stop") /\ at' = AfterStopFails
    /\ failed' = TRUE
    /\ UNCHANGED <<state, shutdownErr, op, pc>>

KeptError == IF failed THEN "error" ELSE "nil"

Outcome(t) == IF pc[t] = "rollback" THEN "startup" ELSE IF failed THEN "error" ELSE "nil"

Stopped(t) ==
    /\ pc[t] \in {"rollback", "stopping"} /\ at = 0
    /\ state' = "stopped" /\ shutdownErr' = KeptError
    /\ Goto(t, Outcome(t))
    /\ UNCHANGED <<at, provider, failed, op, trace, faults>>

-----------------------------------------------------------------------------
(* Shutdown *)

Calls(t) == pc[t] = "shutdown" \/ (pc[t] = "new" /\ op[t] = "shutdown")

ShutdownStarting(t) ==
    /\ Calls(t) /\ state = "starting" /\ Goto(t, "waitStart")
    /\ UNCHANGED <<state, at, provider, failed, shutdownErr, op, trace, faults>>

ShutdownNew(t) ==
    /\ Calls(t) /\ state = "new" /\ Goto(t, "nil")
    /\ UNCHANGED <<state, at, provider, failed, shutdownErr, op, trace, faults>>

ShutdownStarted(t) ==
    /\ Calls(t) /\ state = "started"
    /\ state' = "stopping" /\ at' = Providers /\ failed' = FALSE /\ Goto(t, "stopping")
    /\ UNCHANGED <<provider, shutdownErr, op, trace, faults>>

ShutdownStopping(t) ==
    /\ Calls(t) /\ state = "stopping" /\ Goto(t, "waitStop")
    /\ UNCHANGED <<state, at, provider, failed, shutdownErr, op, trace, faults>>

ShutdownStopped(t) ==
    /\ Calls(t) /\ state = "stopped" /\ Goto(t, shutdownErr)
    /\ UNCHANGED <<state, at, provider, failed, shutdownErr, op, trace, faults>>

\* Mutant: only stopDone is closed.
WokenStop(t) ==
    /\ pc[t] \in {"waitStart", "waitStop"} /\ state = "stopped"
    /\ Goto(t, "shutdown")
    /\ UNCHANGED <<state, at, provider, failed, shutdownErr, op, trace, faults>>

\* startDone or stopDone is closed: the loop looks at the state again.
Woken(t) ==
    /\ \/ pc[t] = "waitStart" /\ state # "starting"
       \/ pc[t] = "waitStop" /\ state = "stopped"
    /\ Goto(t, "shutdown")
    /\ UNCHANGED <<state, at, provider, failed, shutdownErr, op, trace, faults>>

Shutdown(t) ==
    \/ ShutdownNew(t) \/ ShutdownStarting(t) \/ ShutdownStarted(t)
    \/ ShutdownStopping(t) \/ ShutdownStopped(t) \/ Woken(t)

-----------------------------------------------------------------------------
Step(t) ==
    \/ Bootstrap(t) \/ ProviderStarts(t) \/ ProviderFails(t) \/ Started(t) \/ HandlerReturns(t)
    \/ ProviderStops(t) \/ ProviderStopFails(t) \/ Stopped(t) \/ Shutdown(t)

Next == \E t \in Threads : Step(t)

\* Providers and handlers return.
Fairness == \A t \in Threads : WF_vars(Step(t))

Spec == Init /\ [][Next]_vars /\ Fairness

-----------------------------------------------------------------------------
(* Properties *)

\* A provider is started once and stopped once, after the ones started after it, and
\* a runner that has stopped has told every provider that started, although others
\* failed to stop.
StopsMirrorStarts ==
    /\ \A i, j \in 1..Len(trace) :
        /\ i # j => trace[i] # trace[j]
        /\ (i < j /\ trace[i][1] = "stop" /\ trace[j][1] = "stop") => trace[j][2] < trace[i][2]
        /\ trace[j][1] = "stop" => \E k \in 1..(j - 1) : trace[k] = <<"start", trace[j][2]>>
    /\ state = "stopped" => \A i \in 1..Providers : provider[i] # "started"

\* Every call returns.
CallsReturn == <>(\A t \in Threads : pc[t] \in Results)

=============================================================================
