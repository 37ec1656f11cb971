---------------------------- MODULE SignalRouter ----------------------------
(***************************************************************************)
(* signal.Router: Run subscribes, receives signals and offers each to the  *)
(* one pending slot of every registration for it; one worker per           *)
(* registration takes from the slot and runs the handler.  Shutdown, from  *)
(* any number of callers and with a context that may expire, and the       *)
(* context of Run end it.                                                  *)
(***************************************************************************)
EXTENDS Naturals, Sequences, FiniteSets

CONSTANTS
    Registrations,
    Signals,
    Routes,         \* the signals of each registration
    Callers,        \* callers of Shutdown
    MaxSignals      \* bound on the signals the system sends

VARIABLES
    state,      \* "new", "running", "stopping" or "stopped"; stop is closed from "stopping", done in "stopped"
    registered, subscribed,
    run, offers,    \* the place of Run, and the registrations still to be offered a signal
    incoming,   \* the channel of os/signal
    pending,    \* registrations whose slot is full
    worker,     \* the place of each worker
    cancelled,  \* the handlers' context is done
    ctxDone, aborted,   \* the context of Run is done, a Shutdown aborted
    shutdown,   \* the place or the result of each Shutdown
    result,     \* the result of Run
    sent

vars == <<state, registered, subscribed, run, offers, incoming, pending, worker,
          cancelled, ctxDone, aborted, shutdown, result, sent>>

Init ==
    /\ state = "new" /\ registered = {} /\ subscribed = FALSE
    /\ run = "new" /\ offers = {} /\ incoming = <<>> /\ pending = {}
    /\ worker = [r \in Registrations |-> "none"]
    /\ cancelled = FALSE /\ ctxDone = FALSE /\ aborted = FALSE
    /\ shutdown = [c \in Callers |-> "new"] /\ result = "nil" /\ sent = 0

Stopping == state \in {"stopping", "stopped"}
SetWorker(r, label) == worker' = [worker EXCEPT ![r] = label]

Register(r) ==
    /\ state = "new" /\ r \notin registered
    /\ registered' = registered \cup {r}
    /\ UNCHANGED <<state, subscribed, run, offers, incoming, pending, worker,
                   cancelled, ctxDone, aborted, shutdown, result, sent>>

-----------------------------------------------------------------------------
(* Run *)

Run ==
    /\ run = "new" /\ state = "new"
    /\ state' = "running" /\ run' = "subscribe"
    /\ UNCHANGED <<registered, subscribed, offers, incoming, pending, worker,
                   cancelled, ctxDone, aborted, shutdown, result, sent>>

Subscribe ==
    /\ run = "subscribe"
    /\ subscribed' = (~cancelled /\ registered # {})
    /\ worker' = [r \in Registrations |-> IF r \in registered THEN "idle" ELSE "none"]
    /\ run' = "check"
    /\ UNCHANGED <<state, registered, offers, incoming, pending, cancelled, ctxDone, aborted, shutdown, result, sent>>

\* The signals subscribed to; the channel has room for one of each.
Listened == UNION {Routes[r] : r \in registered}

\* os/signal sends without blocking: a signal that finds the channel full is lost.
Signal(s) ==
    /\ subscribed /\ sent < MaxSignals
    /\ s \in Listened
    /\ sent' = sent + 1
    /\ incoming' = IF Len(incoming) < Cardinality(Listened) THEN Append(incoming, s) ELSE incoming
    /\ UNCHANGED <<state, registered, subscribed, run, offers, pending, worker,
                   cancelled, ctxDone, aborted, shutdown, result>>

\* receive looks at the context and at stop before it waits for all three.
ReceiveCheck ==
    /\ run = "check"
    /\ run' = IF cancelled \/ Stopping THEN "stop" ELSE "select"
    /\ UNCHANGED <<state, registered, subscribed, offers, incoming, pending, worker,
                   cancelled, ctxDone, aborted, shutdown, result, sent>>

ReceiveEnds ==
    /\ run = "select" /\ (cancelled \/ Stopping)
    /\ run' = "stop"
    /\ UNCHANGED <<state, registered, subscribed, offers, incoming, pending, worker,
                   cancelled, ctxDone, aborted, shutdown, result, sent>>

Receive ==
    /\ run = "select" /\ incoming # <<>>
    /\ offers' = {r \in registered : Head(incoming) \in Routes[r]}
    /\ incoming' = Tail(incoming) /\ run' = "offer"
    /\ UNCHANGED <<state, registered, subscribed, pending, worker,
                   cancelled, ctxDone, aborted, shutdown, result, sent>>

Admitted == state = "running" /\ ~cancelled

\* A full slot keeps its signal, and the new one is dropped.
Filled(r) == pending \cup {r}

Offer(r) ==
    /\ run = "offer" /\ r \in offers
    /\ offers' = offers \ {r}
    /\ pending' = IF Admitted THEN Filled(r) ELSE pending
    /\ run' = IF offers' = {} THEN "check" ELSE "offer"
    /\ UNCHANGED <<state, registered, subscribed, incoming, worker,
                   cancelled, ctxDone, aborted, shutdown, result, sent>>

BeginShutdown ==
    state' = IF state = "new" THEN "stopped" ELSE IF state = "running" THEN "stopping" ELSE state

RunStops ==
    /\ run = "stop"
    /\ BeginShutdown /\ run' = "unsubscribe"
    /\ UNCHANGED <<registered, subscribed, offers, incoming, pending, worker,
                   cancelled, ctxDone, aborted, shutdown, result, sent>>

Unsubscribe ==
    /\ run = "unsubscribe"
    /\ subscribed' = FALSE /\ run' = "drain"
    /\ UNCHANGED <<state, registered, offers, incoming, pending, worker,
                   cancelled, ctxDone, aborted, shutdown, result, sent>>

Drain ==
    /\ run = "drain"
    /\ pending' = {} /\ run' = "wait"
    /\ UNCHANGED <<state, registered, subscribed, offers, incoming, worker,
                   cancelled, ctxDone, aborted, shutdown, result, sent>>

WorkersDone == \A r \in registered : worker[r] = "exited"

\* Mutant: the error of an aborting Shutdown is not part of the result.
RunResultOwn == IF ctxDone THEN "error" ELSE "nil"

\* errors.Join of the context's error and of the abort
RunResult == IF ctxDone \/ aborted THEN "error" ELSE "nil"

RunReturns ==
    /\ run = "wait" /\ WorkersDone
    /\ state' = "stopped" /\ run' = "done" /\ cancelled' = TRUE
    /\ result' = RunResult
    /\ UNCHANGED <<registered, subscribed, offers, incoming, pending, worker, ctxDone, aborted, shutdown, sent>>

\* The context of Run is cancelled.
CancelRun ==
    /\ run \notin {"new", "done"} /\ ~ctxDone
    /\ ctxDone' = TRUE /\ cancelled' = TRUE
    /\ UNCHANGED <<state, registered, subscribed, run, offers, incoming, pending, worker,
                   aborted, shutdown, result, sent>>

-----------------------------------------------------------------------------
(* Workers *)

WorkerStops(r) ==
    /\ worker[r] = "idle" /\ Stopping
    /\ SetWorker(r, "exited")
    /\ UNCHANGED <<state, registered, subscribed, run, offers, incoming, pending,
                   cancelled, ctxDone, aborted, shutdown, result, sent>>

WorkerTakes(r) ==
    /\ worker[r] = "idle" /\ r \in pending
    /\ SetWorker(r, "taken") /\ pending' = pending \ {r}
    /\ UNCHANGED <<state, registered, subscribed, run, offers, incoming,
                   cancelled, ctxDone, aborted, shutdown, result, sent>>

WorkerAdmits(r) ==
    /\ worker[r] = "taken"
    /\ SetWorker(r, IF Admitted THEN "handling" ELSE "exited")
    /\ UNCHANGED <<state, registered, subscribed, run, offers, incoming, pending,
                   cancelled, ctxDone, aborted, shutdown, result, sent>>

\* It returns, fails or panics.
HandlerReturns(r) ==
    /\ worker[r] = "handling"
    /\ SetWorker(r, "idle")
    /\ UNCHANGED <<state, registered, subscribed, run, offers, incoming, pending,
                   cancelled, ctxDone, aborted, shutdown, result, sent>>

-----------------------------------------------------------------------------
(* Shutdown *)

Shutdown(c) ==
    /\ shutdown[c] = "new"
    /\ BeginShutdown
    /\ shutdown' = [shutdown EXCEPT ![c] = IF state' = "stopped" THEN result ELSE "wait"]
    /\ UNCHANGED <<registered, subscribed, run, offers, incoming, pending, worker,
                   cancelled, ctxDone, aborted, result, sent>>

ShutdownDone(c) ==
    /\ shutdown[c] = "wait" /\ state = "stopped"
    /\ shutdown' = [shutdown EXCEPT ![c] = result]
    /\ UNCHANGED <<state, registered, subscribed, run, offers, incoming, pending, worker,
                   cancelled, ctxDone, aborted, result, sent>>

\* The context of the caller is done; a router that has stopped meanwhile is not aborted.
Aborts == state # "stopped"

ShutdownExpires(c) ==
    /\ shutdown[c] = "wait"
    /\ aborted' = (aborted \/ Aborts) /\ cancelled' = (cancelled \/ Aborts)
    /\ shutdown' = [shutdown EXCEPT ![c] = IF Aborts THEN "expired" ELSE result]
    /\ UNCHANGED <<state, registered, subscribed, run, offers, incoming, pending, worker, ctxDone, result, sent>>

-----------------------------------------------------------------------------
RunStep ==
    \/ Subscribe \/ ReceiveCheck \/ ReceiveEnds \/ Receive
    \/ RunStops \/ Unsubscribe \/ Drain \/ RunReturns
    \/ \E r \in Registrations : Offer(r)

Worker(r) == WorkerStops(r) \/ WorkerTakes(r) \/ WorkerAdmits(r)

Next ==
    \/ \E r \in Registrations : Register(r) \/ Worker(r) \/ HandlerReturns(r)
    \/ \E s \in Signals : Signal(s)
    \/ Run \/ RunStep \/ CancelRun
    \/ \E c \in Callers : Shutdown(c) \/ ShutdownDone(c) \/ ShutdownExpires(c)

Spec == Init /\ [][Next]_vars

-----------------------------------------------------------------------------
(* Properties *)

\* A Shutdown that gives up has its error in the result of Run, and handlers are
\* never cancelled behind a result of nil.
AbortIsReported ==
    run = "done" =>
        /\ (\E c \in Callers : shutdown[c] = "expired") => result = "error"
        /\ result = "nil" => ~ctxDone /\ ~aborted

=============================================================================
