------------------------------ MODULE MCServices -----------------------------
(***************************************************************************)
(* Instances of the components that a service is made of.  They share no   *)
(* state: a behaviour chooses one of them and leaves the others in their   *)
(* initial states, so the run visits every behaviour of each.              *)
(***************************************************************************)
EXTENDS ServiceProofs

VARIABLE which      \* the component that runs

\* Two registrations that share a signal.
SharedSignal == [r \in {"r1", "r2"} |-> IF r = "r1" THEN {"s1"} ELSE {"s1", "s2"}]

sigVars == <<sigState, registered, subscribed, run, offers, incoming, pending, sigWorker,
             cancelled, ctxDone, aborted, shutdown, result, sent>>
lifeVars == <<state, at, provider, failed, shutdownErr, op, pc, trace, lifeFaults>>
eventVars == <<listeners, sub, unsub, d, w>>
healthVars == <<checks, panics, check, entries, results, next, done, checker>>
otlpVars == <<signals, transports, otlpProvider, global, made, down, lock, configured, otlpShutdown,
              otlpPc, step, err, taken, calls>>
allVars == <<which, vars, sigVars, lifeVars, eventVars, healthVars, otlpVars>>

\* A component that is not chosen rests in one of its initial states.
RunInit ==
    /\ Init /\ Router!Init /\ Life!Init /\ Event!Init /\ Registry!Init /\ Otlp!Init
    /\ which \in {"udp", "signal", "lifecycle", "event", "health", "otlp"}
    /\ which # "lifecycle" => \A t \in DOMAIN op : op[t] = "run"
    /\ which # "event" => d.concurrency = 1 /\ d.continue
    /\ which # "otlp" => signals = {1} /\ transports = {1} /\ otlpProvider[1] = 0 /\ made = {}

OnlyUDP == UNCHANGED <<which, sigVars, lifeVars, eventVars, healthVars, otlpVars>>
OnlySig == UNCHANGED <<which, vars, lifeVars, eventVars, healthVars, otlpVars>>
OnlyLife == UNCHANGED <<which, vars, sigVars, eventVars, healthVars, otlpVars>>
OnlyEvent == UNCHANGED <<which, vars, sigVars, lifeVars, healthVars, otlpVars>>
OnlyHealth == UNCHANGED <<which, vars, sigVars, lifeVars, eventVars, otlpVars>>
OnlyOtlp == UNCHANGED <<which, vars, sigVars, lifeVars, eventVars, healthVars>>

RunNext ==
    \/ which = "udp" /\ Next /\ OnlyUDP
    \/ which = "signal" /\ Router!Next /\ OnlySig
    \/ which = "lifecycle" /\ Life!Next /\ OnlyLife
    \/ which = "event" /\ Event!Next /\ OnlyEvent
    \/ which = "health" /\ Registry!Next /\ OnlyHealth
    \/ which = "otlp" /\ Otlp!Next /\ OnlyOtlp

\* The fairness of UDPServer and of Lifecycle, when they run.
RunFairness ==
    /\ \A s \in Starters : WF_vars(which = "udp" /\ Serving(s))
    /\ \A t \in Stoppers : WF_vars(which = "udp" /\ (StopTakes(t) \/ StopCloses(t)))
    /\ \A t \in Threads : WF_lifeVars(which = "lifecycle" /\ Life!Step(t))

RunSpec == RunInit /\ [][RunNext]_allVars /\ RunFairness

-----------------------------------------------------------------------------
(* Properties of the components *)

\* UDPServer and Lifecycle: a stopped server's Start returns although the handler
\* hangs, and so does every Bootstrap, Run and Shutdown, whoever waits for whom.
CallsReturn == StopEndsStart /\ (which = "lifecycle" => Life!CallsReturn)
=============================================================================
