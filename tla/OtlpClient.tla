------------------------------ MODULE OtlpClient -----------------------------
(***************************************************************************)
(* otel/otlp Client: Configure creates and registers one provider for each *)
(* enabled signal and runs the hooks, all under the mutex; Shutdown takes  *)
(* the providers under the mutex and shuts them down outside of it. A      *)
(* Configure that failed may be called again. Providers are numbered; the  *)
(* one that an option gave is the number of its signal, and 0 is none.     *)
(***************************************************************************)
EXTENDS Naturals, Sequences, FiniteSets

CONSTANTS
    Configurers, Shutters,   \* the goroutines that call Configure and Shutdown
    MaxCalls                 \* calls of Configure per goroutine

Signals == 1..3              \* trace, metric, log, in the order of Configure
Goroutines == Configurers \cup Shutters

VARIABLES
    signals,      \* the enabled signals
    transports,   \* the signals that have a transport
    provider,     \* config.tracerProvider, meterProvider, loggerProvider
    global,       \* the registered providers
    made,         \* providers in use: those given and those created
    down,         \* how often each provider was shut down
    lock,         \* c.mu: a goroutine, or "free"
    configured, shutdown,
    pc, step, err,\* where a goroutine is, at which signal, and what its call returned
    taken,        \* the providers that a Shutdown took
    calls

vars == <<signals, transports, provider, global, made, down, lock, configured, shutdown, pc, step, err, taken, calls>>

NewProviders == 4..(3 + 3 * MaxCalls * Cardinality(Configurers))

\* NewClient has every transport, the others one; WithSignals chooses the
\* signals, the provider options give some.
Init ==
    /\ signals \in SUBSET Signals /\ signals # {}
    /\ transports \in {Signals} \cup {{s} : s \in Signals}
    /\ provider \in [Signals -> {0}] \cup {[s \in Signals |-> IF s = g THEN g ELSE 0] : g \in Signals}
    /\ global = [s \in Signals |-> 0] /\ made = {provider[s] : s \in Signals} \ {0}
    /\ down = [n \in Signals \cup NewProviders |-> 0]
    /\ lock = "free" /\ configured = FALSE /\ shutdown = FALSE
    /\ pc = [g \in Goroutines |-> "idle"] /\ step = [g \in Goroutines |-> 1]
    /\ err = [g \in Goroutines |-> "none"] /\ taken = [g \in Goroutines |-> <<>>]
    /\ calls = [g \in Goroutines |-> 0]

\* The call of g returns; the deferred Unlock releases the mutex.
Return(g, e) ==
    /\ pc' = [pc EXCEPT ![g] = "idle"] /\ err' = [err EXCEPT ![g] = e]
    /\ lock' = "free"

Goto(g, p) == pc' = [pc EXCEPT ![g] = p] /\ UNCHANGED <<err, lock>>

-----------------------------------------------------------------------------
(* Configure *)

Call(g) ==
    /\ pc[g] = "idle" /\ calls[g] < (IF g \in Configurers THEN MaxCalls ELSE 1)
    /\ calls' = [calls EXCEPT ![g] = @ + 1] /\ step' = [step EXCEPT ![g] = 1]
    /\ pc' = [pc EXCEPT ![g] = IF g \in Configurers THEN "configure" ELSE "shutdown"]
    /\ err' = [err EXCEPT ![g] = "none"]
    /\ UNCHANGED <<signals, transports, provider, global, made, down, lock, configured, shutdown, taken>>

\* The switch at the start.
Refuses == IF shutdown THEN "ErrClientShutdown" ELSE IF configured THEN "ErrClientConfigured" ELSE "nil"

\* The switch; then the resource, whose detection may fail, and the propagator.
Configure(g) ==
    /\ pc[g] = "configure" /\ lock = "free"
    /\ \/ Refuses # "nil" /\ Return(g, Refuses)
       \/ Refuses = "nil" /\ Return(g, "resource")
       \/ /\ Refuses = "nil"
          /\ pc' = [pc EXCEPT ![g] = "signals"] /\ lock' = g /\ UNCHANGED err
    /\ UNCHANGED <<signals, transports, provider, global, made, down, configured, shutdown, step, taken, calls>>

Fresh == CHOOSE n \in NewProviders : n \notin made /\ \A k \in NewProviders : k < n => k \in made

\* Mutant: every Configure creates its providers.
ExistingIgnored(s) == 0

\* newTracerProvider and its like begin with the provider that is already there.
Existing(s) == provider[s]

\* The provider is stored in the configuration and registered.
Register(s, n) ==
    /\ provider' = [provider EXCEPT ![s] = n] /\ global' = [global EXCEPT ![s] = n]
    /\ made' = made \cup {n}

ConfigureSignal(g) ==
    /\ pc[g] = "signals" /\ step[g] \in Signals
    /\ LET s == step[g]
           next == step' = [step EXCEPT ![g] = s + 1] /\ UNCHANGED <<pc, err, lock>>
       IN \/ s \notin signals /\ next /\ UNCHANGED <<provider, global, made>>
          \/ s \in signals /\ Existing(s) # 0 /\ next /\ Register(s, Existing(s))
          \/ s \in signals /\ Existing(s) = 0 /\ s \in transports /\ next /\ Register(s, Fresh)
          \* Without a transport, or when the exporter cannot be made.
          \/ s \in signals /\ Existing(s) = 0 /\ Return(g, "provider") /\ UNCHANGED <<step, provider, global, made>>
    /\ UNCHANGED <<signals, transports, down, configured, shutdown, taken, calls>>

\* The hooks run under the mutex; one of them may fail.
RunHooks(g) ==
    /\ pc[g] = "signals" /\ step[g] \notin Signals
    /\ \/ Return(g, "hook") /\ UNCHANGED configured
       \/ Return(g, IF shutdown THEN "ErrClientShutdown" ELSE "nil") /\ configured' = ~shutdown
    /\ UNCHANGED <<signals, transports, provider, global, made, down, shutdown, step, taken, calls>>

-----------------------------------------------------------------------------
(* Shutdown *)

\* The flag that Shutdown leaves behind.
ShutdownFlag == TRUE

Shutdown(g) ==
    /\ pc[g] = "shutdown" /\ lock = "free"
    /\ \/ shutdown /\ Return(g, "nil") /\ UNCHANGED <<shutdown, taken>>
       \/ /\ ~shutdown /\ Goto(g, "closing")
          /\ shutdown' = ShutdownFlag /\ taken' = [taken EXCEPT ![g] = <<provider[1], provider[2], provider[3]>>]
    /\ UNCHANGED <<signals, transports, provider, global, made, down, configured, step, calls>>

\* One provider after the other, outside of the mutex; an error is joined.
ShutdownProvider(g) ==
    /\ pc[g] = "closing" /\ taken[g] # <<>>
    /\ down' = (IF Head(taken[g]) = 0 THEN down ELSE [down EXCEPT ![Head(taken[g])] = @ + 1])
    /\ taken' = [taken EXCEPT ![g] = Tail(@)]
    /\ err' \in {err} \cup (IF Head(taken[g]) = 0 THEN {} ELSE {[err EXCEPT ![g] = "shutdown"]})
    /\ UNCHANGED <<signals, transports, provider, global, made, lock, configured, shutdown, pc, step, calls>>

ShutdownReturns(g) ==
    /\ pc[g] = "closing" /\ taken[g] = <<>>
    /\ pc' = [pc EXCEPT ![g] = "idle"] /\ err' = [err EXCEPT ![g] = IF @ = "none" THEN "nil" ELSE @]
    /\ UNCHANGED <<signals, transports, provider, global, made, down, lock, configured, shutdown, step, taken, calls>>

-----------------------------------------------------------------------------
Run(g) ==
    Configure(g) \/ ConfigureSignal(g) \/ RunHooks(g) \/ Shutdown(g) \/ ShutdownProvider(g) \/ ShutdownReturns(g)

Next == \E g \in Goroutines : Call(g) \/ Run(g)

Spec == Init /\ [][Next]_vars

-----------------------------------------------------------------------------

\* Once every Shutdown has returned, each provider that the client was given or
\* created was shut down, also those of a Configure that failed half-way and of
\* the one that followed.
NoProviderLeaks ==
    (shutdown /\ \A g \in Goroutines : pc[g] = "idle") => \A n \in made : down[n] = 1

=============================================================================
