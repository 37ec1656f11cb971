\* Two starts and stops of a UDP server; a configurer and two shutters of the OTLP client; two
\* listeners and workers of a dispatcher; three providers and threads of a lifecycle; two
\* registrations that share a signal; three checks and two workers.
SPECIFICATION RunSpec
CONSTANTS
    Starters = {s1, s2}
    Stoppers = {t1, t2}
    ChanSize = 1
    MaxPackets = 3
    MaxFaults = 1
    Configurers = {"g1"}
    Shutters = {"g2", "g3"}
    MaxCalls = 2
    Listeners = {"l1", "l2"}
    MaxWorkers = 2
    Callers = {"c1", "c2"}
    Providers = 3
    Threads = {"t1", "t2", "t3"}
    MaxFailures = 2
    Registrations = {"r1", "r2"}
    OSSignals = {"s1", "s2"}
    Routes <- SharedSignal
    MaxSignals = 2
    Names = {"a", "b", "c"}
    Concurrency = 2
    MaxRegisters = 4
INVARIANTS
    NoConnectionLeaks
    AbortIsReported
    StopsMirrorStarts
    NilMeansAllCalled
    NoProviderLeaks
PROPERTIES
    NothingHealthyLate
    CallsReturn
\* Calls and packets are bounded.
CHECK_DEADLOCK FALSE
