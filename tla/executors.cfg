\* Three calls for one key, one expiry, one fault; two triggers and flushes of a debouncer;
\* three attempts; two calls of Submit, one of TrySubmit and two workers; three inputs;
\* four callbacks, two at a time.
SPECIFICATION RunSpec
CONSTANTS
    Calls = {"c1", "c2", "c3"}
    Fingerprints = {"empty", "a", "b"}
    MaxExpiries = 1
    MaxFaults = 1
    Flushers = {"f1", "f2"}
    MaxTriggers = 2
    MaxAttempts = 3
    Errors <- RetryErrors
    PoolCalls = {"s1", "s2", "y1"}
    TryCalls = {"y1"}
    PoolWorkers = {"w1", "w2"}
    QueueSize = 1
    Stops = {"k1"}
    NoCall = "none"
    StreamWorkers = {"w1", "w2", "w3"}
    MaxInputs = 3
    Count = 4
    Limit = 2
INVARIANTS
    WorkedOncePerExpiry
    LateFinisherHarmless
    ShutdownNilMeansFinished
    NilMeansAllDelivered
    ErrorIsTheFirst
    FlushCoversEarlierItems
    FlushCoversLatest
    ResponseOfLastAttempt
PROPERTY
    FuturesComplete
\* Every call returns.
CHECK_DEADLOCK FALSE
