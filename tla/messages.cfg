\* The memory queue: two consumers race for two tasks, with delays and retries.  RabbitMQ: a
\* task and a message that does not decode, two workers, one fault.  CloudEvents: two events
\* without a content type, two receivers, two errors.  Webhook: the consumer's clock is behind
\* by more than the tolerance.
SPECIFICATION RunSpec
CONSTANTS
    Tasks = {t1, t2}
    Consumers = {c1, c2}
    Delays = {0, 1}
    MaxTime = 1
    MaxTries = 2
    NoTask = NoTask
    RabbitTasks = {"t1"}
    Malformed = {"bad"}
    RabbitConsumers = {"c1", "c2"}
    Prefetch = 1
    PublisherConfirm = TRUE
    MaxAttempts = 2
    MaxInt = 3
    MaxFaults = 1
    NoOne = "none"
    Receivers = {"r1", "r2"}
    ContentTypes = {"none"}
    MaxEvents = 2
    MaxErrors = 2
    IDs = {"a", "b"}
    Tolerance = 1
    Behind = 2
    MaxHookTime = 3
    MaxSends = 2
SYMMETRY Symmetry
INVARIANTS
    NoLostWakeup
    
    RotationRefusesNothing
PROPERTY
    AtLeastOnceDelivery
\* Messages, times and faults are bounded.
CHECK_DEADLOCK FALSE
