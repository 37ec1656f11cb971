\* Two workers, a task, an entry that does not decode, a crash.
SPECIFICATION Spec
CONSTANTS
    Tasks = {t1, bad}
    Malformed = {bad}
    Workers = {w1, w2}
    MaxAttempts = 2
    MaxEntries = 3
    MaxClaims = 2
    MaxCrashes = 1
    PromoteSize = 1
    MaxInt = 3
    NoEntry = NoEntry
    NoTask = NoTask
PROPERTIES
    AtLeastOnceDelivery
    TasksFinish
