\* An entry whose worker crashed on the last allowed attempt is claimed.
SPECIFICATION Spec
CONSTANTS
    Tasks = {t1, bad}
    Malformed = {bad}
    Workers = {w1, w2}
    MaxAttempts = 2
    MaxEntries = 3
    MaxClaims = 2
    MaxCrashes = 1
    PromoteSize = 1
    MaxInt = 3
    NoEntry = NoEntry
    NoTask = NoTask
INVARIANT
    DeliveriesWithinMaxAttempts
