\* The lock and the cache: two clients, leases of two units, two faults; two keys on two
\* pages.  The rate limiter: rates that do not divide their period, and limits at the edge of
\* the integers.  Canal: two listeners, four events in two files.  The snapshot: three
\* goroutines look it up.
SPECIFICATION RunSpec
CONSTANTS
    Clients = {"c1", "c2"}
    Free = "free"
    TTL = 2
    MaxFaults = 2
    Micro = 3
    Milli = 4
    MaxInt = 26
    Rates = {1, 2, 3}
    Periods = {7, 8, 10}
    Bursts = {1, 2, 3}
    Redis = FALSE
    MaxTime = 7
    Listeners = {"l1", "l2"}
    MaxEvent = 4
    FileSize = 3
    Threshold = 2
    BatchSize = 2
    Threads = {"t1", "t2", "t3"}
    Expires = TRUE
    MaxEvents = 2
    Keys = {"k1", "k2"}
    Pages <- CachePages
    Addable = TRUE
INVARIANTS
    
    
    CacheIsSound
    NeverOlderThanCall
    
PROPERTIES
    
    FilesAreExact
\* Clocks, calls and faults are bounded.
CHECK_DEADLOCK FALSE
