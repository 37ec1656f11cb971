\* One run with two loops and two tasks, and one Stop.
SPECIFICATION MemSpec
CONSTANTS
    Runs = {r1}
    Loops = {l1, l2}
    Stoppers = {s1}
    MaxAttempts = 2
    Attempts = {1, 2, 3}
    NoRun = NoRun
    Tasks = {t1, t2}
    Delays = {0}
    MaxTime = 0
    NoTask = NoTask
INVARIANTS
    LossIsReported
    GracefulStopLosesNothing
