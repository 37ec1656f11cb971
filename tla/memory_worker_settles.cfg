\* One loop settles two tasks, with delayed enqueues and retries.
SPECIFICATION MemSpec
CONSTANTS
    Runs = {r1}
    Loops = {l1}
    Stoppers = {s1}
    MaxAttempts = 2
    Attempts = {1, 2, 3}
    NoRun = NoRun
    Tasks = {t1, t2}
    Delays = {0, 1}
    MaxTime = 1
    NoTask = NoTask
PROPERTY
    TaskIsSettled
