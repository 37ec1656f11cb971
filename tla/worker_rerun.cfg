\* Two calls of Run and two of Stop on one worker.
SPECIFICATION Spec
CONSTANTS
    Runs = {r1, r2}
    Loops = {l1}
    Stoppers = {s1, s2}
    MaxAttempts = 1
    Attempts = {1}
    NoRun = NoRun
INVARIANT
    InterruptHasCause
