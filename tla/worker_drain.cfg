\* One run with two loops, and one Stop: how a run drains and what it returns.
SPECIFICATION Spec
CONSTANTS
    Runs = {r1}
    Loops = {l1, l2}
    Stoppers = {s1}
    MaxAttempts = 1
    Attempts = {1}
    NoRun = NoRun
INVARIANT
    StopNilMeansDrained
PROPERTY
    RunsAndStopsReturn
