\* A loop that ends although nobody is shutting the worker down.
SPECIFICATION Spec
CONSTANTS
    Runs = {r1}
    Loops = {l1, l2}
    Stoppers = {s1}
    MaxAttempts = 1
    Attempts = {1}
    NoRun = NoRun
INVARIANT
    LoopEndsOnlyInShutdown
