\* Lists of three periods.
SPECIFICATION RunSpec
CONSTANTS
    MinTime = 0
    MaxTime = 4
    MaxPeriods = 3
INVARIANTS
    PeriodsAreExact
    SlicesAgree
    StringsAgree
    InvokeIsExact
PROPERTY
    RecordsAreComplete
\* Events, calls and lists are bounded.
CHECK_DEADLOCK FALSE
