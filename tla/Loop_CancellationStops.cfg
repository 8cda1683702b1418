\* Two operators who cancel at the same time.
CONSTANTS
    Operators = {o1, o2}
    Count     = 3
    HasUntil  = FALSE
    MaxRuns   = 2
SPECIFICATION Spec
INVARIANTS
    CancellationStops
CHECK_DEADLOCK FALSE
