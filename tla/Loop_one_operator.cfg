\* One operator, and runs that are killed, interrupted and started again.
CONSTANTS
    Operators = {o1}
    Count     = 2
    HasUntil  = TRUE
    MaxRuns   = 2
SPECIFICATION FairSpec
INVARIANTS
    CommandsAreOnRecord
    StartsFollowSuccess
    CommandsAreAwaited
    CancellationStops
PROPERTIES
    CancelledWasAsked
    RunsEnd
CHECK_DEADLOCK FALSE
