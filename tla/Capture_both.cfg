\* A limit of two reads, pipes that hold one, and up to three writes to each.
CONSTANTS
    Callers <- Both
    Limit = 2
    PipeSize = 1
    MaxOutput = 3
SPECIFICATION FairSpec
INVARIANTS
    ResultsAreWhole
    StopsHaveGrounds
    SurvivorsAreReported
PROPERTIES
    CallReturns
    OutputIsDrained
CHECK_DEADLOCK FALSE
