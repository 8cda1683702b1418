\* Two requests and a history of one: what is polled, filed and forgotten.  Results are
\* short enough to render.
CONSTANTS
    MaxMessages = 2
    MaxAttempts = 1
    DailyLimit = 1
    MaxHistory = 1
    ResultLength = 9000
    ReplyLength = 18000
    MaxLate = 0
SPECIFICATION Spec
INVARIANTS
    StateLoads
PROPERTIES
    IsReviewQueue
