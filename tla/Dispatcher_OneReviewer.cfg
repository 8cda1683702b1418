CONSTANTS
    MaxMessages = 1
    MaxAttempts = 2
    DailyLimit = 2
    MaxHistory = 1
    ResultLength = 13000
    ReplyLength = 18000
    MaxLate = 0
SPECIFICATION Spec
INVARIANTS
    OneReviewer
