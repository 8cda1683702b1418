\* One request, two attempts, one review a day: crashes, orphans, replies that come
\* late, results too long to render.
CONSTANTS
    MaxMessages = 1
    MaxAttempts = 2
    DailyLimit = 1
    MaxHistory = 1
    ResultLength = 13000
    ReplyLength = 18000
    MaxLate = 1
SPECIFICATION FairSpec
INVARIANTS
    TypeOK
    OneAnswer
    ReviewersAreInCustody
    ResultsAreFinal
    DailyLimitHolds
PROPERTIES
    LaunchesAreFresh
    
