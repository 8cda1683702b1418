\* One task, two threads whose requests and windows overlap, two tokens.
CONSTANTS
    MaxTasks  = 1
    Agents    = {a1, a2}
    NoAgent   = NoAgent
    MaxLease  = 1
    Readers   = {r1, r2}
    MaxTokens = 2
    MaxLife   = 1
SPECIFICATION ServiceFairSpec
INVARIANTS
    ClaimColumnsAgree
    TrailExplainsBoard
PROPERTIES
    KeptOutsideWindows
    ReadsBringWorkBack
    ShutOutLosesWork
