\* Two tasks, and no request commits inside a reader's window.
CONSTANTS
    MaxTasks = 2
    Agents   = {a1, a2}
    NoAgent  = NoAgent
    MaxLease = 1
    Readers  = {r1}
SYMMETRY AgentSymmetry
SPECIFICATION SerialSpec
INVARIANTS
    RecordMatchesStatus
    NextAgreesWithClaim
PROPERTIES
    KeepsPromise
