CONSTANTS
    MaxTasks = 1
    Agents   = {a1, a2}
    NoAgent  = NoAgent
    MaxLease = 1
    Readers  = {r1}
SPECIFICATION Spec
PROPERTIES
    DoneIsFinal
