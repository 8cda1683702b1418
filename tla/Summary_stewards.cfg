\* Two stewards, two threads, up to three revisions and a backlog of two batches.
CONSTANTS
    Threads = {general, other}
    Stewards = {s1, s2}
    Kinds <- SectionKinds
    TitleKey <- Spellings
    TaskTitles <- Plain
    BatchLimit = 1
    RecentLimits = {1, 2}
    MaxMessages = 2
    MaxRevisions = 3
    MaxEvents = 2
SYMMETRY NameSymmetry
SPECIFICATION Spec
INVARIANTS
    TypeOK
    CitationsAreGrounded
    ValidDraftIsPublished
    CoverageIsEarned
    CompleteDeltaMissesNothing
PROPERTIES
    KeepsHistory
    PublishedOnCurrentBoard
CHECK_DEADLOCK FALSE
