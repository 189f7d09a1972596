\* No statement fails: what is begun is finished.
\* A system at rest has no step left: every request was served.
SPECIFICATION FairSpec
CHECK_DEADLOCK FALSE
CONSTANTS
    Carriers = {c1}
    Modes <- EngineOnly
    MaxRuns = 1
    MaxCommits = 2
    Files <- AllFiles
    Uploads = {u1}
    Approvals = {a1, a2}
    Faults = FALSE
    Undos = {b1}
    OwnSchema = TRUE
    UndoFaults = FALSE
    Cleanups = {}
    CleanupFaults = FALSE
    ClientChoices <- FairChoices
PROPERTIES
    ApprovedRunSettles
    RollbackSettles
    RollbackServed
