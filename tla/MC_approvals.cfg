\* One run, two approvals and a rollback, every failure.
\* A system at rest has no step left: every request was served.
SPECIFICATION Spec
CHECK_DEADLOCK FALSE
CONSTANTS
    Carriers = {c1}
    Modes <- EngineOnly
    MaxRuns = 1
    MaxCommits = 2
    Files <- AllFiles
    Uploads = {u1}
    Approvals = {a1, a2}
    Faults = TRUE
    Undos = {b1}
    OwnSchema = TRUE
    UndoFaults = TRUE
    Cleanups = {}
    CleanupFaults = FALSE
    ClientChoices <- ApprovalChoices
INVARIANTS
    TypeOK
    
    RowsComeFromApprovals
    RollbackIsRecorded
    CompleteExactlyOnce
