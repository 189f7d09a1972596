\* The rollback endpoint as it calls the service.
\* A system at rest has no step left: every request was served.
SPECIFICATION FairSpec
CHECK_DEADLOCK FALSE
CONSTANTS
    Carriers = {c1}
    Modes <- EngineOnly
    MaxRuns = 1
    MaxCommits = 2
    Files <- AllFiles
    Uploads = {u1}
    Approvals = {a1}
    Faults = FALSE
    Undos = {b1}
    OwnSchema = FALSE
    UndoFaults = FALSE
    Cleanups = {}
    CleanupFaults = FALSE
    ClientChoices <- Nothing
PROPERTIES
    RollbackServed
