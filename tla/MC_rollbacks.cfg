\* One run, two rollbacks and a cleanup, every failure.
\* A system at rest has no step left: every request was served.
SPECIFICATION Spec
CHECK_DEADLOCK FALSE
CONSTANTS
    Carriers = {c1}
    Modes <- EngineOnly
    MaxRuns = 1
    MaxCommits = 2
    Files <- OneFile
    Uploads = {u1}
    Approvals = {a1}
    Faults = TRUE
    Undos = {b1, b2}
    OwnSchema = TRUE
    UndoFaults = TRUE
    Cleanups = {d1}
    CleanupFaults = TRUE
    ClientChoices <- RollbackChoices
SYMMETRY RollbackSymmetry
INVARIANTS
    RolledBackIsClean
    OneRollback
    NoOrphanRows
