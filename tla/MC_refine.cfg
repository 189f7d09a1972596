\* Two runs of either mode on which nothing overlaps, with every failure.
\* A system at rest has no step left: every request was served.
SPECIFICATION Spec
CHECK_DEADLOCK FALSE
CONSTANTS
    Carriers = {c1}
    Modes <- BothModes
    MaxRuns = 2
    MaxCommits = 2
    Files <- OneFile
    Uploads = {u1, u2}
    Approvals = {a1}
    Faults = TRUE
    Undos = {b1}
    OwnSchema = TRUE
    UndoFaults = TRUE
    Cleanups = {d1}
    CleanupFaults = TRUE
    ClientChoices <- Nothing
SYMMETRY UploadSymmetry
INVARIANTS
    ModeLock
PROPERTIES
    RefinesLifecycle
