\* Three requests for two reports over one run.
\* Every request ends: the system at rest has no step left.
SPECIFICATION FairSpec
CHECK_DEADLOCK FALSE
CONSTANTS
    r1 = r1
    norun = norun  NoRun = norun
    MaxRequests = 3
    Runs = {r1}
    Window = 1
    MaxTime = 2
    Scenarios <- MCScenarios
INVARIANTS
    CompleteHasFile
    
    OneJobPerWindow
    ReportIsFresh
PROPERTIES
    JobsSettle
