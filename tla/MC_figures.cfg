\* Parsers, engine and rollbacks over the fact tables.
SPECIFICATION Spec
CONSTANTS
    MaxPolicies = 2
    MaxRuns = 3
    MaxTasks = 1
    TermDays = 90
    Today = 60
    Scenarios <- FigureScenarios
INVARIANTS
    RollbackForgets
    RiskIsCurrent
    ReceivedMatchesReport
    PctMatchesAmounts
CHECK_DEADLOCK FALSE
