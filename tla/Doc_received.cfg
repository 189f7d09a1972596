\* The count of the reports received, as the comment in the parser has it.
SPECIFICATION Spec
CHECK_DEADLOCK FALSE
CONSTANTS
    MaxPolicies = 2
    MaxRuns = 3
    MaxTasks = 1
    TermDays = 90
    Today = 60
    Scenarios <- FigureScenarios
INVARIANTS
    ReceivedIsSubmitted
