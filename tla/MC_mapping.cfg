\* Uploads side by side, before, across and after the renaming of the column.
\* A mapping that is loaded or refused leaves nothing to do.
SPECIFICATION Spec
CHECK_DEADLOCK FALSE
CONSTANTS
    Fields <- Headers
    Targets <- Columns
    Unmatched = "none"
    TypeOf <- Types
    Shape <- Likeness
    MaxEdits = 2
    Scenarios <- MappingScenarios
INVARIANTS
    UploadIsReviewable
    ReviewedIsUsed
PROPERTIES
    LearntIsProposed
