\* One editable and one locked key, four requests.
SPECIFICATION FairSpec
CONSTANTS
    k1 = k1  k2 = k2
    seed = seed  fallback = fallback  e1 = e1
    r1 = r1
    Keys = {k1, k2}
    Locked = {k2}
    Drafts = {e1}
    Seed = seed
    Fallback = fallback
    MaxRows = 2
    MaxRequests = 4
    Engines = {r1}
    EventChoices <- CalcChoices
INVARIANTS
    TypeOK
    LockedInForce
    ActiveWasReviewed
    EngineUsesReviewed
    ApprovalIsServed
    OffWasConfigured
PROPERTIES
    CachesConverge
