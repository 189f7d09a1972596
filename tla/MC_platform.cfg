\* Three requests for two tenants, the slug of one with a hyphen, two people and a carrier.
\* Requests end and nothing makes anyone ask for more.
SPECIFICATION Spec
CHECK_DEADLOCK FALSE
CONSTANTS
    acme = acme
    acme_hq = acme_hq
    ann = ann
    bob = bob
    c1 = c1
    Slugs = {acme, acme_hq}
    Hyphenated = {acme_hq}
    Emails = {ann, bob}
    Carriers = {c1}
    NoSlug = noslug
    MaxRequests = 3
    Scenarios <- MCScenarios
INVARIANTS
    ActiveIsProvisioned
    SchemaSurvives
    RowsMatchAccounts
    NoOrphanAccounts
    AddedIsSeeded
