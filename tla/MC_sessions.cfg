\* Three requests to two tenants on a pool of two connections.
\* Requests end and nothing makes a client ask for more.
SPECIFICATION FairSpec
CHECK_DEADLOCK FALSE
CONSTANTS
    acme = acme
    zenith = zenith
    nobody = nobody
    NoTenant = nobody
    Tenants = {acme, zenith}
    Conns = {k1, k2}
    NoConn = none
    MaxRequests = 3
    MaxKeys = 2
    Scenarios <- MCScenarios
INVARIANTS
    OwnSchema
    GoodTokenAccepted
PROPERTIES
    RequestsEnd
