----------------------------- MODULE PlatformStore -----------------------------
(***************************************************************************)
(* What the platform keeps of its tenants: public.tenants and the tenant   *)
(* schemas, the users table of each schema and the accounts of the         *)
(* identity provider, public.carriers and the carriers of each tenant. The *)
(* requests that change it are in Provisioning, TenantUsers and            *)
(* TenantCarriers; Platform composes them.                                 *)
(***************************************************************************)
EXTENDS Naturals, FiniteSets

CONSTANTS
    Slugs,            \* the tenants
    Hyphenated,       \* those whose slug holds a hyphen
    Emails,           \* the people
    Carriers,         \* the carriers
    NoSlug,           \* the tenant of an account that does not exist
    MaxRequests,      \* bound on the requests
    Scenarios         \* what is asked for and what happens meanwhile

VARIABLES
    tenant,           \* public.tenants
    schema,           \* the tenant schemas
    users,            \* the users table of each schema
    accounts,         \* the users of the identity provider
    carriers,         \* public.carriers
    links,            \* tenant_carriers of each schema
    seeded,           \* the carriers with rules, configuration and theme there
    request,          \* the requests of several steps
    scenario          \* the scenario of a behaviour

platformVars == <<tenant, schema, users, accounts, carriers, links, seeded, request, scenario>>

Events == {"failures", "early_activation", "lifecycle", "user_edits", "platform_carriers"}
Ops    == {"create_tenant", "create_user", "delete_user", "add_carrier", "create_carrier"}

ASSUME PlatformAssumption ==
    /\ Slugs # {} /\ Emails # {} /\ Carriers # {}
    /\ Hyphenated \subseteq Slugs
    /\ NoSlug \notin Slugs
    /\ MaxRequests \in Nat
    /\ Scenarios \subseteq [events : SUBSET Events, ops : SUBSET Ops]

Requests == 1 .. MaxRequests

TenantStatus == {"NONE", "PROVISIONING", "ACTIVE", "SUSPENDED", "DELETED"}
SchemaState  == {"absent", "created", "migrated", "seeded"}
Roles        == {"TENANT_ADMIN", "AUDITOR", "REVIEWER"}

TenantRec  == [status : TenantStatus, deleted : BOOLEAN]
UserRec    == [role : Roles \cup {"none"}, active : BOOLEAN]
AccountRec == [slug : Slugs \cup {NoSlug}, role : Roles \cup {"none"}, enabled : BOOLEAN]
LinkState  == {"none", "active", "inactive"}

RequestPC ==
    {"new", "refused", "done", "failed",
     "insert_tenant", "schema", "migrate", "seed", "carriers", "finish", "drop", "mark",
     "check_row", "look_up", "post", "role", "insert_row",
     "find_row", "disable", "deactivate",
     "check_carrier", "insert_carrier", "link", "seed_carrier"}

RequestRec == [pc : RequestPC, op : Ops, slug : Slugs, email : Emails, role : Roles,
               carrier : Carriers]

TypeOK ==
    /\ tenant \in [Slugs -> TenantRec]
    /\ schema \in [Slugs -> SchemaState]
    /\ users \in [Slugs -> [Emails -> UserRec]]
    /\ accounts \in [Emails -> AccountRec]
    /\ carriers \in SUBSET Carriers
    /\ links \in [Slugs -> [Carriers -> LinkState]]
    /\ seeded \in [Slugs -> SUBSET Carriers]
    /\ request \in [Requests -> RequestRec]
    /\ scenario \in Scenarios

-----------------------------------------------------------------------------
NoTenant  == [status |-> "NONE", deleted |-> FALSE]
NoRow     == [role |-> "none", active |-> FALSE]
NoAccount == [slug |-> NoSlug, role |-> "none", enabled |-> FALSE]

HasRow(s, e)  == users[s][e].role # "none"
HasAccount(e) == accounts[e].slug # NoSlug
HasTables(s)  == schema[s] \in {"migrated", "seeded"}

(* TenantMiddleware: the tenant resolves and is active. A request that has *)
(* passed is not looked at again.                                          *)
Resolves(s) == tenant[s].status = "ACTIVE" /\ ~tenant[s].deleted

Goes(q, to) == request' = [request EXCEPT ![q].pc = to]

(* A request whose call raised: the provisioning of a tenant is undone,    *)
(* the others just fail.                                                   *)
Raises(q) == Goes(q, IF request[q].op = "create_tenant" THEN "drop" ELSE "failed")

Unasked == [pc |-> "new", op |-> "create_tenant", slug |-> CHOOSE s \in Slugs : TRUE,
            email |-> CHOOSE e \in Emails : TRUE, role |-> "TENANT_ADMIN",
            carrier |-> CHOOSE c \in Carriers : TRUE]

PlatformInit ==
    /\ tenant = [s \in Slugs |-> NoTenant]
    /\ schema = [s \in Slugs |-> "absent"]
    /\ users = [s \in Slugs |-> [e \in Emails |-> NoRow]]
    /\ accounts = [e \in Emails |-> NoAccount]
    /\ carriers \in SUBSET Carriers
    /\ links = [s \in Slugs |-> [c \in Carriers |-> "none"]]
    /\ seeded = [s \in Slugs |-> {}]
    /\ request = [q \in Requests |-> Unasked]
    /\ scenario \in Scenarios
================================================================================
