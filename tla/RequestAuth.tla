------------------------------- MODULE RequestAuth -------------------------------
(***************************************************************************)
(* The token of a request (api/security.py and verify_token of             *)
(* services/keycloak_admin_service.py): its key is looked up in the keys   *)
(* of the identity provider, which Redis caches, and its role and tenant   *)
(* are compared with what the endpoint asks for.                           *)
(*                                                                         *)
(* The provider numbers its keys and publishes the old ones with a new     *)
(* one, so that a set of keys is the number of the last of them.           *)
(***************************************************************************)
EXTENDS Naturals, FiniteSets, Sequences

CONSTANTS
    Tenants,          \* the tenants
    NoTenant,         \* the tenant of a request or a token without one
    Conns,            \* the connections of the pool
    NoConn,
    MaxRequests,      \* bound on the requests
    MaxKeys,          \* bound on the keys of the provider
    Scenarios         \* what is asked for and what happens meanwhile

VARIABLES
    signing,          \* the last key of the provider
    cached,           \* keycloak:jwks in Redis, 0 for no entry
    free,             \* the pool: the connections nobody holds, the next one first
    path,             \* the search_path of each connection
    request,          \* the requests
    scenario          \* the scenario of a behaviour

vars == <<signing, cached, free, path, request, scenario>>

Requests == 1 .. MaxRequests
Keys     == 1 .. MaxKeys
Schemas  == Tenants \cup {"public"}

(* delete_failures: Redis does not take a DELETE. *)
Events == {"rotation", "expiry", "failures", "delete_failures", "recycle", "overlap"}
Kinds  == {"tenant", "fallback", "both", "platform"}
Roles  == {"REVIEWER", "AUDITOR", "TENANT_ADMIN", "SUPER_ADMIN"}

(* A call: its endpoint, the host it is sent to and who sends it. *)
Call == [kind : Kinds, host : Tenants \cup {NoTenant}, role : Roles,
         tenant : Tenants \cup {NoTenant}]

ASSUME AuthAssumption ==
    /\ NoTenant \notin Tenants /\ "public" \notin Tenants
    /\ NoConn \notin Conns /\ IsFiniteSet(Conns)
    /\ MaxRequests \in Nat
    /\ MaxKeys \in Nat \ {0}
    /\ Scenarios \subseteq [events : SUBSET Events, asked : SUBSET Call,
                             active : SUBSET Tenants]

RequestPC == {"new", "resolving", "reading_keys", "fetching_keys", "storing_keys",
              "dropping_keys", "opening", "opening_public", "running", "rescoping", "closing",
              "done", "refused", "failed", "unauthorized"}

RequestRec ==
    [pc : RequestPC, call : Call, key : Keys, keys : 0 .. MaxKeys, again : BOOLEAN,
     conn : Conns \cup {NoConn}, txn : {"none", "auto", "open"}, before : Schemas,
     public : Conns \cup {NoConn}, at : 1 .. 6, saw : SUBSET Schemas,
     result : {"done", "refused", "failed"}]

Goes(q, to) == request' = [request EXCEPT ![q].pc = to]

Level == [REVIEWER |-> 1, AUDITOR |-> 2, TENANT_ADMIN |-> 3, SUPER_ADMIN |-> 4]

HasAtLeast(role, required) == Level[role] >= Level[required]

Required == [tenant |-> "AUDITOR", fallback |-> "REVIEWER", both |-> "TENANT_ADMIN",
             platform |-> "SUPER_ADMIN"]

(* verify_role and verify_tenant, the first two lines of a handler. *)
Permitted(call) ==
    /\ HasAtLeast(call.role, Required[call.kind])
    /\ call.role = "SUPER_ADMIN" \/ call.tenant = call.host

-----------------------------------------------------------------------------
(* verify_token. *)
poolVars == <<free, path, scenario>>

(* Where a request goes with the keys it has: a missing key makes it drop  *)
(* the entry and ask again, once.                                          *)
With(q, keys) ==
    IF request[q].key <= keys THEN "opening"
    ELSE IF request[q].again THEN "unauthorized" ELSE "dropping_keys"

(* A read that fails is logged and taken for a miss. *)
ReadKeys(q) ==
    /\ request[q].pc = "reading_keys"
    /\ \/ Goes(q, IF cached = 0 THEN "fetching_keys" ELSE With(q, cached))
       \/ "failures" \in scenario.events /\ Goes(q, "fetching_keys")
    /\ UNCHANGED <<signing, cached, poolVars>>

FetchKeys(q) ==
    /\ request[q].pc = "fetching_keys"
    /\ request' = [request EXCEPT ![q] = [@ EXCEPT !.pc = "storing_keys", !.keys = signing]]
    /\ UNCHANGED <<signing, cached, poolVars>>

(* The provider cannot be asked: 503. *)
FetchError(q) ==
    /\ request[q].pc = "fetching_keys"
    /\ "failures" \in scenario.events
    /\ Goes(q, "failed")
    /\ UNCHANGED <<signing, cached, poolVars>>

(* An error of Redis is logged. *)
StoreKeys(q) ==
    /\ request[q].pc = "storing_keys"
    /\ \/ cached' = request[q].keys
       \/ "failures" \in scenario.events /\ cached' = cached
    /\ Goes(q, With(q, request[q].keys))
    /\ UNCHANGED <<signing, poolVars>>

(* Mutant: the keys are asked for again without a DELETE. *)
DropKeys_kept(q) ==
    /\ request[q].pc = "dropping_keys"
    /\ request' = [request EXCEPT ![q] = [@ EXCEPT !.pc = "reading_keys", !.again = TRUE]]
    /\ UNCHANGED <<signing, cached, poolVars>>

(* _invalidate_jwks_cache: a DELETE that fails is logged as well, and the  *)
(* keys are asked for again whatever became of it.                         *)
DropKeys(q) ==
    /\ request[q].pc = "dropping_keys"
    /\ request' = [request EXCEPT ![q] = [@ EXCEPT !.pc = "reading_keys", !.again = TRUE]]
    /\ \/ cached' = 0
       \/ "delete_failures" \in scenario.events /\ cached' = cached
    /\ UNCHANGED <<signing, poolVars>>

AuthStep(q) == ReadKeys(q) \/ FetchKeys(q) \/ FetchError(q) \/ StoreKeys(q) \/ DropKeys(q)

(* The entry lives an hour. *)
KeysExpire ==
    /\ "expiry" \in scenario.events
    /\ cached # 0
    /\ cached' = 0
    /\ UNCHANGED <<signing, request, poolVars>>

Rotate ==
    /\ "rotation" \in scenario.events
    /\ signing < MaxKeys
    /\ signing' = signing + 1
    /\ UNCHANGED <<cached, request, poolVars>>
==================================================================================
