------------------------------ MODULE Provisioning ------------------------------
(***************************************************************************)
(* The life of a tenant: POST /platform/tenants and the provisioning it    *)
(* runs, the deletion, activation and suspension of a tenant               *)
(* (api/v1/platform.py, services/tenant_provisioning_service.py) and the   *)
(* creation of an account in the identity provider                         *)
(* (services/keycloak_admin_service.py).                                   *)
(***************************************************************************)
EXTENDS PlatformStore

rest == <<carriers, scenario>>

(* create_tenant looks for a tenant of that slug that is not deleted. *)
AskTenant(q) ==
    /\ request[q].pc = "new"
    /\ "create_tenant" \in scenario.ops
    /\ \A p \in 1 .. q - 1 : request[p].pc # "new"
    /\ \E s \in Slugs, e \in Emails, c \in Carriers :
          request' = [request EXCEPT ![q] =
             [pc |-> IF tenant[s].status # "NONE" /\ ~tenant[s].deleted
                     THEN "refused" ELSE "insert_tenant",
              op |-> "create_tenant", slug |-> s, email |-> e, role |-> "TENANT_ADMIN",
              carrier |-> c]]
    /\ UNCHANGED <<tenant, schema, users, accounts, links, seeded, rest>>

(* Mutant: the record is inserted inside the try of provision_tenant. *)
InsertTenant_undone(q) ==
    LET s == request[q].slug
    IN  /\ request[q].pc = "insert_tenant"
        /\ IF tenant[s].status = "NONE"
           THEN /\ tenant' = [tenant EXCEPT ![s].status = "PROVISIONING"]
                /\ Goes(q, "schema")
           ELSE tenant' = tenant /\ Raises(q)
        /\ UNCHANGED <<schema, users, accounts, links, seeded, rest>>

(* The slug is the primary key: the INSERT raises for a deleted tenant of  *)
(* that slug as for one that another request has just inserted, before     *)
(* there is anything to undo.                                              *)
InsertTenant(q) ==
    LET s == request[q].slug
    IN  /\ request[q].pc = "insert_tenant"
        /\ IF tenant[s].status = "NONE"
           THEN /\ tenant' = [tenant EXCEPT ![s].status = "PROVISIONING"]
                /\ Goes(q, "schema")
           ELSE tenant' = tenant /\ Goes(q, "refused")
        /\ UNCHANGED <<schema, users, accounts, links, seeded, rest>>

(* CREATE SCHEMA IF NOT EXISTS. *)
CreateSchema(q) ==
    LET s == request[q].slug
    IN  /\ request[q].pc = "schema"
        /\ schema' = [schema EXCEPT ![s] = IF @ = "absent" THEN "created" ELSE @]
        /\ Goes(q, "migrate")
        /\ UNCHANGED <<tenant, users, accounts, links, seeded, rest>>

Migrate(q) ==
    /\ request[q].pc = "migrate"
    /\ schema' = [schema EXCEPT ![request[q].slug] = "migrated"]
    /\ Goes(q, "seed")
    /\ UNCHANGED <<tenant, users, accounts, links, seeded, rest>>

(* The schema name is not quoted in this SET search_path, a syntax error   *)
(* for a slug with a hyphen.                                               *)
Seed(q) ==
    LET s == request[q].slug
    IN  /\ request[q].pc = "seed"
        /\ IF s \in Hyphenated
           THEN schema' = schema /\ Raises(q)
           ELSE schema' = [schema EXCEPT ![s] = "seeded"] /\ Goes(q, "carriers")
        /\ UNCHANGED <<tenant, users, accounts, links, seeded, rest>>

(* add_carrier_to_tenant for the carriers of the request, if any, each in  *)
(* one transaction.                                                        *)
SeedCarriers(q) ==
    LET s == request[q].slug  c == request[q].carrier
    IN  /\ request[q].pc = "carriers"
        /\ \/ links' = links /\ seeded' = seeded
           \/ /\ c \in carriers
              /\ links' = [links EXCEPT ![s][c] = "active"]
              /\ seeded' = [seeded EXCEPT ![s] = @ \cup {c}]
        /\ Goes(q, "post")
        /\ UNCHANGED <<tenant, schema, users, accounts, rest>>

-----------------------------------------------------------------------------
(* _create_user, for the administrator of a new tenant and for the users   *)
(* of a tenant.                                                            *)

(* The e-mail is the user name: a second account of it is refused. *)
PostAccount(q) ==
    LET e == request[q].email
    IN  /\ request[q].pc = "post"
        /\ IF HasAccount(e)
           THEN accounts' = accounts /\ Raises(q)
           ELSE /\ accounts' = [accounts EXCEPT ![e] = [slug |-> request[q].slug,
                                                        role |-> "none", enabled |-> TRUE]]
                /\ Goes(q, "role")
        /\ UNCHANGED <<tenant, schema, users, links, seeded, rest>>

(* The account is created but the answer does not come. *)
PostLost(q) ==
    /\ request[q].pc = "post"
    /\ "failures" \in scenario.events
    /\ ~HasAccount(request[q].email)
    /\ accounts' = [accounts EXCEPT ![request[q].email] =
                       [slug |-> request[q].slug, role |-> "none", enabled |-> TRUE]]
    /\ Raises(q)
    /\ UNCHANGED <<tenant, schema, users, links, seeded, rest>>

(* Mutant: an error of the role mapping is swallowed. *)
GrantRole_swallowed(q) ==
    /\ request[q].pc = "role"
    /\ \/ accounts' = [accounts EXCEPT ![request[q].email].role = request[q].role]
       \/ accounts' = accounts
    /\ Goes(q, IF request[q].op = "create_tenant" THEN "finish" ELSE "insert_row")
    /\ UNCHANGED <<tenant, schema, users, links, seeded, rest>>

(* _assign_realm_role, _set_password. *)
GrantRole(q) ==
    /\ request[q].pc = "role"
    /\ accounts' = [accounts EXCEPT ![request[q].email].role = request[q].role]
    /\ Goes(q, IF request[q].op = "create_tenant" THEN "finish" ELSE "insert_row")
    /\ UNCHANGED <<tenant, schema, users, links, seeded, rest>>

-----------------------------------------------------------------------------
(* Mutant: the row is left to the first login. *)
Finish_rowLater(q) ==
    /\ request[q].pc = "finish"
    /\ tenant' = [tenant EXCEPT ![request[q].slug].status = "ACTIVE"]
    /\ Goes(q, "done")
    /\ UNCHANGED <<schema, users, accounts, links, seeded, rest>>

(* The UPDATE asks for nothing but the slug. *)
Finish(q) ==
    LET s == request[q].slug  e == request[q].email
    IN  /\ request[q].pc = "finish"
        /\ tenant' = [tenant EXCEPT ![s].status = "ACTIVE"]
        /\ users' = [users EXCEPT ![s][e] = [role |-> "TENANT_ADMIN", active |-> TRUE]]
        /\ Goes(q, "done")
        /\ UNCHANGED <<schema, accounts, links, seeded, rest>>

(* A step of the provisioning raises before it changed anything. *)
ProvisionError(q) ==
    /\ "failures" \in scenario.events
    /\ request[q].op = "create_tenant"
    /\ request[q].pc \in {"schema", "migrate", "seed", "carriers", "post", "role", "finish"}
    /\ Raises(q)
    /\ UNCHANGED <<tenant, schema, users, accounts, links, seeded, rest>>

(* _drop_schema: an error of the statement is only logged. *)
DropSchema(q) ==
    LET s == request[q].slug
    IN  /\ request[q].pc = "drop"
        /\ \/ /\ schema' = [schema EXCEPT ![s] = "absent"]
              /\ users' = [users EXCEPT ![s] = [e \in Emails |-> NoRow]]
              /\ links' = [links EXCEPT ![s] = [c \in Carriers |-> "none"]]
              /\ seeded' = [seeded EXCEPT ![s] = {}]
           \/ "failures" \in scenario.events /\ UNCHANGED <<schema, users, links, seeded>>
        /\ Goes(q, "mark")
        /\ UNCHANGED <<tenant, accounts, rest>>

MarkDeleted(q) ==
    /\ request[q].pc = "mark"
    /\ tenant' = [tenant EXCEPT ![request[q].slug] = [status |-> "DELETED", deleted |-> TRUE]]
    /\ Goes(q, "failed")
    /\ UNCHANGED <<schema, users, accounts, links, seeded, rest>>

ProvisionStep(q) ==
    InsertTenant(q) \/ CreateSchema(q) \/ Migrate(q) \/ Seed(q) \/ SeedCarriers(q)
      \/ PostAccount(q) \/ PostLost(q) \/ GrantRole(q) \/ Finish(q)
      \/ ProvisionError(q) \/ DropSchema(q) \/ MarkDeleted(q)

-----------------------------------------------------------------------------
(* The other calls of the super administrator, of one statement each.      *)
others == <<schema, users, accounts, carriers, links, seeded, request, scenario>>

DeleteTenant(s) ==
    /\ "lifecycle" \in scenario.events
    /\ tenant[s].status # "NONE" /\ ~tenant[s].deleted
    /\ tenant' = [tenant EXCEPT ![s] = [status |-> "DELETED", deleted |-> TRUE]]
    /\ UNCHANGED others

(* A tenant that is still being provisioned may be activated as well. *)
ActivateTenant(s) ==
    /\ "lifecycle" \in scenario.events
    /\ ~tenant[s].deleted
    /\ \/ tenant[s].status = "SUSPENDED"
       \/ tenant[s].status = "PROVISIONING" /\ "early_activation" \in scenario.events
    /\ tenant' = [tenant EXCEPT ![s].status = "ACTIVE"]
    /\ UNCHANGED others

SuspendTenant(s) ==
    /\ "lifecycle" \in scenario.events
    /\ ~tenant[s].deleted /\ tenant[s].status = "ACTIVE"
    /\ tenant' = [tenant EXCEPT ![s].status = "SUSPENDED"]
    /\ UNCHANGED others
=================================================================================
