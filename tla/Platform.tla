-------------------------------- MODULE Platform --------------------------------
(***************************************************************************)
(* Tenants, their users and their carriers together: the requests of       *)
(* Provisioning, TenantUsers and TenantCarriers interleave over the        *)
(* database and the identity provider, which no transaction spans.         *)
(***************************************************************************)
EXTENDS TenantCarriers

Steps(q) == ProvisionStep(q) \/ UserStep(q) \/ CarrierStep(q)

(* The server stops in the middle of a request. *)
ServerStops(q) ==
    /\ "failures" \in scenario.events
    /\ request[q].pc \notin {"new", "refused", "done", "failed"}
    /\ Goes(q, "failed")
    /\ UNCHANGED <<tenant, schema, users, accounts, carriers, links, seeded, scenario>>

Next ==
    \/ \E q \in Requests :
          AskTenant(q) \/ AskUser(q) \/ AskCarrier(q) \/ Steps(q) \/ ServerStops(q)
    \/ \E s \in Slugs : DeleteTenant(s) \/ ActivateTenant(s) \/ SuspendTenant(s)
    \/ \E s \in Slugs, e \in Emails : UpdateUser(s, e)
    \/ \E s \in Slugs, c \in Carriers : RemoveCarrier(s, c) \/ AssignCarrier(s, c)
    \/ \E c \in Carriers : CreateCarrier(c)

Spec == PlatformInit /\ [][Next]_platformVars

-----------------------------------------------------------------------------
Happens(e) == e \in scenario.events

(* provision_tenant marks a tenant ACTIVE last: whatever failed before, an *)
(* ACTIVE tenant has its schema, seeded, and a row and an account of an    *)
(* administrator. A tenant that is activated while it is being provisioned *)
(* may have none of them (activate_tenant accepts PROVISIONING).           *)
ActiveIsProvisioned ==
    ~Happens("early_activation") =>
        \A s \in Slugs :
            tenant[s].status \in {"ACTIVE", "SUSPENDED"} =>
                /\ schema[s] = "seeded"
                /\ \E e \in Emails : HasRow(s, e) /\ accounts[e].slug = s

(* delete_tenant keeps the schema and provision_tenant undoes only what it *)
(* began: the schema of a tenant whose creation was answered stays,        *)
(* deleted or not, also when the same slug is asked for a second time.     *)
SchemaSurvives ==
    \A s \in Slugs :
        (\E q \in Requests : /\ request[q].pc = "done"
                             /\ request[q].op = "create_tenant"
                             /\ request[q].slug = s)
            => schema[s] = "seeded"

(* Database and identity provider agree on a user, whichever call failed   *)
(* in between: a row has an account of that tenant and, unless an edit     *)
(* changed the row alone (update_tenant_user), of that role; and a user    *)
(* whose row is inactive cannot log in.                                    *)
RowsMatchAccounts ==
    \A s \in Slugs, e \in Emails :
        HasRow(s, e) =>
            /\ accounts[e].slug = s
            /\ ~Happens("user_edits") =>
                  /\ accounts[e].role = users[s][e].role
                  /\ ~users[s][e].active => ~accounts[e].enabled

(* Without failures every account belongs to a row of its tenant or to a   *)
(* request that is about to insert it. (A provisioning that fails leaves   *)
(* the account, and the e-mail address is refused from then on.)           *)
NoOrphanAccounts ==
    ~Happens("failures") /\ ~Happens("early_activation") =>
        \A e \in Emails :
            HasAccount(e) =>
                \/ HasRow(accounts[e].slug, e)
                \/ \E q \in Requests : /\ request[q].pc \in {"role", "finish", "insert_row"}
                                       /\ request[q].email = e

(* add_carrier_to_tenant is idempotent: once a request to add a carrier    *)
(* has answered, the carrier has its rules, configuration and theme, also  *)
(* when an earlier request failed after it had inserted the link.          *)
AddedIsSeeded ==
    ~Happens("early_activation") =>
        \A q \in Requests :
            request[q].pc = "done" /\ request[q].op \in {"add_carrier", "create_carrier"} =>
                request[q].carrier \in seeded[request[q].slug]
=================================================================================
