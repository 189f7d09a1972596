------------------------------- MODULE TenantUsers -------------------------------
(***************************************************************************)
(* The users of a tenant (api/v1/tenant_admin.py): a row of its users      *)
(* table and an account of the identity provider for each, written one     *)
(* after the other.                                                        *)
(***************************************************************************)
EXTENDS Provisioning

userRest == <<tenant, schema, carriers, links, seeded, scenario>>

AskUser(q) ==
    /\ request[q].pc = "new"
    /\ \A p \in 1 .. q - 1 : request[p].pc # "new"
    /\ \E op \in {"create_user", "delete_user"} \cap scenario.ops, s \in Slugs, e \in Emails,
          r \in {"AUDITOR", "REVIEWER"} :
          /\ op = "delete_user" => r = "AUDITOR"
          /\ Resolves(s)
          /\ request' = [request EXCEPT ![q] = [@ EXCEPT
                !.pc = IF op = "create_user" THEN "check_row" ELSE "find_row",
                !.op = op, !.slug = s, !.email = e, !.role = r]]
    /\ UNCHANGED <<users, accounts, userRest>>

-----------------------------------------------------------------------------
(* create_tenant_user. *)
CheckRow(q) ==
    /\ request[q].pc = "check_row"
    /\ Goes(q, IF ~HasTables(request[q].slug) THEN "failed"
               ELSE IF HasRow(request[q].slug, request[q].email) THEN "refused" ELSE "look_up")
    /\ UNCHANGED <<users, accounts, userRest>>

(* get_user_by_email answers None when the provider cannot be asked. *)
LookUp(q) ==
    /\ request[q].pc = "look_up"
    /\ \/ Goes(q, IF HasAccount(request[q].email) THEN "refused" ELSE "post")
       \/ "failures" \in scenario.events /\ Goes(q, "post")
    /\ UNCHANGED <<users, accounts, userRest>>

(* Keycloak has the account by now. The e-mail is unique in the table. *)
InsertRow(q) ==
    LET s == request[q].slug  e == request[q].email
    IN  /\ request[q].pc = "insert_row"
        /\ IF ~HasTables(s) \/ HasRow(s, e)
           THEN users' = users /\ Goes(q, "failed")
           ELSE /\ users' = [users EXCEPT ![s][e] = [role |-> request[q].role,
                                                     active |-> TRUE]]
                /\ Goes(q, "done")
        /\ UNCHANGED <<accounts, userRest>>

-----------------------------------------------------------------------------
(* delete_tenant_user. *)
FindRow(q) ==
    /\ request[q].pc = "find_row"
    /\ Goes(q, IF ~HasTables(request[q].slug) THEN "failed"
               ELSE IF HasRow(request[q].slug, request[q].email) THEN "disable" ELSE "refused")
    /\ UNCHANGED <<users, accounts, userRest>>

Disable(q) ==
    /\ request[q].pc = "disable"
    /\ accounts' = [accounts EXCEPT ![request[q].email].enabled = FALSE]
    /\ Goes(q, "deactivate")
    /\ UNCHANGED <<users, userRest>>

(* Mutant: the row is deleted. *)
Deactivate_deleted(q) ==
    LET s == request[q].slug  e == request[q].email
    IN  /\ request[q].pc = "deactivate"
        /\ users' = [users EXCEPT ![s][e] = NoRow]
        /\ Goes(q, IF HasTables(s) THEN "done" ELSE "failed")
        /\ UNCHANGED <<accounts, userRest>>

Deactivate(q) ==
    LET s == request[q].slug  e == request[q].email
    IN  /\ request[q].pc = "deactivate"
        /\ users' = [users EXCEPT ![s][e].active = FALSE]
        /\ Goes(q, IF HasTables(s) THEN "done" ELSE "failed")
        /\ UNCHANGED <<accounts, userRest>>

(* A call to the provider or the database fails. *)
UserError(q) ==
    /\ "failures" \in scenario.events
    /\ request[q].op \in {"create_user", "delete_user"}
    /\ request[q].pc \in {"check_row", "look_up", "post", "role", "insert_row",
                          "find_row", "disable", "deactivate"}
    /\ Goes(q, "failed")
    /\ UNCHANGED <<users, accounts, userRest>>

UserStep(q) ==
    CheckRow(q) \/ LookUp(q) \/ InsertRow(q) \/ FindRow(q) \/ Disable(q) \/ Deactivate(q)
      \/ UserError(q)

(* update_tenant_user and patch_current_user_profile: only the row.        *)
UpdateUser(s, e) ==
    /\ "user_edits" \in scenario.events
    /\ Resolves(s) /\ HasRow(s, e)
    /\ \E r \in Roles, on \in BOOLEAN :
          users' = [users EXCEPT ![s][e] = [role |-> r, active |-> on]]
    /\ UNCHANGED <<accounts, userRest, request>>
==================================================================================
