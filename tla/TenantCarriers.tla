----------------------------- MODULE TenantCarriers -----------------------------
(***************************************************************************)
(* The carriers of a tenant: POST /admin/carriers and                      *)
(* /admin/carriers/create, the removal of a carrier, and the assignments   *)
(* the super administrator makes (api/v1/tenant_admin.py, platform.py,     *)
(* add_carrier_to_tenant of services/tenant_provisioning_service.py).      *)
(*                                                                         *)
(* get_db sends a ROLLBACK of its own, so that the first transaction of a  *)
(* session commits every statement: the link of a carrier and the rows     *)
(* that seed it are separate steps here.                                   *)
(***************************************************************************)
EXTENDS TenantUsers

carrierRest == <<tenant, schema, users, accounts, scenario>>

AskCarrier(q) ==
    /\ request[q].pc = "new"
    /\ \A p \in 1 .. q - 1 : request[p].pc # "new"
    /\ \E op \in {"add_carrier", "create_carrier"} \cap scenario.ops, s \in Slugs, c \in Carriers :
          /\ Resolves(s)
          /\ request' = [request EXCEPT ![q] = [@ EXCEPT
                !.pc = IF op = "create_carrier" THEN "check_carrier"
                       ELSE IF c \in carriers THEN "link" ELSE "refused",
                !.op = op, !.slug = s, !.carrier = c]]
    /\ UNCHANGED <<carriers, links, seeded, carrierRest>>

(* create_and_assign_carrier, with a session of its own for public. *)
CheckCarrier(q) ==
    /\ request[q].pc = "check_carrier"
    /\ Goes(q, IF request[q].carrier \in carriers THEN "refused" ELSE "insert_carrier")
    /\ UNCHANGED <<carriers, links, seeded, carrierRest>>

(* The slug of a carrier is unique. *)
InsertCarrier(q) ==
    LET c == request[q].carrier
    IN  /\ request[q].pc = "insert_carrier"
        /\ carriers' = carriers \cup {c}
        /\ Goes(q, IF c \in carriers THEN "failed" ELSE "link")
        /\ UNCHANGED <<links, seeded, carrierRest>>

(* Mutant: nothing is left to do for a carrier that is already active. *)
Link_activeSkipped(q) ==
    LET s == request[q].slug  c == request[q].carrier
    IN  /\ request[q].pc = "link"
        /\ IF s \in Hyphenated \/ ~HasTables(s)
           THEN links' = links /\ Goes(q, "failed")
           ELSE /\ links' = [links EXCEPT ![s][c] = "active"]
                /\ Goes(q, IF links[s][c] = "active" THEN "done" ELSE "seed_carrier")
        /\ UNCHANGED <<carriers, seeded, carrierRest>>

(* add_carrier_to_tenant: the link is inserted, or active again. *)
Link(q) ==
    LET s == request[q].slug  c == request[q].carrier
    IN  /\ request[q].pc = "link"
        /\ IF s \in Hyphenated \/ ~HasTables(s)
           THEN links' = links /\ Goes(q, "failed")
           ELSE /\ links' = [links EXCEPT ![s][c] = "active"]
                /\ Goes(q, "seed_carrier")
        /\ UNCHANGED <<carriers, seeded, carrierRest>>

SeedCarrier(q) ==
    LET s == request[q].slug
    IN  /\ request[q].pc = "seed_carrier"
        /\ IF ~HasTables(s)
           THEN seeded' = seeded /\ Goes(q, "failed")
           ELSE /\ seeded' = [seeded EXCEPT ![s] = @ \cup {request[q].carrier}]
                /\ Goes(q, "done")
        /\ UNCHANGED <<carriers, links, carrierRest>>

CarrierError(q) ==
    /\ "failures" \in scenario.events
    /\ request[q].pc \in {"check_carrier", "insert_carrier", "link", "seed_carrier"}
    /\ Goes(q, "failed")
    /\ UNCHANGED <<carriers, links, seeded, carrierRest>>

CarrierStep(q) ==
    CheckCarrier(q) \/ InsertCarrier(q) \/ Link(q) \/ SeedCarrier(q) \/ CarrierError(q)

-----------------------------------------------------------------------------
(* The calls of one statement. *)
linkRest == <<carrierRest, request>>

RemoveCarrier(s, c) ==
    /\ "platform_carriers" \in scenario.events
    /\ links[s][c] = "active"
    /\ \/ Resolves(s)
       \/ ~tenant[s].deleted /\ s \notin Hyphenated
    /\ links' = [links EXCEPT ![s][c] = "inactive"]
    /\ UNCHANGED <<carriers, seeded, linkRest>>

(* Nothing is seeded, and a carrier that was removed stays inactive: the   *)
(* INSERT does nothing for a carrier that has a row.                       *)
AssignCarrier(s, c) ==
    /\ "platform_carriers" \in scenario.events
    /\ tenant[s].status # "NONE" /\ ~tenant[s].deleted
    /\ s \notin Hyphenated /\ HasTables(s)
    /\ links[s][c] = "none"
    /\ links' = [links EXCEPT ![s][c] = "active"]
    /\ UNCHANGED <<carriers, seeded, linkRest>>

CreateCarrier(c) ==
    /\ "platform_carriers" \in scenario.events
    /\ c \notin carriers
    /\ carriers' = carriers \cup {c}
    /\ UNCHANGED <<links, seeded, linkRest>>
=================================================================================
