----------------------------- MODULE PlatformProofs -----------------------------
(***************************************************************************)
(* What holds of Platform for any number of tenants, people, carriers and  *)
(* requests, however the requests interleave and whichever call fails.     *)
(***************************************************************************)
EXTENDS Platform, TLAPS

-----------------------------------------------------------------------------
(* How the requests move on.                                               *)

Passes(q, from, to) == request[q].pc \in from /\ request'[q].pc \in to
Undone(q) == IF request[q].op = "create_tenant" THEN "drop" ELSE "failed"

ProvisionMoves(q) ==
    \/ InsertTenant(q) /\ Passes(q, {"insert_tenant"}, {"schema", "refused"})
    \/ CreateSchema(q) /\ Passes(q, {"schema"}, {"migrate"})
    \/ Migrate(q) /\ Passes(q, {"migrate"}, {"seed"})
    \/ Seed(q) /\ Passes(q, {"seed"}, {Undone(q), "carriers"})
    \/ SeedCarriers(q) /\ Passes(q, {"carriers"}, {"post"})
    \/ PostAccount(q) /\ Passes(q, {"post"}, {Undone(q), "role"})
    \/ PostLost(q) /\ Passes(q, {"post"}, {Undone(q)})
    \/ GrantRole(q) /\ Passes(q, {"role"},
                              {IF request[q].op = "create_tenant" THEN "finish" ELSE "insert_row"})
    \/ Finish(q) /\ Passes(q, {"finish"}, {"done"})
    \/ ProvisionError(q) /\ request[q].op = "create_tenant"
         /\ Passes(q, {"schema", "migrate", "seed", "carriers", "post", "role", "finish"}, {"drop"})
    \/ DropSchema(q) /\ Passes(q, {"drop"}, {"mark"})
    \/ MarkDeleted(q) /\ Passes(q, {"mark"}, {"failed"})

UserMoves(q) ==
    \/ CheckRow(q) /\ Passes(q, {"check_row"}, {"failed", "refused", "look_up"})
    \/ LookUp(q) /\ Passes(q, {"look_up"}, {"refused", "post"})
    \/ InsertRow(q) /\ Passes(q, {"insert_row"}, {"failed", "done"})
    \/ FindRow(q) /\ Passes(q, {"find_row"}, {"failed", "refused", "disable"})
    \/ Disable(q) /\ Passes(q, {"disable"}, {"deactivate"})
    \/ Deactivate(q) /\ Passes(q, {"deactivate"}, {"done", "failed"})
    \/ UserError(q) /\ Passes(q, RequestPC \ {"done"}, {"failed"})

CarrierMoves(q) ==
    \/ CheckCarrier(q) /\ Passes(q, {"check_carrier"}, {"refused", "insert_carrier"})
    \/ InsertCarrier(q) /\ Passes(q, {"insert_carrier"}, {"failed", "link"})
    \/ Link(q) /\ Passes(q, {"link"}, {"failed", "seed_carrier"})
    \/ SeedCarrier(q) /\ Passes(q, {"seed_carrier"}, {"failed", "done"})
    \/ CarrierError(q) /\ Passes(q, RequestPC \ {"done"}, {"failed"})

Moves(q) ==
    \/ ProvisionMoves(q) \/ UserMoves(q) \/ CarrierMoves(q)
    \/ ServerStops(q) /\ Passes(q, RequestPC \ {"done"}, {"failed"})

(* A step of a request changes its program counter and nothing else of it. *)
SameRequest(q) ==
    /\ request' \in [Requests -> RequestRec]
    /\ \A p \in Requests \ {q} : request'[p] = request[p]
    /\ request'[q].op = request[q].op /\ request'[q].slug = request[q].slug
    /\ request'[q].email = request[q].email /\ request'[q].role = request[q].role
    /\ request'[q].carrier = request[q].carrier

LEMMA GoesFacts ==
    ASSUME TypeOK, NEW q \in Requests, NEW to \in RequestPC, Goes(q, to)
    PROVE  SameRequest(q) /\ request'[q].pc = to
<1>1. request \in [Requests -> RequestRec]
  BY DEF TypeOK
<1>2. request'[q] = [request[q] EXCEPT !.pc = to] /\ \A p \in Requests \ {q} : request'[p] = request[p]
  BY <1>1 DEF Goes
<1>3. request[q] \in RequestRec
  BY <1>1
<1>4. /\ request'[q].op = request[q].op /\ request'[q].slug = request[q].slug
      /\ request'[q].email = request[q].email /\ request'[q].role = request[q].role
      /\ request'[q].carrier = request[q].carrier /\ request'[q].pc = to
  BY <1>2, <1>3 DEF RequestRec
<1>5. request' \in [Requests -> RequestRec]
  BY <1>1 DEF Goes, RequestRec
<1> QED
  BY <1>2, <1>4, <1>5 DEF SameRequest

LEMMA StepMoves ==
    ASSUME TypeOK, NEW q \in Requests, Steps(q) \/ ServerStops(q)
    PROVE  Moves(q) /\ SameRequest(q)
<1> DEFINE To(to) == SameRequest(q) /\ request'[q].pc = to
<1>1. \A to \in RequestPC : Goes(q, to) => To(to)
  BY GoesFacts
<1>2. {"new", "refused", "done", "failed", "insert_tenant", "schema", "migrate", "seed", "carriers",
       "finish", "drop", "mark", "check_row", "look_up", "post", "role", "insert_row", "find_row",
       "disable", "deactivate", "check_carrier", "insert_carrier", "link", "seed_carrier"}
         \subseteq RequestPC
  BY DEF RequestPC
<1>3. Raises(q) => To(Undone(q))
  BY <1>1, <1>2 DEF Raises, Undone
<1> HIDE DEF To
<1>4. ASSUME ProvisionStep(q) PROVE ProvisionMoves(q) /\ SameRequest(q)
  <2>1. CASE InsertTenant(q) \/ CreateSchema(q) \/ Migrate(q) \/ SeedCarriers(q)
    BY <1>1, <1>2, <2>1
    DEF ProvisionMoves, InsertTenant, CreateSchema, Migrate, SeedCarriers, Passes, To
  <2>2. CASE Seed(q) \/ PostAccount(q) \/ PostLost(q) \/ ProvisionError(q)
    BY <1>1, <1>2, <1>3, <2>2
    DEF ProvisionMoves, Seed, PostAccount, PostLost, ProvisionError, Passes, To, Undone
  <2>3. CASE GrantRole(q) \/ Finish(q) \/ DropSchema(q) \/ MarkDeleted(q)
    BY <1>1, <1>2, <2>3 DEF ProvisionMoves, GrantRole, Finish, DropSchema, MarkDeleted, Passes, To
  <2> QED
    BY <1>4, <2>1, <2>2, <2>3 DEF ProvisionStep
<1>5. ASSUME UserStep(q) PROVE UserMoves(q) /\ SameRequest(q)
  BY <1>1, <1>2, <1>5
  DEF UserStep, UserMoves, CheckRow, LookUp, InsertRow, FindRow, Disable, Deactivate, UserError,
      Passes, To, RequestPC
<1>6. ASSUME CarrierStep(q) PROVE CarrierMoves(q) /\ SameRequest(q)
  <2>1. CASE CheckCarrier(q)
    BY <1>1, <1>2, <2>1 DEF CarrierMoves, CheckCarrier, Passes, To
  <2>2. CASE InsertCarrier(q)
    BY <1>1, <1>2, <2>2 DEF CarrierMoves, InsertCarrier, Passes, To
  <2>3. CASE Link(q)
    BY <1>1, <1>2, <2>3 DEF CarrierMoves, Link, Passes, To
  <2>4. CASE SeedCarrier(q)
    BY <1>1, <1>2, <2>4 DEF CarrierMoves, SeedCarrier, Passes, To
  <2>5. CASE CarrierError(q)
    BY <1>1, <1>2, <2>5 DEF CarrierMoves, CarrierError, Passes, To, RequestPC
  <2> QED
    BY <1>6, <2>1, <2>2, <2>3, <2>4, <2>5 DEF CarrierStep
<1>7. ASSUME ServerStops(q) PROVE Moves(q) /\ SameRequest(q)
  <2>1. request[q].pc \in RequestPC
    BY DEF TypeOK, RequestRec
  <2> QED
    BY <1>1, <1>2, <1>7, <2>1 DEF ServerStops, Moves, Passes, To
<1> QED
  BY <1>4, <1>5, <1>6, <1>7 DEF Steps, Moves

(* The request that arrives, and whether the tenant resolved for it. *)
Asked(q) ==
    /\ request' \in [Requests -> RequestRec]
    /\ \A p \in Requests \ {q} : request'[p] = request[p]
    /\ request[q].pc = "new"
    /\ \/ /\ request'[q].op = "create_tenant" /\ request'[q].role = "TENANT_ADMIN"
          /\ request'[q].pc \in {"refused", "insert_tenant"}
       \/ /\ Resolves(request'[q].slug)
          /\ \/ request'[q].op = "create_user" /\ request'[q].pc \in {"check_row"}
             \/ request'[q].op = "delete_user" /\ request'[q].pc \in {"find_row"}
             \/ /\ request'[q].op \in {"add_carrier", "create_carrier"}
                /\ request'[q].pc \in {"check_carrier", "link", "refused"}

Asks(q) == AskTenant(q) \/ AskUser(q) \/ AskCarrier(q)

LEMMA AskMoves ==
    ASSUME TypeOK, NEW q \in Requests, Asks(q)
    PROVE  /\ Asked(q)
           /\ UNCHANGED <<tenant, schema, users, accounts, carriers, links, seeded, scenario>>
<1>1. request \in [Requests -> RequestRec] /\ request[q] \in RequestRec
  BY DEF TypeOK
<1>2. CASE AskTenant(q)
  <2>1. PICK s \in Slugs, e \in Emails, c \in Carriers :
          request' = [request EXCEPT ![q] =
             [pc |-> IF tenant[s].status # "NONE" /\ ~tenant[s].deleted
                     THEN "refused" ELSE "insert_tenant",
              op |-> "create_tenant", slug |-> s, email |-> e, role |-> "TENANT_ADMIN",
              carrier |-> c]]
    BY <1>2 DEF AskTenant
  <2>2. /\ \A p \in Requests \ {q} : request'[p] = request[p]
        /\ request'[q].op = "create_tenant" /\ request'[q].role = "TENANT_ADMIN"
        /\ request'[q].pc \in {"refused", "insert_tenant"}
    BY <1>1, <2>1
  <2>3. request' \in [Requests -> RequestRec]
    <3>1. request'[q] \in RequestRec
      BY <1>1, <2>1 DEF RequestRec, RequestPC, Ops, Roles
    <3> QED
      BY <1>1, <2>1, <2>2, <3>1
  <2>4. /\ request[q].pc = "new"
        /\ UNCHANGED <<tenant, schema, users, accounts, carriers, links, seeded, scenario>>
    BY <1>2 DEF AskTenant, rest
  <2> QED
    BY <2>2, <2>3, <2>4 DEF Asked
<1>3. CASE AskUser(q)
  <2>1. PICK op \in {"create_user", "delete_user"} \cap scenario.ops, s \in Slugs, e \in Emails,
             r \in {"AUDITOR", "REVIEWER"} :
          /\ op = "delete_user" => r = "AUDITOR"
          /\ Resolves(s)
          /\ request' = [request EXCEPT ![q] = [@ EXCEPT
                !.pc = IF op = "create_user" THEN "check_row" ELSE "find_row",
                !.op = op, !.slug = s, !.email = e, !.role = r]]
    BY <1>3 DEF AskUser
  <2>2. request'[q] = [request[q] EXCEPT !.pc = IF op = "create_user" THEN "check_row" ELSE "find_row",
                                         !.op = op, !.slug = s, !.email = e, !.role = r]
    BY <1>1, <2>1
  <2>3. \A p \in Requests \ {q} : request'[p] = request[p]
    BY <1>1, <2>1
  <2>4. /\ request'[q].op = op /\ request'[q].slug = s
        /\ request'[q].pc = IF op = "create_user" THEN "check_row" ELSE "find_row"
    BY <1>1, <2>2 DEF RequestRec
  <2>5. request'[q] \in RequestRec
    BY ZenonT(30), <1>1, <2>1, <2>2 DEF RequestRec, RequestPC, Ops, Roles
  <2>6. request' \in [Requests -> RequestRec]
    BY <1>1, <2>1, <2>3, <2>5
  <2>7. /\ request[q].pc = "new"
        /\ UNCHANGED <<tenant, schema, users, accounts, carriers, links, seeded, scenario>>
    BY <1>3 DEF AskUser, userRest
  <2> QED
    BY <2>1, <2>3, <2>4, <2>6, <2>7 DEF Asked
<1>4. CASE AskCarrier(q)
  <2>1. PICK op \in {"add_carrier", "create_carrier"} \cap scenario.ops, s \in Slugs, c \in Carriers :
          /\ Resolves(s)
          /\ request' = [request EXCEPT ![q] = [@ EXCEPT
                !.pc = IF op = "create_carrier" THEN "check_carrier"
                       ELSE IF c \in carriers THEN "link" ELSE "refused",
                !.op = op, !.slug = s, !.carrier = c]]
    BY <1>4 DEF AskCarrier
  <2>2. request'[q] = [request[q] EXCEPT !.pc = IF op = "create_carrier" THEN "check_carrier"
                                                ELSE IF c \in carriers THEN "link" ELSE "refused",
                                         !.op = op, !.slug = s, !.carrier = c]
    BY <1>1, <2>1
  <2>3. \A p \in Requests \ {q} : request'[p] = request[p]
    BY <1>1, <2>1
  <2>4. /\ request'[q].op = op /\ request'[q].slug = s
        /\ request'[q].pc \in {"check_carrier", "link", "refused"}
    BY <1>1, <2>2 DEF RequestRec
  <2>5. request'[q] \in RequestRec
    BY <1>1, <2>1, <2>2 DEF RequestRec, RequestPC, Ops, Roles
  <2>6. request' \in [Requests -> RequestRec]
    BY <1>1, <2>1, <2>3, <2>5
  <2>7. /\ request[q].pc = "new"
        /\ UNCHANGED <<tenant, schema, users, accounts, carriers, links, seeded, scenario>>
    BY <1>4 DEF AskCarrier, carrierRest
  <2> QED
    BY <2>1, <2>3, <2>4, <2>6, <2>7 DEF Asked
<1> QED
  BY <1>2, <1>3, <1>4 DEF Asks

(* The calls of one statement. *)
Calls ==
    \/ \E s \in Slugs : DeleteTenant(s) \/ ActivateTenant(s) \/ SuspendTenant(s)
    \/ \E s \in Slugs, e \in Emails : UpdateUser(s, e)
    \/ \E s \in Slugs, c \in Carriers : RemoveCarrier(s, c) \/ AssignCarrier(s, c)
    \/ \E c \in Carriers : CreateCarrier(c)

LEMMA NextCases ==
    ASSUME Next
    PROVE  \/ \E q \in Requests : Steps(q) \/ ServerStops(q)
           \/ \E q \in Requests : Asks(q)
           \/ Calls
BY DEF Next, Asks, Calls

-----------------------------------------------------------------------------
(* What each variable changes by.                                          *)

LEMMA TenantChanges ==
    ASSUME NEW q \in Requests, Steps(q) \/ ServerStops(q)
    PROVE  UNCHANGED tenant \/ InsertTenant(q) \/ Finish(q) \/ MarkDeleted(q)
BY DEF Steps, ServerStops, ProvisionStep, UserStep, CarrierStep, CreateSchema, Migrate, Seed,
       SeedCarriers, PostAccount, PostLost, GrantRole, ProvisionError, DropSchema, CheckRow, LookUp,
       InsertRow, FindRow, Disable, Deactivate, UserError, CheckCarrier, InsertCarrier, Link,
       SeedCarrier, CarrierError, userRest, carrierRest

LEMMA SchemaChanges ==
    ASSUME NEW q \in Requests, Steps(q) \/ ServerStops(q)
    PROVE  UNCHANGED schema \/ CreateSchema(q) \/ Migrate(q) \/ Seed(q) \/ DropSchema(q)
BY DEF Steps, ServerStops, ProvisionStep, UserStep, CarrierStep, InsertTenant, Finish, MarkDeleted,
       SeedCarriers, PostAccount, PostLost, GrantRole, ProvisionError, CheckRow, LookUp,
       InsertRow, FindRow, Disable, Deactivate, UserError, CheckCarrier, InsertCarrier, Link,
       SeedCarrier, CarrierError, userRest, carrierRest

LEMMA UsersChanges ==
    ASSUME NEW q \in Requests, Steps(q) \/ ServerStops(q)
    PROVE  UNCHANGED users \/ Finish(q) \/ DropSchema(q) \/ InsertRow(q) \/ Deactivate(q)
BY DEF Steps, ServerStops, ProvisionStep, UserStep, CarrierStep, InsertTenant, CreateSchema, Migrate,
       Seed, SeedCarriers, PostAccount, PostLost, GrantRole, ProvisionError, MarkDeleted, CheckRow,
       LookUp, FindRow, Disable, UserError, CheckCarrier, InsertCarrier, Link,
       SeedCarrier, CarrierError, userRest, carrierRest

LEMMA AccountsChanges ==
    ASSUME NEW q \in Requests, Steps(q) \/ ServerStops(q)
    PROVE  UNCHANGED accounts \/ PostAccount(q) \/ PostLost(q) \/ GrantRole(q) \/ Disable(q)
BY DEF Steps, ServerStops, ProvisionStep, UserStep, CarrierStep, InsertTenant, CreateSchema, Migrate,
       Seed, SeedCarriers, Finish, ProvisionError, DropSchema, MarkDeleted, CheckRow, LookUp,
       InsertRow, FindRow, Deactivate, UserError, CheckCarrier, InsertCarrier, Link,
       SeedCarrier, CarrierError, userRest, carrierRest

LEMMA CarriersChange ==
    ASSUME NEW q \in Requests, Steps(q) \/ ServerStops(q)
    PROVE  /\ UNCHANGED links \/ SeedCarriers(q) \/ DropSchema(q) \/ Link(q)
           /\ UNCHANGED seeded \/ SeedCarriers(q) \/ DropSchema(q) \/ SeedCarrier(q)
           /\ UNCHANGED carriers \/ InsertCarrier(q)
           /\ UNCHANGED scenario
<1>1. UNCHANGED links \/ SeedCarriers(q) \/ DropSchema(q) \/ Link(q)
  BY DEF Steps, ServerStops, ProvisionStep, UserStep, CarrierStep, InsertTenant, CreateSchema, Migrate,
       Seed, PostAccount, PostLost, GrantRole, Finish, ProvisionError, MarkDeleted, CheckRow, LookUp,
       InsertRow, FindRow, Disable, Deactivate, UserError, CheckCarrier, InsertCarrier,
       SeedCarrier, CarrierError, userRest, carrierRest
<1>2. UNCHANGED seeded \/ SeedCarriers(q) \/ DropSchema(q) \/ SeedCarrier(q)
  BY DEF Steps, ServerStops, ProvisionStep, UserStep, CarrierStep, InsertTenant, CreateSchema, Migrate,
       Seed, PostAccount, PostLost, GrantRole, Finish, ProvisionError, MarkDeleted, CheckRow, LookUp,
       InsertRow, FindRow, Disable, Deactivate, UserError, CheckCarrier, InsertCarrier, Link,
       CarrierError, userRest, carrierRest
<1>3. UNCHANGED scenario /\ (UNCHANGED carriers \/ InsertCarrier(q))
  BY DEF Steps, ServerStops, ProvisionStep, UserStep, CarrierStep, InsertTenant, CreateSchema, Migrate,
       Seed, SeedCarriers, PostAccount, PostLost, GrantRole, Finish, ProvisionError, DropSchema,
       MarkDeleted, CheckRow, LookUp, InsertRow, FindRow, Disable, Deactivate, UserError, CheckCarrier,
       InsertCarrier, Link, SeedCarrier, CarrierError, rest, userRest, carrierRest
<1> QED
  BY <1>1, <1>2, <1>3

-----------------------------------------------------------------------------
(* Type correctness.                                                       *)

LEMMA InitTyped == PlatformInit => TypeOK
<1> SUFFICES ASSUME PlatformInit PROVE TypeOK
  OBVIOUS
<1>1. /\ (CHOOSE s \in Slugs : TRUE) \in Slugs
      /\ (CHOOSE e \in Emails : TRUE) \in Emails
      /\ (CHOOSE c \in Carriers : TRUE) \in Carriers
  BY PlatformAssumption DEF PlatformAssumption
<1>2. Unasked \in RequestRec
  BY <1>1 DEF Unasked, RequestRec, RequestPC, Ops, Roles
<1>3. request \in [Requests -> RequestRec]
  BY <1>2 DEF PlatformInit
<1>4. NoTenant \in TenantRec /\ NoRow \in UserRec /\ NoAccount \in AccountRec
  BY DEF NoTenant, NoRow, NoAccount, TenantRec, UserRec, AccountRec, TenantStatus
<1>5. tenant \in [Slugs -> TenantRec] /\ accounts \in [Emails -> AccountRec]
  BY <1>4 DEF PlatformInit
<1>6. users \in [Slugs -> [Emails -> UserRec]]
  BY <1>4 DEF PlatformInit
<1>7. schema \in [Slugs -> SchemaState] /\ links \in [Slugs -> [Carriers -> LinkState]]
  BY DEF PlatformInit, SchemaState, LinkState
<1>8. carriers \in SUBSET Carriers /\ seeded \in [Slugs -> SUBSET Carriers] /\ scenario \in Scenarios
  BY DEF PlatformInit
<1> QED
  BY <1>3, <1>5, <1>6, <1>7, <1>8 DEF TypeOK

LEMMA RequestTypes ==
    ASSUME TypeOK, NEW q \in Requests
    PROVE  /\ request[q].slug \in Slugs /\ request[q].email \in Emails /\ request[q].role \in Roles
           /\ request[q].carrier \in Carriers /\ request[q].op \in Ops /\ request[q].pc \in RequestPC
BY DEF TypeOK, RequestRec

LEMMA StepTyped ==
    ASSUME TypeOK, NEW q \in Requests, Steps(q) \/ ServerStops(q)
    PROVE  TypeOK'
<1>1. /\ request[q].slug \in Slugs /\ request[q].email \in Emails /\ request[q].role \in Roles
      /\ request[q].carrier \in Carriers
  BY RequestTypes
<1>2. /\ tenant \in [Slugs -> TenantRec] /\ schema \in [Slugs -> SchemaState]
      /\ users \in [Slugs -> [Emails -> UserRec]] /\ accounts \in [Emails -> AccountRec]
      /\ carriers \in SUBSET Carriers /\ links \in [Slugs -> [Carriers -> LinkState]]
      /\ seeded \in [Slugs -> SUBSET Carriers] /\ scenario \in Scenarios
  BY DEF TypeOK
<1>3. request' \in [Requests -> RequestRec]
  BY StepMoves DEF SameRequest
<1>4. tenant' \in [Slugs -> TenantRec]
  <2>1. \A st \in TenantStatus : [tenant[request[q].slug] EXCEPT !.status = st] \in TenantRec
    BY <1>1, <1>2 DEF TenantRec
  <2>2. CASE InsertTenant(q)
    BY <1>1, <1>2, <2>1, <2>2 DEF InsertTenant, TenantStatus
  <2>3. CASE Finish(q)
    BY <1>1, <1>2, <2>1, <2>3 DEF Finish, TenantStatus
  <2>4. CASE MarkDeleted(q)
    <3>1. [status |-> "DELETED", deleted |-> TRUE] \in TenantRec
      BY DEF TenantRec, TenantStatus
    <3> QED
      BY <1>1, <1>2, <2>4, <3>1 DEF MarkDeleted
  <2> QED
    BY <1>2, <2>2, <2>3, <2>4, TenantChanges
<1>5. schema' \in [Slugs -> SchemaState]
  <2>1. CASE CreateSchema(q) \/ Migrate(q) \/ Seed(q) \/ DropSchema(q)
    BY <1>1, <1>2, <2>1 DEF CreateSchema, Migrate, Seed, DropSchema, SchemaState
  <2> QED
    BY <1>2, <2>1, SchemaChanges
<1>6. users' \in [Slugs -> [Emails -> UserRec]]
  <2>a. \A r \in UserRec :
          [users EXCEPT ![request[q].slug][request[q].email] = r] \in [Slugs -> [Emails -> UserRec]]
    BY <1>1, <1>2
  <2>1. CASE Finish(q)
    <3>1. [role |-> "TENANT_ADMIN", active |-> TRUE] \in UserRec
      BY DEF UserRec, Roles
    <3> QED
      BY <2>1, <2>a, <3>1 DEF Finish
  <2>2. CASE DropSchema(q)
    <3>1. [e \in Emails |-> NoRow] \in [Emails -> UserRec]
      BY DEF NoRow, UserRec
    <3> QED
      BY <1>1, <1>2, <2>2, <3>1 DEF DropSchema
  <2>3. CASE InsertRow(q)
    <3>1. [role |-> request[q].role, active |-> TRUE] \in UserRec
      BY <1>1 DEF UserRec
    <3> QED
      BY <1>2, <2>3, <2>a, <3>1 DEF InsertRow
  <2>4. CASE Deactivate(q)
    <3>1. users[request[q].slug][request[q].email] \in UserRec
      BY <1>1, <1>2
    <3>2. [users[request[q].slug][request[q].email] EXCEPT !.active = FALSE] \in UserRec
      BY <3>1 DEF UserRec
    <3>3. users' = [users EXCEPT ![request[q].slug][request[q].email] =
                       [users[request[q].slug][request[q].email] EXCEPT !.active = FALSE]]
      BY <1>1, <1>2, <2>4 DEF Deactivate
    <3> QED
      BY <2>a, <3>2, <3>3
  <2> QED
    BY <1>2, <2>1, <2>2, <2>3, <2>4, UsersChanges
<1>7. accounts' \in [Emails -> AccountRec]
  <2>1. [slug |-> request[q].slug, role |-> "none", enabled |-> TRUE] \in AccountRec
    BY <1>1 DEF AccountRec
  <2>2. accounts[request[q].email] \in AccountRec
    BY <1>1, <1>2
  <2>3. /\ [accounts[request[q].email] EXCEPT !.role = request[q].role] \in AccountRec
        /\ [accounts[request[q].email] EXCEPT !.enabled = FALSE] \in AccountRec
    BY <1>1, <2>2 DEF AccountRec
  <2>4. CASE PostAccount(q)
    BY <1>1, <1>2, <2>1, <2>4 DEF PostAccount
  <2>5. CASE PostLost(q)
    BY <1>1, <1>2, <2>1, <2>5 DEF PostLost
  <2>6. CASE GrantRole(q)
    BY <1>1, <1>2, <2>3, <2>6 DEF GrantRole
  <2>7. CASE Disable(q)
    BY <1>1, <1>2, <2>3, <2>7 DEF Disable
  <2> QED
    BY <1>2, <2>4, <2>5, <2>6, <2>7, AccountsChanges
<1>8. links' \in [Slugs -> [Carriers -> LinkState]]
  <2>1. /\ "active" \in LinkState
        /\ [c \in Carriers |-> "none"] \in [Carriers -> LinkState]
    BY DEF LinkState
  <2>2. [links EXCEPT ![request[q].slug][request[q].carrier] = "active"]
          \in [Slugs -> [Carriers -> LinkState]]
    BY <1>1, <1>2, <2>1
  <2>3. CASE SeedCarriers(q)
    BY <1>2, <2>2, <2>3 DEF SeedCarriers
  <2>4. CASE Link(q)
    BY <1>2, <2>2, <2>4 DEF Link
  <2>5. CASE DropSchema(q)
    BY <1>1, <1>2, <2>1, <2>5 DEF DropSchema
  <2> QED
    BY <1>2, <2>3, <2>4, <2>5, CarriersChange
<1>9. seeded' \in [Slugs -> SUBSET Carriers]
  <2>1. CASE SeedCarriers(q) \/ SeedCarrier(q) \/ DropSchema(q)
    BY <1>1, <1>2, <2>1 DEF SeedCarriers, SeedCarrier, DropSchema
  <2> QED
    BY <1>2, <2>1, CarriersChange
<1>10. carriers' \in SUBSET Carriers /\ scenario' \in Scenarios
  BY <1>1, <1>2, CarriersChange DEF InsertCarrier
<1> QED
  BY <1>3, <1>4, <1>5, <1>6, <1>7, <1>8, <1>9, <1>10 DEF TypeOK

LEMMA CallTyped ==
    ASSUME TypeOK, Calls
    PROVE  TypeOK'
<1>1. ASSUME NEW s \in Slugs, DeleteTenant(s) \/ ActivateTenant(s) \/ SuspendTenant(s)
      PROVE  TypeOK'
  <2>1. tenant' \in [Slugs -> TenantRec]
    <3>1. tenant[s] \in TenantRec /\ tenant \in [Slugs -> TenantRec]
      BY DEF TypeOK
    <3>2. /\ [status |-> "DELETED", deleted |-> TRUE] \in TenantRec
          /\ [tenant[s] EXCEPT !.status = "ACTIVE"] \in TenantRec
          /\ [tenant[s] EXCEPT !.status = "SUSPENDED"] \in TenantRec
      BY <3>1 DEF TenantRec, TenantStatus
    <3>3. \/ tenant' = [tenant EXCEPT ![s] = [status |-> "DELETED", deleted |-> TRUE]]
          \/ tenant' = [tenant EXCEPT ![s] = [tenant[s] EXCEPT !.status = "ACTIVE"]]
          \/ tenant' = [tenant EXCEPT ![s] = [tenant[s] EXCEPT !.status = "SUSPENDED"]]
      BY <1>1, <3>1 DEF DeleteTenant, ActivateTenant, SuspendTenant
    <3> QED
      BY <3>1, <3>2, <3>3
  <2> QED
    BY <1>1, <2>1 DEF TypeOK, DeleteTenant, ActivateTenant, SuspendTenant, others
<1>2. ASSUME NEW s \in Slugs, NEW e \in Emails, UpdateUser(s, e)
      PROVE  TypeOK'
  <2>1. users[s][e] \in UserRec
    BY <1>2 DEF TypeOK
  <2>2. users' \in [Slugs -> [Emails -> UserRec]]
    BY <1>2, <2>1 DEF TypeOK, UpdateUser, UserRec, Roles
  <2> QED
    BY <1>2, <2>2 DEF TypeOK, UpdateUser, userRest
<1>3. ASSUME NEW s \in Slugs, NEW c \in Carriers, RemoveCarrier(s, c) \/ AssignCarrier(s, c)
      PROVE  TypeOK'
  <2>1. links' \in [Slugs -> [Carriers -> LinkState]]
    <3>1. \A l \in LinkState : [links EXCEPT ![s][c] = l] \in [Slugs -> [Carriers -> LinkState]]
      BY DEF TypeOK
    <3> QED
      BY <1>3, <3>1 DEF RemoveCarrier, AssignCarrier, LinkState
  <2> QED
    BY <1>3, <2>1 DEF TypeOK, RemoveCarrier, AssignCarrier, linkRest, carrierRest
<1>4. ASSUME NEW c \in Carriers, CreateCarrier(c)
      PROVE  TypeOK'
  BY <1>4 DEF TypeOK, CreateCarrier, linkRest, carrierRest
<1> QED
  BY <1>1, <1>2, <1>3, <1>4 DEF Calls

LEMMA TypeInductive == TypeOK /\ [Next]_platformVars => TypeOK'
<1> SUFFICES ASSUME TypeOK, [Next]_platformVars PROVE TypeOK'
  OBVIOUS
<1>1. ASSUME NEW q \in Requests, Asks(q) PROVE TypeOK'
  BY <1>1, AskMoves DEF Asked, TypeOK
<1>2. CASE UNCHANGED platformVars
  BY <1>2 DEF platformVars, TypeOK
<1> QED
  BY <1>1, <1>2, NextCases, StepTyped, CallTyped

(* Every variable keeps its type, for any number of tenants, people and    *)
(* requests.                                                               *)
THEOREM PlatformTypeCorrect == Spec => []TypeOK
<1>1. PlatformInit => TypeOK
  BY InitTyped
<1>2. TypeOK /\ [Next]_platformVars => TypeOK'
  BY TypeInductive
<1> QED
  BY <1>1, <1>2, PTL DEF Spec

-----------------------------------------------------------------------------
(* What each variable looks like after the step of a request.              *)

LEMMA TenantAfter ==
    ASSUME TypeOK, NEW q \in Requests, Steps(q) \/ ServerStops(q), NEW s \in Slugs
    PROVE  \/ tenant'[s] = tenant[s]
           \/ s = request[q].slug /\ InsertTenant(q) /\ tenant[s].status = "NONE"
                /\ tenant'[s].status = "PROVISIONING"
           \/ s = request[q].slug /\ Finish(q) /\ tenant'[s].status = "ACTIVE"
           \/ s = request[q].slug /\ MarkDeleted(q) /\ tenant'[s].status = "DELETED"
<1>1. tenant \in [Slugs -> TenantRec] /\ request[q].slug \in Slugs
  BY RequestTypes DEF TypeOK
<1>2. CASE InsertTenant(q)
  <2>1. CASE tenant[request[q].slug].status = "NONE"
    <3>1. tenant' = [tenant EXCEPT ![request[q].slug] =
                        [tenant[request[q].slug] EXCEPT !.status = "PROVISIONING"]]
      BY <1>1, <1>2, <2>1 DEF InsertTenant
    <3>2. [tenant[request[q].slug] EXCEPT !.status = "PROVISIONING"].status = "PROVISIONING"
      BY <1>1 DEF TenantRec
    <3> QED
      BY <1>1, <1>2, <2>1, <3>1, <3>2
  <2>2. CASE tenant[request[q].slug].status # "NONE"
    BY <1>2, <2>2 DEF InsertTenant
  <2> QED
    BY <2>1, <2>2
<1>3. CASE Finish(q)
  <2>1. tenant' = [tenant EXCEPT ![request[q].slug] =
                      [tenant[request[q].slug] EXCEPT !.status = "ACTIVE"]]
    BY <1>1, <1>3 DEF Finish
  <2>2. [tenant[request[q].slug] EXCEPT !.status = "ACTIVE"].status = "ACTIVE"
    BY <1>1 DEF TenantRec
  <2> QED
    BY <1>1, <1>3, <2>1, <2>2
<1>4. CASE MarkDeleted(q)
  <2>1. tenant' = [tenant EXCEPT ![request[q].slug] = [status |-> "DELETED", deleted |-> TRUE]]
    BY <1>4 DEF MarkDeleted
  <2> QED
    BY <1>1, <1>4, <2>1
<1> QED
  BY <1>2, <1>3, <1>4, TenantChanges

LEMMA SchemaAfter ==
    ASSUME TypeOK, NEW q \in Requests, Steps(q) \/ ServerStops(q), NEW s \in Slugs
    PROVE  \/ schema'[s] = schema[s]
           \/ s = request[q].slug /\ (CreateSchema(q) \/ Migrate(q) \/ DropSchema(q))
           \/ s = request[q].slug /\ Seed(q) /\ schema'[s] = "seeded"
BY SchemaChanges, RequestTypes DEF TypeOK, CreateSchema, Migrate, Seed, DropSchema

LEMMA UsersAfter ==
    ASSUME TypeOK, NEW q \in Requests, Steps(q) \/ ServerStops(q), NEW s \in Slugs, NEW e \in Emails
    PROVE  \/ users'[s][e] = users[s][e]
           \/ s = request[q].slug /\ DropSchema(q) /\ users'[s][e].role = "none"
           \/ /\ s = request[q].slug /\ e = request[q].email
              /\ \/ Finish(q) /\ users'[s][e] = [role |-> "TENANT_ADMIN", active |-> TRUE]
                 \/ /\ InsertRow(q) /\ HasTables(s) /\ ~HasRow(s, e) /\ request'[q].pc = "done"
                    /\ users'[s][e] = [role |-> request[q].role, active |-> TRUE]
                 \/ Deactivate(q) /\ users'[s][e].role = users[s][e].role
<1>1. /\ users \in [Slugs -> [Emails -> UserRec]] /\ request[q].slug \in Slugs
      /\ request[q].email \in Emails
  BY RequestTypes DEF TypeOK
<1> DEFINE Put(r) == [users EXCEPT ![request[q].slug][request[q].email] = r]
<1>2. ASSUME NEW r
      PROVE  /\ Put(r)[request[q].slug][request[q].email] = r
             /\ s # request[q].slug \/ e # request[q].email => Put(r)[s][e] = users[s][e]
  BY <1>1
<1>3. CASE Finish(q)
  <2>1. users' = Put([role |-> "TENANT_ADMIN", active |-> TRUE])
    BY <1>3 DEF Finish
  <2> HIDE DEF Put
  <2> QED
    BY <1>2, <1>3, <2>1
<1>4. CASE DropSchema(q)
  BY <1>1, <1>4 DEF DropSchema, NoRow
<1>5. CASE InsertRow(q)
  <2>1. CASE ~HasTables(request[q].slug) \/ HasRow(request[q].slug, request[q].email)
    BY <1>5, <2>1 DEF InsertRow
  <2>2. CASE HasTables(request[q].slug) /\ ~HasRow(request[q].slug, request[q].email)
    <3>1. users' = Put([role |-> request[q].role, active |-> TRUE]) /\ Goes(q, "done")
      BY <1>5, <2>2 DEF InsertRow
    <3>2. request'[q].pc = "done"
      BY <3>1, GoesFacts DEF RequestPC
    <3> HIDE DEF Put
    <3> QED
      BY <1>2, <1>5, <2>2, <3>1, <3>2
  <2> QED
    BY <2>1, <2>2
<1>6. CASE Deactivate(q)
  <2>1. users' = Put([users[request[q].slug][request[q].email] EXCEPT !.active = FALSE])
    BY <1>1, <1>6 DEF Deactivate
  <2>2. [users[request[q].slug][request[q].email] EXCEPT !.active = FALSE].role
          = users[request[q].slug][request[q].email].role
    BY <1>1 DEF UserRec
  <2> HIDE DEF Put
  <2> QED
    BY ZenonT(30), <1>2, <1>6, <2>1, <2>2
<1> QED
  BY <1>3, <1>4, <1>5, <1>6, UsersChanges

LEMMA RowsAfter ==
    ASSUME TypeOK, NEW q \in Requests, Steps(q) \/ ServerStops(q), NEW s \in Slugs, NEW e \in Emails
    PROVE  \/ users'[s][e].role = users[s][e].role \/ users'[s][e].role = "none"
           \/ e = request[q].email /\ (Finish(q) \/ InsertRow(q))
BY ZenonT(30), UsersAfter

LEMMA AccountsAfter ==
    ASSUME TypeOK, NEW q \in Requests, Steps(q) \/ ServerStops(q), NEW e \in Emails
    PROVE  \/ accounts'[e] = accounts[e]
           \/ /\ e = request[q].email /\ (PostAccount(q) \/ PostLost(q)) /\ ~HasAccount(e)
              /\ accounts'[e] = [slug |-> request[q].slug, role |-> "none", enabled |-> TRUE]
           \/ /\ e = request[q].email /\ GrantRole(q) /\ accounts'[e].role = request[q].role
              /\ accounts'[e].slug = accounts[e].slug /\ accounts'[e].enabled = accounts[e].enabled
           \/ /\ e = request[q].email /\ Disable(q) /\ accounts'[e].role = accounts[e].role
              /\ accounts'[e].slug = accounts[e].slug /\ ~accounts'[e].enabled
<1>1. accounts \in [Emails -> AccountRec] /\ request[q].email \in Emails
  BY RequestTypes DEF TypeOK
<1>2. CASE PostAccount(q) \/ PostLost(q)
  BY <1>1, <1>2 DEF PostAccount, PostLost
<1>3. CASE GrantRole(q)
  <2>1. accounts' = [accounts EXCEPT ![request[q].email] =
                        [accounts[request[q].email] EXCEPT !.role = request[q].role]]
    BY <1>1, <1>3 DEF GrantRole
  <2> QED
    BY <1>1, <1>3, <2>1 DEF AccountRec
<1>4. CASE Disable(q)
  <2>1. accounts' = [accounts EXCEPT ![request[q].email] =
                        [accounts[request[q].email] EXCEPT !.enabled = FALSE]]
    BY <1>1, <1>4 DEF Disable
  <2> QED
    BY <1>1, <1>4, <2>1 DEF AccountRec
<1> QED
  BY <1>2, <1>3, <1>4, AccountsChanges

LEMMA SeededAfter ==
    ASSUME TypeOK, NEW q \in Requests, Steps(q) \/ ServerStops(q), NEW s \in Slugs
    PROVE  seeded[s] \subseteq seeded'[s] \/ (s = request[q].slug /\ DropSchema(q))
<1>1. seeded \in [Slugs -> SUBSET Carriers] /\ request[q].slug \in Slugs
  BY RequestTypes DEF TypeOK
<1>2. ASSUME NEW t \in Slugs, NEW c, seeded' = [seeded EXCEPT ![t] = @ \cup {c}]
      PROVE  seeded[s] \subseteq seeded'[s]
  <2>1. CASE s = t
    BY <1>1, <1>2, <2>1
  <2>2. CASE s # t
    BY <1>1, <1>2, <2>2
  <2> QED
    BY <2>1, <2>2
<1>3. CASE SeedCarriers(q)
  BY <1>1, <1>2, <1>3 DEF SeedCarriers
<1>4. CASE SeedCarrier(q)
  BY <1>1, <1>2, <1>4 DEF SeedCarrier
<1>5. CASE DropSchema(q)
  BY <1>1, <1>5 DEF DropSchema
<1> QED
  BY <1>3, <1>4, <1>5, CarriersChange

(* A call of one statement changes no request, schema or account, seeds    *)
(* nothing, and activates a tenant that is being provisioned only if the   *)
(* scenario has it.                                                        *)
LEMMA CallsAfter ==
    ASSUME TypeOK, Calls
    PROVE  /\ UNCHANGED <<schema, accounts, seeded, request, scenario>>
           /\ \A s \in Slugs, e \in Emails : HasRow(s, e)' = HasRow(s, e)
           /\ UNCHANGED users \/ Happens("user_edits")
           /\ \A s \in Slugs : tenant[s].status # "NONE" => tenant'[s].status # "NONE"
           /\ \A s \in Slugs : /\ tenant'[s].status \in {"ACTIVE", "SUSPENDED"}
                               /\ ~Happens("early_activation")
                               => tenant[s].status \in {"ACTIVE", "SUSPENDED"}
<1>1. tenant \in [Slugs -> TenantRec] /\ users \in [Slugs -> [Emails -> UserRec]]
  BY DEF TypeOK
<1>2. ASSUME NEW t \in Slugs, DeleteTenant(t) \/ ActivateTenant(t) \/ SuspendTenant(t)
      PROVE  /\ UNCHANGED <<schema, users, accounts, seeded, request, scenario>>
             /\ \A s \in Slugs : tenant[s].status # "NONE" => tenant'[s].status # "NONE"
             /\ \A s \in Slugs : /\ tenant'[s].status \in {"ACTIVE", "SUSPENDED"}
                                 /\ ~Happens("early_activation")
                                 => tenant[s].status \in {"ACTIVE", "SUSPENDED"}
  <2>1. UNCHANGED <<schema, users, accounts, seeded, request, scenario>>
    BY <1>2 DEF DeleteTenant, ActivateTenant, SuspendTenant, others
  <2>2. \A s \in Slugs \ {t} : tenant'[s] = tenant[s]
    BY <1>1, <1>2 DEF DeleteTenant, ActivateTenant, SuspendTenant
  <2>3. /\ tenant'[t].status # "NONE"
        /\ tenant'[t].status \in {"ACTIVE", "SUSPENDED"} /\ ~Happens("early_activation")
             => tenant[t].status \in {"ACTIVE", "SUSPENDED"}
    <3>1. CASE DeleteTenant(t)
      BY <1>1, <3>1 DEF DeleteTenant
    <3>2. CASE ActivateTenant(t)
      <4>1. tenant' = [tenant EXCEPT ![t] = [tenant[t] EXCEPT !.status = "ACTIVE"]]
        BY <1>1, <3>2 DEF ActivateTenant
      <4>2. tenant'[t].status = "ACTIVE"
        BY <1>1, <4>1 DEF TenantRec
      <4> QED
        BY <3>2, <4>2 DEF ActivateTenant, Happens
    <3>3. CASE SuspendTenant(t)
      <4>1. tenant' = [tenant EXCEPT ![t] = [tenant[t] EXCEPT !.status = "SUSPENDED"]]
        BY <1>1, <3>3 DEF SuspendTenant
      <4>2. tenant'[t].status = "SUSPENDED"
        BY <1>1, <4>1 DEF TenantRec
      <4> QED
        BY <3>3, <4>2 DEF SuspendTenant
    <3> QED
      BY <1>2, <3>1, <3>2, <3>3
  <2> QED
    BY <2>1, <2>2, <2>3
<1>3. ASSUME NEW t \in Slugs, NEW f \in Emails, UpdateUser(t, f)
      PROVE  /\ UNCHANGED <<tenant, schema, accounts, seeded, request, scenario>>
             /\ \A s \in Slugs, e \in Emails : HasRow(s, e)' = HasRow(s, e)
             /\ Happens("user_edits")
  <2>1. PICK r \in Roles, on \in BOOLEAN :
          users' = [users EXCEPT ![t][f] = [role |-> r, active |-> on]]
    BY <1>3 DEF UpdateUser
  <2>2. \A s \in Slugs, e \in Emails :
           users'[s][e] = IF s = t /\ e = f THEN [role |-> r, active |-> on] ELSE users[s][e]
    BY <1>1, <2>1
  <2>3. r # "none" /\ users[t][f].role # "none"
    BY <1>3, <2>1 DEF UpdateUser, HasRow, Roles
  <2>4. \A s \in Slugs, e \in Emails : HasRow(s, e)' = HasRow(s, e)
    BY <2>2, <2>3 DEF HasRow
  <2> QED
    BY <1>3, <2>4 DEF UpdateUser, userRest, Happens
<1>4. ASSUME NEW t \in Slugs, NEW c \in Carriers, RemoveCarrier(t, c) \/ AssignCarrier(t, c)
      PROVE  UNCHANGED <<tenant, schema, users, accounts, seeded, request, scenario>>
  BY <1>4 DEF RemoveCarrier, AssignCarrier, linkRest, carrierRest
<1>5. ASSUME NEW c \in Carriers, CreateCarrier(c)
      PROVE  UNCHANGED <<tenant, schema, users, accounts, seeded, request, scenario>>
  BY <1>5 DEF CreateCarrier, linkRest, carrierRest
<1> QED
  BY <1>2, <1>3, <1>4, <1>5 DEF Calls, HasRow

-----------------------------------------------------------------------------
(* One request provisions a tenant, and the schema it made stays.          *)

(* The operation of a request goes with its program counter.               *)
OpsMatch ==
    \A q \in Requests :
        /\ request[q].pc \in {"insert_tenant", "schema", "migrate", "seed", "carriers", "finish",
                              "drop", "mark"} => request[q].op = "create_tenant"
        /\ request[q].pc \in {"check_row", "look_up", "insert_row"} => request[q].op = "create_user"
        /\ request[q].pc \in {"find_row", "disable", "deactivate"} => request[q].op = "delete_user"
        /\ request[q].pc \in {"post", "role"} => request[q].op \in {"create_tenant", "create_user"}
        /\ request[q].pc \in {"check_carrier", "insert_carrier", "link", "seed_carrier"} =>
              request[q].op \in {"add_carrier", "create_carrier"}
        /\ request[q].op = "create_tenant" => request[q].role = "TENANT_ADMIN"

(* The request whose INSERT of the tenant succeeded.                       *)
Provisioner(q) ==
    /\ request[q].op = "create_tenant"
    /\ request[q].pc \in {"schema", "migrate", "seed", "carriers", "post", "role", "finish", "drop",
                          "mark", "done"}

OneProvisioner ==
    /\ \A q \in Requests : Provisioner(q) => tenant[request[q].slug].status # "NONE"
    /\ \A p, q \in Requests :
          Provisioner(p) /\ Provisioner(q) /\ request[p].slug = request[q].slug => p = q

SeededFirst ==
    \A q \in Requests :
        /\ request[q].op = "create_tenant"
        /\ request[q].pc \in {"carriers", "post", "role", "finish", "done"}
        => schema[request[q].slug] = "seeded"

ProvisionIInv == TypeOK /\ OpsMatch /\ OneProvisioner /\ SeededFirst

LEMMA OpsStep ==
    ASSUME OpsMatch, NEW q \in Requests, Moves(q), SameRequest(q)
    PROVE  OpsMatch'
<1>1. \A p \in Requests : p # q => request'[p] = request[p]
  BY DEF SameRequest
<1>2. /\ request'[q].pc \in {"insert_tenant", "schema", "migrate", "seed", "carriers", "finish",
                              "drop", "mark"} => request[q].op = "create_tenant"
      /\ request'[q].pc \in {"check_row", "look_up", "insert_row"} => request[q].op = "create_user"
      /\ request'[q].pc \in {"find_row", "disable", "deactivate"} => request[q].op = "delete_user"
      /\ request'[q].pc \in {"post", "role"} => request[q].op \in {"create_tenant", "create_user"}
      /\ request'[q].pc \in {"check_carrier", "insert_carrier", "link", "seed_carrier"} =>
              request[q].op \in {"add_carrier", "create_carrier"}
  BY DEF OpsMatch, Moves, ProvisionMoves, UserMoves, CarrierMoves, Passes, Undone
<1> QED
  BY <1>1, <1>2 DEF OpsMatch, SameRequest

LEMMA OneStep ==
    ASSUME TypeOK, OpsMatch, OneProvisioner, NEW q \in Requests, Steps(q) \/ ServerStops(q)
    PROVE  OneProvisioner'
<1>1. Moves(q) /\ SameRequest(q)
  BY StepMoves
<1>2. \A p \in Requests : p # q => (Provisioner(p)' <=> Provisioner(p))
  BY <1>1 DEF SameRequest, Provisioner
<1>3. \A p \in Requests : request'[p].slug = request[p].slug /\ request[p].slug \in Slugs
  BY <1>1, RequestTypes DEF SameRequest
<1>4. \A s \in Slugs : tenant[s].status # "NONE" => tenant'[s].status # "NONE"
  BY TenantAfter
<1>5. Provisioner(q)' /\ ~Provisioner(q) =>
        /\ tenant[request[q].slug].status = "NONE"
        /\ tenant'[request[q].slug].status # "NONE"
  <2>1. SUFFICES ASSUME Provisioner(q)', ~Provisioner(q)
                 PROVE  /\ tenant[request[q].slug].status = "NONE"
                        /\ tenant'[request[q].slug].status # "NONE"
    OBVIOUS
  <2>2. InsertTenant(q) /\ request'[q].pc = "schema"
    BY <1>1, <2>1
    DEF Moves, ProvisionMoves, UserMoves, CarrierMoves, Passes, Provisioner, SameRequest, OpsMatch
  <2>3. tenant[request[q].slug].status = "NONE"
    <3>1. "refused" \in RequestPC
      BY DEF RequestPC
    <3> QED
      BY <2>2, <3>1, GoesFacts DEF InsertTenant
  <2>4. tenant' = [tenant EXCEPT ![request[q].slug] =
                      [tenant[request[q].slug] EXCEPT !.status = "PROVISIONING"]]
    BY <2>2, <2>3, <1>3 DEF InsertTenant, TypeOK
  <2>5. tenant'[request[q].slug].status = "PROVISIONING"
    BY <1>3, <2>4 DEF TypeOK, TenantRec
  <2> QED
    BY <2>3, <2>5
<1> QED
  BY <1>2, <1>3, <1>4, <1>5 DEF OneProvisioner

LEMMA SeededStep ==
    ASSUME TypeOK, OpsMatch, OneProvisioner, SeededFirst,
           NEW q \in Requests, Steps(q) \/ ServerStops(q)
    PROVE  SeededFirst'
<1> SUFFICES ASSUME NEW p \in Requests, request'[p].op = "create_tenant",
                    request'[p].pc \in {"carriers", "post", "role", "finish", "done"}
             PROVE  schema'[request'[p].slug] = "seeded"
  BY DEF SeededFirst
<1>1. Moves(q) /\ SameRequest(q)
  BY StepMoves
<1>2. /\ request'[p].slug = request[p].slug /\ request'[p].op = request[p].op
      /\ request[p].slug \in Slugs
  BY <1>1, RequestTypes DEF SameRequest
<1>3. CreateSchema(q) \/ Migrate(q) \/ Seed(q) \/ DropSchema(q) =>
        /\ Provisioner(q) /\ request[q].pc \in {"schema", "migrate", "seed", "drop"}
  BY DEF OpsMatch, CreateSchema, Migrate, Seed, DropSchema, Provisioner
<1>4. CASE p # q
  <2>1. request'[p] = request[p] /\ Provisioner(p) /\ schema[request[p].slug] = "seeded"
    BY <1>1, <1>4 DEF SameRequest, Provisioner, SeededFirst
  <2>2. request[p].slug # request[q].slug \/ ~Provisioner(q)
    BY <1>4, <2>1 DEF OneProvisioner
  <2> QED
    BY <1>2, <1>3, <2>1, <2>2, SchemaAfter
<1>5. CASE p = q
  <2>1. CASE Seed(q)
    <3>1. request'[q].pc = "carriers" /\ request[q].pc = "seed"
      BY <1>1, <1>5, <2>1 DEF Moves, ProvisionMoves, UserMoves, CarrierMoves, Passes, Undone, Seed
    <3>2. "drop" \in RequestPC /\ "failed" \in RequestPC
      BY DEF RequestPC
    <3>3. request[q].slug \notin Hyphenated
      BY <2>1, <3>1, <3>2, GoesFacts DEF Seed, Raises
    <3>4. schema' = [schema EXCEPT ![request[q].slug] = "seeded"]
      BY <2>1, <3>3 DEF Seed
    <3> QED
      BY <1>2, <1>5, <3>4 DEF TypeOK
  <2>2. CASE ~Seed(q)
    <3>1. /\ request[q].pc \in {"carriers", "post", "role", "finish", "done"}
          /\ ~(CreateSchema(q) \/ Migrate(q) \/ DropSchema(q))
      BY <1>1, <1>2, <1>5, <2>2
      DEF Moves, ProvisionMoves, UserMoves, CarrierMoves, Passes, Undone, OpsMatch, CreateSchema,
          Migrate, DropSchema
    <3> QED
      BY <1>2, <1>5, <2>2, <3>1, SchemaAfter DEF SeededFirst
  <2> QED
    BY <2>1, <2>2
<1> QED
  BY <1>4, <1>5

LEMMA ProvisionInit == PlatformInit => ProvisionIInv
<1> SUFFICES ASSUME PlatformInit PROVE ProvisionIInv
  OBVIOUS
<1>1. \A q \in Requests :
        request[q].pc = "new" /\ request[q].op = "create_tenant" /\ request[q].role = "TENANT_ADMIN"
  BY DEF PlatformInit, Unasked
<1> QED
  BY <1>1, InitTyped DEF ProvisionIInv, OpsMatch, OneProvisioner, SeededFirst, Provisioner

LEMMA ProvisionInductive == ProvisionIInv /\ [Next]_platformVars => ProvisionIInv'
<1> SUFFICES ASSUME ProvisionIInv, [Next]_platformVars PROVE ProvisionIInv'
  OBVIOUS
<1> USE DEF ProvisionIInv
<1>1. TypeOK'
  BY TypeInductive
<1>2. ASSUME NEW q \in Requests, Steps(q) \/ ServerStops(q)
      PROVE  OpsMatch' /\ OneProvisioner' /\ SeededFirst'
  BY <1>2, StepMoves, OpsStep, OneStep, SeededStep
<1>3. ASSUME NEW q \in Requests, Asks(q)
      PROVE  OpsMatch' /\ OneProvisioner' /\ SeededFirst'
  <2>1. Asked(q) /\ UNCHANGED <<tenant, schema>>
    BY <1>3, AskMoves
  <2>2. OpsMatch'
    BY <2>1 DEF Asked, OpsMatch
  <2>3. \A p \in Requests : Provisioner(p)' => Provisioner(p) /\ request'[p] = request[p]
    BY <2>1 DEF Asked, Provisioner
  <2>4. OneProvisioner'
    BY <2>1, <2>3 DEF OneProvisioner
  <2>5. SeededFirst'
    BY <2>1 DEF Asked, SeededFirst
  <2> QED
    BY <2>2, <2>4, <2>5
<1>4. CASE Calls
  <2>1. UNCHANGED <<schema, request>>
        /\ \A s \in Slugs : tenant[s].status # "NONE" => tenant'[s].status # "NONE"
    BY <1>4, CallsAfter
  <2>2. OpsMatch' /\ SeededFirst'
    BY <2>1 DEF OpsMatch, SeededFirst
  <2>3. OneProvisioner'
    BY <2>1, RequestTypes DEF OneProvisioner, Provisioner
  <2> QED
    BY <1>1, <2>2, <2>3
<1>5. CASE UNCHANGED platformVars
  BY <1>5 DEF platformVars, TypeOK, OpsMatch, OneProvisioner, SeededFirst, Provisioner
<1> QED
  BY <1>1, <1>2, <1>3, <1>4, <1>5, NextCases

LEMMA ProvisionInvariant == Spec => []ProvisionIInv
<1>1. PlatformInit => ProvisionIInv
  BY ProvisionInit
<1>2. ProvisionIInv /\ [Next]_platformVars => ProvisionIInv'
  BY ProvisionInductive
<1> QED
  BY <1>1, <1>2, PTL DEF Spec

(* The schema of a tenant whose creation was answered stays, seeded:       *)
(* delete_tenant keeps it, and a request that provision_tenant undoes has  *)
(* begun a tenant of its own, since the slug is the key of public.tenants. *)
THEOREM SchemaOutlivesTenant == Spec => []SchemaSurvives
<1>1. ProvisionIInv => SchemaSurvives
  BY DEF ProvisionIInv, SeededFirst, SchemaSurvives
<1> QED
  BY <1>1, ProvisionInvariant, PTL

-----------------------------------------------------------------------------
(* Database and identity provider.                                         *)

(* A request that created an account and has not inserted its row yet is   *)
(* the only one that holds it, and the e-mail has no row anywhere.         *)
Holding == {"role", "finish", "insert_row"}

AccountHeld ==
    \A q \in Requests : request[q].pc \in Holding =>
        /\ accounts[request[q].email].slug = request[q].slug
        /\ request[q].pc # "role" => accounts[request[q].email].role = request[q].role
        /\ \A s \in Slugs : ~HasRow(s, request[q].email)
        /\ \A p \in Requests : request[p].pc \in Holding /\ request[p].email = request[q].email => p = q

(* delete_tenant_user disables an account that exists before it touches    *)
(* the row.                                                                *)
Disabling ==
    \A q \in Requests : request[q].pc \in {"disable", "deactivate"} =>
        /\ HasAccount(request[q].email)
        /\ request[q].pc = "deactivate" => ~accounts[request[q].email].enabled

AccountIInv == ProvisionIInv /\ AccountHeld /\ Disabling /\ RowsMatchAccounts

(* An account is never taken over or enabled again, and its role changes   *)
(* at the hand of the request that created it.                             *)
LEMMA AccountStays ==
    ASSUME TypeOK, NEW q \in Requests, Steps(q) \/ ServerStops(q), NEW e \in Emails, HasAccount(e)
    PROVE  /\ accounts'[e].slug = accounts[e].slug
           /\ ~accounts[e].enabled => ~accounts'[e].enabled
           /\ accounts'[e].role = accounts[e].role \/ (GrantRole(q) /\ e = request[q].email)
BY AccountsAfter

LEMMA HolderHasAccount ==
    ASSUME TypeOK, AccountHeld, NEW q \in Requests, request[q].pc \in Holding
    PROVE  HasAccount(request[q].email)
BY RequestTypes, PlatformAssumption DEF AccountHeld, HasAccount, PlatformAssumption

LEMMA RowHasAccount ==
    ASSUME RowsMatchAccounts, NEW s \in Slugs, NEW e \in Emails, HasRow(s, e)
    PROVE  HasAccount(e)
BY PlatformAssumption DEF RowsMatchAccounts, HasAccount, PlatformAssumption

(* A request takes hold of an account by creating it.                      *)
LEMMA Holders ==
    ASSUME AccountIInv, NEW q \in Requests, Steps(q) \/ ServerStops(q), request'[q].pc \in Holding
    PROVE  \/ /\ PostAccount(q) /\ request'[q].pc = "role" /\ ~HasAccount(request[q].email)
              /\ accounts'[request[q].email].slug = request[q].slug
           \/ GrantRole(q) /\ request[q].pc = "role"
<1>1. Moves(q) /\ TypeOK
  BY StepMoves DEF AccountIInv, ProvisionIInv
<1>2. CASE PostAccount(q) /\ request'[q].pc = "role"
  <2>1. "drop" \in RequestPC /\ "failed" \in RequestPC
    BY DEF RequestPC
  <2>2. ~HasAccount(request[q].email)
    BY <1>1, <1>2, <2>1, GoesFacts DEF PostAccount, Raises
  <2>3. accounts' = [accounts EXCEPT ![request[q].email] =
                        [slug |-> request[q].slug, role |-> "none", enabled |-> TRUE]]
    BY <1>2, <2>2 DEF PostAccount
  <2>4. accounts'[request[q].email].slug = request[q].slug
    BY <1>1, <2>3, RequestTypes DEF TypeOK
  <2> QED
    BY <1>2, <2>2, <2>4
<1> QED
  BY <1>1, <1>2 DEF Moves, ProvisionMoves, UserMoves, CarrierMoves, Passes, Undone, Holding

LEMMA HeldStep ==
    ASSUME AccountIInv, NEW q \in Requests, Steps(q) \/ ServerStops(q)
    PROVE  AccountHeld'
<1>1. TypeOK /\ Moves(q) /\ SameRequest(q) /\ AccountHeld /\ RowsMatchAccounts /\ OpsMatch
  BY StepMoves DEF AccountIInv, ProvisionIInv
<1>2. \A p \in Requests :
        /\ request'[p].slug = request[p].slug /\ request'[p].email = request[p].email
        /\ request'[p].role = request[p].role
        /\ request[p].slug \in Slugs /\ request[p].email \in Emails
        /\ p # q => request'[p] = request[p]
  BY <1>1, RequestTypes DEF SameRequest
<1>3. \A p, r \in Requests :
        request'[p].pc \in Holding /\ request'[r].pc \in Holding /\ request[p].email = request[r].email
          => p = r
  <2>1. SUFFICES ASSUME NEW p \in Requests, p # q, request[p].pc \in Holding,
                        request'[q].pc \in Holding, request[p].email = request[q].email
                 PROVE  FALSE
    BY <1>1, <1>2 DEF AccountHeld
  <2>2. CASE request[q].pc = "role"
    BY <1>1, <2>1, <2>2 DEF AccountHeld, Holding
  <2>3. CASE ~HasAccount(request[q].email)
    BY <1>1, <2>1, <2>3, HolderHasAccount
  <2> QED
    BY <2>1, <2>2, <2>3, Holders
<1>4. ASSUME NEW p \in Requests, request'[p].pc \in Holding
      PROVE  accounts'[request[p].email].slug = request[p].slug
  <2>1. CASE request[p].pc \in Holding
    BY <1>1, <1>2, <2>1, HolderHasAccount, AccountStays DEF AccountHeld
  <2>2. CASE request[p].pc \notin Holding
    <3>1. p = q
      BY <1>2, <1>4, <2>2
    <3> QED
      BY <1>4, <2>2, <3>1, Holders DEF Holding
  <2> QED
    BY <2>1, <2>2
<1>5. ASSUME NEW p \in Requests, request'[p].pc \in Holding, request'[p].pc # "role"
      PROVE  accounts'[request[p].email].role = request[p].role
  <2>1. CASE p = q
    <3>1. GrantRole(q)
      BY <1>5, <2>1, Holders
    <3>2. accounts' = [accounts EXCEPT ![request[q].email] =
                          [accounts[request[q].email] EXCEPT !.role = request[q].role]]
      BY <1>1, <1>2, <3>1 DEF GrantRole, TypeOK
    <3>3. accounts'[request[q].email].role = request[q].role
      BY <1>1, <1>2, <3>2 DEF TypeOK, AccountRec
    <3> QED
      BY <2>1, <3>3
  <2>2. CASE p # q
    <3>1. request[p].pc \in Holding /\ request[p].pc # "role"
      BY <1>2, <1>5, <2>2
    <3>2. ~(GrantRole(q) /\ request[p].email = request[q].email)
      <4>1. SUFFICES ASSUME GrantRole(q), request[p].email = request[q].email PROVE FALSE
        OBVIOUS
      <4>2. request[q].pc \in Holding
        BY <4>1 DEF GrantRole, Holding
      <4> QED
        BY <1>1, <2>2, <3>1, <4>1, <4>2 DEF AccountHeld
    <3>3. accounts'[request[p].email].role = accounts[request[p].email].role
      BY <1>1, <1>2, <3>1, <3>2, HolderHasAccount, AccountStays
    <3> QED
      BY <1>1, <3>1, <3>3 DEF AccountHeld
  <2> QED
    BY <2>1, <2>2
<1>6. ASSUME NEW p \in Requests, request'[p].pc \in Holding, NEW s \in Slugs
      PROVE  users'[s][request[p].email].role = "none"
  <2>1. users[s][request[p].email].role = "none"
    <3>1. CASE request[p].pc \in Holding
      BY <1>1, <3>1 DEF AccountHeld, HasRow
    <3>2. CASE request[p].pc \notin Holding
      <4>1. p = q
        BY <1>2, <1>6, <3>2
      <4>2. ~HasAccount(request[q].email)
        BY <1>6, <3>2, <4>1, Holders DEF Holding
      <4> QED
        BY <1>1, <1>2, <4>1, <4>2, RowHasAccount DEF HasRow
    <3> QED
      BY <3>1, <3>2
  <2>2. ~((Finish(q) \/ InsertRow(q)) /\ request[p].email = request[q].email)
    <3>1. SUFFICES ASSUME Finish(q) \/ InsertRow(q), request[p].email = request[q].email PROVE FALSE
      OBVIOUS
    <3>2. request[q].pc \in Holding /\ request[q].pc # "role"
      BY <3>1 DEF Finish, InsertRow, Holding
    <3>3. p # q
      BY <1>1, <1>6, <3>1, <3>2, Holders DEF PostAccount, Holding, Finish, InsertRow
    <3>4. request[p].pc \in Holding
      BY <1>2, <1>6, <3>3
    <3> QED
      BY <1>1, <3>1, <3>2, <3>3, <3>4 DEF AccountHeld
  <2> QED
    <3>1. request[p].email \in Emails /\ TypeOK
      BY <1>1, <1>2
    <3>2. PICK e \in Emails : e = request[p].email
      BY <3>1
    <3>3. \/ users'[s][e].role = users[s][e].role \/ users'[s][e].role = "none"
          \/ e = request[q].email /\ (Finish(q) \/ InsertRow(q))
      BY <3>1, RowsAfter
    <3> QED
      BY <2>1, <2>2, <3>2, <3>3
<1> QED
  BY <1>2, <1>3, <1>4, <1>5, <1>6 DEF AccountHeld, HasRow

LEMMA DisablingStep ==
    ASSUME AccountIInv, NEW q \in Requests, Steps(q) \/ ServerStops(q)
    PROVE  Disabling'
<1> SUFFICES ASSUME NEW p \in Requests, request'[p].pc \in {"disable", "deactivate"}
             PROVE  /\ accounts'[request[p].email].slug # NoSlug
                    /\ request'[p].pc = "deactivate" => ~accounts'[request[p].email].enabled
  BY StepMoves DEF Disabling, HasAccount, SameRequest, AccountIInv, ProvisionIInv
<1>1. TypeOK /\ Moves(q) /\ SameRequest(q) /\ Disabling /\ RowsMatchAccounts
  BY StepMoves DEF AccountIInv, ProvisionIInv
<1>2. request[p].slug \in Slugs /\ request[p].email \in Emails
  BY <1>1, RequestTypes
<1>3. CASE p # q
  <2>1. request'[p] = request[p]
    BY <1>1, <1>3 DEF SameRequest
  <2> QED
    BY <1>1, <1>2, <2>1, AccountStays DEF Disabling, HasAccount
<1>4. CASE p = q
  <2>1. \/ FindRow(q) /\ request'[q].pc = "disable"
        \/ Disable(q) /\ request[q].pc = "disable"
    BY <1>1, <1>4 DEF Moves, ProvisionMoves, UserMoves, CarrierMoves, Passes, Undone
  <2>2. CASE FindRow(q) /\ request'[q].pc = "disable"
    <3>1. "failed" \in RequestPC /\ "refused" \in RequestPC /\ UNCHANGED accounts
      BY <2>2 DEF RequestPC, FindRow
    <3>2. HasRow(request[q].slug, request[q].email)
      BY <1>1, <2>2, <3>1, GoesFacts DEF FindRow
    <3>3. HasAccount(request[q].email)
      BY <1>1, <1>2, <1>4, <3>2, RowHasAccount
    <3> QED
      BY <1>4, <2>2, <3>1, <3>3 DEF HasAccount
  <2>3. CASE Disable(q) /\ request[q].pc = "disable"
    <3>1. accounts' = [accounts EXCEPT ![request[q].email] =
                          [accounts[request[q].email] EXCEPT !.enabled = FALSE]]
      BY <1>1, <1>2, <1>4, <2>3 DEF Disable, TypeOK
    <3>2. accounts'[request[q].email].enabled = FALSE
      BY <1>1, <1>2, <1>4, <3>1 DEF TypeOK, AccountRec
    <3>3. accounts'[request[q].email].slug # NoSlug
      BY <1>1, <1>2, <1>4, <2>3, AccountStays DEF Disabling, HasAccount
    <3> QED
      BY <1>4, <3>2, <3>3
  <2> QED
    BY <2>1, <2>2, <2>3
<1> QED
  BY <1>3, <1>4

LEMMA RowsMatchStep ==
    ASSUME AccountIInv, NEW q \in Requests, Steps(q) \/ ServerStops(q)
    PROVE  RowsMatchAccounts'
<1>1. /\ TypeOK /\ OpsMatch /\ AccountHeld /\ Disabling /\ RowsMatchAccounts
      /\ UNCHANGED scenario
  BY CarriersChange DEF AccountIInv, ProvisionIInv
<1> SUFFICES ASSUME NEW s \in Slugs, NEW e \in Emails, users'[s][e].role # "none"
             PROVE  /\ accounts'[e].slug = s
                    /\ ~Happens("user_edits") =>
                          /\ accounts'[e].role = users'[s][e].role
                          /\ ~users'[s][e].active => ~accounts'[e].enabled
  BY <1>1 DEF RowsMatchAccounts, HasRow, Happens
<1>2. request[q].slug \in Slugs /\ request[q].email \in Emails
  BY <1>1, RequestTypes
<1>3. CASE users'[s][e] = users[s][e]
  <2>1. HasRow(s, e) /\ HasAccount(e)
    BY <1>1, <1>3, RowHasAccount DEF HasRow
  <2>2. ~(GrantRole(q) /\ e = request[q].email)
    BY <1>1, <2>1 DEF GrantRole, AccountHeld, Holding
  <2>3. /\ accounts'[e].slug = accounts[e].slug /\ accounts'[e].role = accounts[e].role
        /\ ~accounts[e].enabled => ~accounts'[e].enabled
    BY <1>1, <2>1, <2>2, AccountStays
  <2> QED
    BY <1>1, <1>3, <2>1, <2>3 DEF RowsMatchAccounts
<1>4. CASE /\ s = request[q].slug /\ e = request[q].email /\ Finish(q)
           /\ users'[s][e] = [role |-> "TENANT_ADMIN", active |-> TRUE]
  <2>1. request[q].pc = "finish" /\ UNCHANGED accounts /\ request[q].role = "TENANT_ADMIN"
    BY <1>1, <1>4 DEF Finish, OpsMatch
  <2> QED
    BY <1>1, <1>4, <2>1 DEF AccountHeld, Holding
<1>5. CASE /\ s = request[q].slug /\ e = request[q].email /\ InsertRow(q)
           /\ users'[s][e] = [role |-> request[q].role, active |-> TRUE]
  <2>1. request[q].pc = "insert_row" /\ UNCHANGED accounts
    BY <1>5 DEF InsertRow
  <2> QED
    BY <1>1, <1>5, <2>1 DEF AccountHeld, Holding
<1>6. CASE /\ s = request[q].slug /\ e = request[q].email /\ Deactivate(q)
           /\ users'[s][e].role = users[s][e].role
  <2>1. request[q].pc = "deactivate" /\ UNCHANGED accounts /\ HasRow(s, e)
    BY <1>6 DEF Deactivate, HasRow
  <2> QED
    BY <1>1, <1>6, <2>1 DEF Disabling, RowsMatchAccounts
<1> QED
  BY <1>1, <1>3, <1>4, <1>5, <1>6, UsersAfter

LEMMA AccountInit == PlatformInit => AccountIInv
<1> SUFFICES ASSUME PlatformInit PROVE AccountIInv
  OBVIOUS
<1>1. \A q \in Requests : request[q].pc = "new"
  BY DEF PlatformInit, Unasked
<1>2. \A s \in Slugs, e \in Emails : users[s][e].role = "none"
  BY DEF PlatformInit, NoRow
<1> QED
  BY <1>1, <1>2, ProvisionInit
  DEF AccountIInv, AccountHeld, Disabling, RowsMatchAccounts, HasRow, Holding

LEMMA AccountInductive == AccountIInv /\ [Next]_platformVars => AccountIInv'
<1> SUFFICES ASSUME AccountIInv, [Next]_platformVars PROVE AccountIInv'
  OBVIOUS
<1>1. ProvisionIInv' /\ TypeOK
  BY ProvisionInductive DEF AccountIInv, ProvisionIInv
<1>2. AccountHeld /\ Disabling /\ RowsMatchAccounts
  BY DEF AccountIInv
<1>3. ASSUME NEW q \in Requests, Steps(q) \/ ServerStops(q)
      PROVE  AccountHeld' /\ Disabling' /\ RowsMatchAccounts'
  BY <1>3, HeldStep, DisablingStep, RowsMatchStep
<1>4. ASSUME NEW q \in Requests, Asks(q)
      PROVE  AccountHeld' /\ Disabling' /\ RowsMatchAccounts'
  <2>1. Asked(q) /\ UNCHANGED <<users, accounts, scenario>>
    BY <1>1, <1>4, AskMoves
  <2>2. \A p \in Requests : request'[p].pc \in Holding \cup {"disable", "deactivate"} =>
                               request'[p] = request[p]
    BY <2>1 DEF Asked, Holding
  <2>3. AccountHeld'
    BY <1>2, <2>1, <2>2 DEF AccountHeld, HasRow
  <2>4. Disabling' /\ RowsMatchAccounts'
    BY <1>2, <2>1, <2>2 DEF Disabling, HasAccount, RowsMatchAccounts, HasRow, Happens
  <2> QED
    BY <2>3, <2>4
<1>5. CASE Calls
  <2>1. /\ UNCHANGED <<accounts, request, scenario>> /\ (UNCHANGED users \/ Happens("user_edits"))
        /\ \A s \in Slugs, e \in Emails : HasRow(s, e)' = HasRow(s, e)
    BY <1>1, <1>5, CallsAfter
  <2>2. AccountHeld'
    BY <1>1, <1>2, <2>1, RequestTypes DEF AccountHeld
  <2>3. Disabling' /\ RowsMatchAccounts'
    BY <1>2, <2>1 DEF Disabling, HasAccount, RowsMatchAccounts, Happens
  <2> QED
    BY <1>1, <2>2, <2>3 DEF AccountIInv
<1>6. CASE UNCHANGED platformVars
  BY <1>1, <1>2, <1>6
  DEF AccountIInv, platformVars, AccountHeld, Disabling, RowsMatchAccounts, HasRow, HasAccount, Happens
<1> QED
  BY <1>1, <1>3, <1>4, <1>5, <1>6, NextCases DEF AccountIInv

LEMMA AccountInvariant == Spec => []AccountIInv
<1>1. PlatformInit => AccountIInv
  BY AccountInit
<1>2. AccountIInv /\ [Next]_platformVars => AccountIInv'
  BY AccountInductive
<1> QED
  BY <1>1, <1>2, PTL DEF Spec

(* Whichever call failed in between, a row of a users table has an account *)
(* of that tenant, with its role unless the row was edited alone, and a    *)
(* user whose row is inactive cannot log in.                               *)
THEOREM DatabaseMatchesProvider == Spec => []RowsMatchAccounts
<1>1. AccountIInv => RowsMatchAccounts
  BY DEF AccountIInv
<1> QED
  BY <1>1, AccountInvariant, PTL

-----------------------------------------------------------------------------
(* A tenant that is active was provisioned to the end.                     *)

Answered(s) ==
    \E q \in Requests : /\ request[q].pc = "done" /\ request[q].op = "create_tenant"
                        /\ request[q].slug = s

AdminKept ==
    \A q \in Requests : request[q].pc = "done" /\ request[q].op = "create_tenant" =>
        HasRow(request[q].slug, request[q].email)

(* Unless a tenant is activated while it is provisioned, it resolves only  *)
(* after its creation was answered, so its users and carriers come later.  *)
AnsweredFirst ==
    /\ \A s \in Slugs : tenant[s].status \in {"ACTIVE", "SUSPENDED"} => Answered(s)
    /\ \A q \in Requests : request[q].op # "create_tenant" => Answered(request[q].slug)
    /\ \A s \in Slugs, e \in Emails : HasRow(s, e) => Answered(s)

AfterAnswer == ~Happens("early_activation") => AnsweredFirst

PlatformIInv == AccountIInv /\ AdminKept /\ AfterAnswer /\ AddedIsSeeded /\ NoOrphanAccounts

LEMMA AnswerStays ==
    ASSUME ProvisionIInv, NEW q \in Requests, Steps(q) \/ ServerStops(q), NEW s \in Slugs, Answered(s)
    PROVE  Answered(s)'
<1>1. Moves(q) /\ SameRequest(q)
  BY StepMoves DEF ProvisionIInv
<1>2. request[q].pc # "done"
  BY <1>1 DEF Moves, ProvisionMoves, UserMoves, CarrierMoves, Passes
<1> QED
  BY <1>1, <1>2 DEF Answered, SameRequest

(* The schema of a tenant that was answered is not dropped.                *)
LEMMA AnsweredKeepsSchema ==
    ASSUME ProvisionIInv, NEW q \in Requests, DropSchema(q)
    PROVE  ~Answered(request[q].slug)
<1>1. request[q].pc = "drop" /\ Provisioner(q)
  BY DEF DropSchema, ProvisionIInv, OpsMatch, Provisioner
<1> QED
  BY <1>1 DEF ProvisionIInv, OneProvisioner, Answered, Provisioner

LEMMA RowStays ==
    ASSUME ProvisionIInv, NEW q \in Requests, Steps(q) \/ ServerStops(q),
           NEW s \in Slugs, NEW e \in Emails, HasRow(s, e)
    PROVE  HasRow(s, e)' \/ (s = request[q].slug /\ DropSchema(q))
<1>1. TypeOK /\ request[q].role # "none"
  BY RequestTypes DEF ProvisionIInv, Roles
<1>2. CASE users'[s][e].role = users[s][e].role
  BY <1>2 DEF HasRow
<1>3. CASE users'[s][e] \in {[role |-> "TENANT_ADMIN", active |-> TRUE],
                            [role |-> request[q].role, active |-> TRUE]}
  BY <1>1, <1>3 DEF HasRow
<1> QED
  BY <1>1, <1>2, <1>3, UsersAfter

LEMMA FinishedRow ==
    ASSUME TypeOK, NEW q \in Requests, Finish(q)
    PROVE  HasRow(request[q].slug, request[q].email)'
<1>1. request[q].slug \in Slugs /\ request[q].email \in Emails /\ users \in [Slugs -> [Emails -> UserRec]]
  BY RequestTypes DEF TypeOK
<1>2. users' = [users EXCEPT ![request[q].slug][request[q].email] = [role |-> "TENANT_ADMIN", active |-> TRUE]]
  BY DEF Finish
<1>3. users'[request[q].slug][request[q].email] = [role |-> "TENANT_ADMIN", active |-> TRUE]
  BY <1>1, <1>2
<1>4. /\ request'[q].slug = request[q].slug /\ request'[q].email = request[q].email
  BY StepMoves DEF SameRequest, Steps, ProvisionStep
<1> QED
  BY <1>3, <1>4 DEF HasRow

(* A request that is done just now.                                        *)
LEMMA DoneBy ==
    ASSUME ProvisionIInv, NEW q \in Requests, Steps(q) \/ ServerStops(q), request'[q].pc = "done"
    PROVE  \/ Finish(q) /\ request[q].op = "create_tenant"
           \/ (InsertRow(q) \/ Deactivate(q)) /\ request[q].op \in {"create_user", "delete_user"}
           \/ SeedCarrier(q) /\ request[q].op \in {"add_carrier", "create_carrier"}
<1>1. Moves(q) /\ OpsMatch
  BY StepMoves DEF ProvisionIInv
<1> QED
  BY <1>1 DEF Moves, ProvisionMoves, UserMoves, CarrierMoves, Passes, Undone, OpsMatch

LEMMA AdminStep ==
    ASSUME PlatformIInv, NEW q \in Requests, Steps(q) \/ ServerStops(q)
    PROVE  AdminKept'
<1>1. ProvisionIInv /\ TypeOK /\ SameRequest(q) /\ AdminKept
  BY StepMoves DEF PlatformIInv, AccountIInv, ProvisionIInv
<1> SUFFICES ASSUME NEW p \in Requests, request'[p].pc = "done", request'[p].op = "create_tenant"
             PROVE  HasRow(request[p].slug, request[p].email)'
  BY <1>1 DEF AdminKept, SameRequest, HasRow
<1>2. request[p].slug \in Slugs /\ request[p].email \in Emails
      /\ request'[p].op = request[p].op
  BY <1>1, RequestTypes DEF SameRequest
<1>3. CASE p = q
  BY <1>1, <1>2, <1>3, DoneBy, FinishedRow
<1>4. CASE p # q
  <2>1. PICK s \in Slugs, e \in Emails : s = request[p].slug /\ e = request[p].email
    BY <1>2
  <2>2. request'[p] = request[p]
    BY <1>1, <1>4 DEF SameRequest
  <2>3. HasRow(s, e) /\ Answered(s)
    BY <1>1, <2>1, <2>2 DEF AdminKept, Answered
  <2>4. HasRow(s, e)'
    BY <1>1, <2>3, RowStays, AnsweredKeepsSchema
  <2> QED
    BY <2>1, <2>2, <2>4 DEF HasRow
<1> QED
  BY <1>3, <1>4

LEMMA AnsweredStep ==
    ASSUME ProvisionIInv, AnsweredFirst, NEW q \in Requests, Steps(q) \/ ServerStops(q)
    PROVE  AnsweredFirst'
<1>1. TypeOK /\ OpsMatch /\ SameRequest(q) /\ Moves(q)
  BY StepMoves DEF ProvisionIInv
<1>2. \A s \in Slugs : Answered(s) => Answered(s)'
  BY AnswerStays
<1>3. Finish(q) => Answered(request[q].slug)'
  <2>1. Finish(q) => request'[q].pc = "done" /\ request[q].op = "create_tenant"
    BY <1>1, GoesFacts DEF Finish, OpsMatch, RequestPC
  <2> QED
    BY <1>1, <2>1 DEF Answered, SameRequest
<1>4. ASSUME NEW s \in Slugs, tenant'[s].status \in {"ACTIVE", "SUSPENDED"}
      PROVE  Answered(s)'
  <2>1. CASE tenant'[s] = tenant[s]
    BY <1>2, <1>4, <2>1 DEF AnsweredFirst
  <2>2. CASE s = request[q].slug /\ Finish(q)
    BY <1>1, <1>3, <2>2 DEF SameRequest, Answered
  <2> QED
    BY <1>1, <1>4, <2>1, <2>2, TenantAfter
<1>5. ASSUME NEW p \in Requests, request'[p].op # "create_tenant"
      PROVE  Answered(request[p].slug)'
  <2>1. request[p].op # "create_tenant" /\ request'[p].slug = request[p].slug
    BY <1>1, <1>5 DEF SameRequest
  <2>2. PICK s \in Slugs : s = request[p].slug
    BY <1>1, RequestTypes
  <2> QED
    BY <1>2, <2>1, <2>2 DEF AnsweredFirst, Answered
<1>6. ASSUME NEW s \in Slugs, NEW e \in Emails, users'[s][e].role # "none"
      PROVE  Answered(s)'
  <2>1. CASE users[s][e].role # "none"
    BY <1>2, <2>1 DEF AnsweredFirst, HasRow
  <2>2. CASE users[s][e].role = "none"
    <3>1. s = request[q].slug /\ (Finish(q) \/ InsertRow(q))
      BY <1>1, <1>6, <2>2, UsersAfter
    <3>2. CASE Finish(q)
      BY <1>1, <1>3, <3>1, <3>2 DEF SameRequest, Answered
    <3>3. CASE InsertRow(q)
      <4>1. request[q].op = "create_user"
        BY <1>1, <3>3 DEF InsertRow, OpsMatch
      <4> QED
        BY <1>2, <3>1, <4>1 DEF AnsweredFirst
    <3> QED
      BY <3>1, <3>2, <3>3
  <2> QED
    BY <2>1, <2>2
<1> QED
  BY <1>1, <1>4, <1>5, <1>6 DEF AnsweredFirst, HasRow, Answered, SameRequest

LEMMA AddedStep ==
    ASSUME PlatformIInv, NEW q \in Requests, Steps(q) \/ ServerStops(q)
    PROVE  AddedIsSeeded'
<1>1. ProvisionIInv /\ TypeOK /\ SameRequest(q) /\ AddedIsSeeded /\ AfterAnswer /\ UNCHANGED scenario
  BY StepMoves, CarriersChange DEF PlatformIInv, AccountIInv, ProvisionIInv
<1> SUFFICES ASSUME ~Happens("early_activation"), NEW p \in Requests, request'[p].pc = "done",
                    request'[p].op \in {"add_carrier", "create_carrier"}
             PROVE  request[p].carrier \in seeded'[request[p].slug]
  BY <1>1 DEF AddedIsSeeded, SameRequest, Happens
<1>2. request[p].slug \in Slugs /\ request[p].carrier \in Carriers /\ request'[p].op = request[p].op
  BY <1>1, RequestTypes DEF SameRequest
<1>3. CASE p = q
  <2>1. SeedCarrier(q)
    BY <1>1, <1>2, <1>3, DoneBy
  <2>2. HasTables(request[q].slug)
    <3>1. "failed" \in RequestPC
      BY DEF RequestPC
    <3> QED
      BY <1>1, <1>3, <2>1, <3>1, GoesFacts DEF SeedCarrier
  <2> QED
    BY <1>1, <1>2, <1>3, <2>1, <2>2 DEF SeedCarrier, TypeOK
<1>4. CASE p # q
  <2>1. request'[p] = request[p]
    BY <1>1, <1>4 DEF SameRequest
  <2>2. PICK s \in Slugs : s = request[p].slug
    BY <1>2
  <2>3. request[p].carrier \in seeded[s] /\ Answered(s)
    BY <1>1, <2>1, <2>2 DEF AddedIsSeeded, AfterAnswer, AnsweredFirst
  <2>4. seeded[s] \subseteq seeded'[s]
    BY <1>1, <2>3, SeededAfter, AnsweredKeepsSchema
  <2> QED
    BY <2>2, <2>3, <2>4
<1> QED
  BY <1>3, <1>4

LEMMA OrphanStep ==
    ASSUME PlatformIInv, NEW q \in Requests, Steps(q) \/ ServerStops(q)
    PROVE  NoOrphanAccounts'
<1>1. /\ AccountIInv /\ ProvisionIInv /\ TypeOK /\ OpsMatch /\ SameRequest(q) /\ Moves(q) /\ NoOrphanAccounts
      /\ AfterAnswer /\ AccountHeld /\ SeededFirst /\ UNCHANGED scenario
  BY StepMoves, CarriersChange DEF PlatformIInv, AccountIInv, ProvisionIInv
<1> SUFFICES ASSUME ~Happens("failures"), ~Happens("early_activation"),
                    NEW e \in Emails, accounts'[e].slug # NoSlug
             PROVE  \/ users'[accounts'[e].slug][e].role # "none"
                    \/ \E p \in Requests : request'[p].pc \in Holding /\ request'[p].email = e
  BY <1>1 DEF NoOrphanAccounts, Happens, HasAccount, HasRow, Holding
<1>2. AnsweredFirst /\ ~PostLost(q) /\ ~ProvisionError(q) /\ ~UserError(q) /\ ~CarrierError(q)
      /\ ~ServerStops(q)
  BY <1>1 DEF AfterAnswer, Happens, PostLost, ProvisionError, UserError, CarrierError, ServerStops
<1>3. /\ request[q].slug \in Slugs /\ request[q].email \in Emails /\ request[q].role # "none"
      /\ request'[q].email = request[q].email
  BY <1>1, RequestTypes DEF Roles, SameRequest
<1>4. CASE ~HasAccount(e)
  <2>1. PostAccount(q) /\ e = request[q].email
    BY <1>1, <1>2, <1>4, AccountsAfter DEF HasAccount
  <2>2. Goes(q, "role")
    BY <1>4, <2>1 DEF PostAccount
  <2>3. request'[q].pc \in Holding
    BY <1>1, <2>2, GoesFacts DEF RequestPC, Holding
  <2> QED
    BY <1>3, <2>1, <2>3
<1>5. CASE HasAccount(e)
  <2>1. accounts'[e].slug = accounts[e].slug /\ accounts[e].slug \in Slugs
    <3>1. accounts[e] \in AccountRec
      BY <1>1 DEF TypeOK
    <3> QED
      BY <1>1, <1>5, <3>1, AccountStays DEF AccountRec, HasAccount
  <2>2. CASE HasRow(accounts[e].slug, e)
    <3>1. PICK s \in Slugs : s = accounts[e].slug
      BY <2>1
    <3>2. HasRow(s, e) /\ Answered(s)
      BY <1>2, <2>2, <3>1 DEF AnsweredFirst
    <3>3. HasRow(s, e)'
      BY <1>1, <3>2, RowStays, AnsweredKeepsSchema
    <3> QED
      BY <2>1, <3>1, <3>3 DEF HasRow
  <2>3. ASSUME NEW p \in Requests, request[p].pc \in Holding, request[p].email = e, p # q
        PROVE  request'[p].pc \in Holding /\ request'[p].email = e
    BY <1>1, <2>3 DEF SameRequest
  <2>4. CASE request[q].pc \in Holding /\ request[q].email = e
    <3>1. GrantRole(q) \/ Finish(q) \/ InsertRow(q)
      BY <1>1, <1>2, <2>4 DEF Moves, ProvisionMoves, UserMoves, CarrierMoves, Passes, Holding
    <3>2. CASE GrantRole(q)
      <4>1. request'[q].pc \in {"finish", "insert_row"}
        BY <1>1, <3>2, GoesFacts DEF GrantRole, RequestPC
      <4> QED
        BY <1>3, <2>4, <4>1 DEF Holding
    <3>3. accounts[e].slug = request[q].slug
      BY <1>1, <2>4 DEF AccountHeld
    <3>4. CASE Finish(q)
      <4>1. HasRow(request[q].slug, request[q].email)'
        BY <1>1, <3>4, FinishedRow
      <4> QED
        BY <1>1, <2>1, <2>4, <3>3, <4>1 DEF HasRow, SameRequest
    <3>5. CASE InsertRow(q)
      <4>1. HasTables(request[q].slug)
        <5>1. Answered(request[q].slug)
          BY <1>1, <1>2, <3>5 DEF InsertRow, OpsMatch, AnsweredFirst
        <5> QED
          BY <1>1, <5>1 DEF Answered, SeededFirst, HasTables
      <4>2. ~HasRow(request[q].slug, request[q].email)
        BY <1>1, <1>3, <2>4 DEF AccountHeld
      <4>3. users' = [users EXCEPT ![request[q].slug][request[q].email] =
                                      [role |-> request[q].role, active |-> TRUE]]
        BY <3>5, <4>1, <4>2 DEF InsertRow
      <4>4. users'[request[q].slug][request[q].email] = [role |-> request[q].role, active |-> TRUE]
        BY <1>1, <1>3, <4>3 DEF TypeOK
      <4> QED
        BY <1>3, <2>1, <2>4, <3>3, <4>4
    <3> QED
      BY <3>1, <3>2, <3>4, <3>5
  <2>5. \/ HasRow(accounts[e].slug, e)
        \/ \E p \in Requests : request[p].pc \in Holding /\ request[p].email = e
    BY <1>1, <1>5 DEF NoOrphanAccounts, Holding
  <2> QED
    BY <2>2, <2>3, <2>4, <2>5
<1> QED
  BY <1>4, <1>5

LEMMA PlatformIInvInit == PlatformInit => PlatformIInv
<1> SUFFICES ASSUME PlatformInit PROVE PlatformIInv
  OBVIOUS
<1>1. \A q \in Requests : request[q].pc = "new" /\ request[q].op = "create_tenant"
  BY DEF PlatformInit, Unasked
<1>2. \A s \in Slugs : tenant[s].status = "NONE"
  BY DEF PlatformInit, NoTenant
<1>3. \A s \in Slugs, e \in Emails : ~HasRow(s, e)
  BY DEF PlatformInit, NoRow, HasRow
<1>4. \A e \in Emails : ~HasAccount(e)
  BY DEF PlatformInit, NoAccount, HasAccount
<1> QED
  BY <1>1, <1>2, <1>3, <1>4, AccountInit
  DEF PlatformIInv, AdminKept, AfterAnswer, AnsweredFirst, AddedIsSeeded, NoOrphanAccounts

LEMMA PlatformInductive == PlatformIInv /\ [Next]_platformVars => PlatformIInv'
<1> SUFFICES ASSUME PlatformIInv, [Next]_platformVars PROVE PlatformIInv'
  OBVIOUS
<1>1. AccountIInv' /\ ProvisionIInv /\ TypeOK
  BY AccountInductive DEF PlatformIInv, AccountIInv, ProvisionIInv
<1>2. AdminKept /\ AfterAnswer /\ AddedIsSeeded /\ NoOrphanAccounts
  BY DEF PlatformIInv
<1>3. ASSUME NEW q \in Requests, Steps(q) \/ ServerStops(q)
      PROVE  AdminKept' /\ AfterAnswer' /\ AddedIsSeeded' /\ NoOrphanAccounts'
  <2>1. AdminKept' /\ AddedIsSeeded' /\ NoOrphanAccounts'
    BY <1>3, AdminStep, AddedStep, OrphanStep
  <2>2. AfterAnswer'
    BY <1>1, <1>2, <1>3, AnsweredStep, CarriersChange DEF AfterAnswer, Happens
  <2> QED
    BY <2>1, <2>2
<1>4. ASSUME NEW q \in Requests, Asks(q)
      PROVE  AdminKept' /\ AfterAnswer' /\ AddedIsSeeded' /\ NoOrphanAccounts'
  <2>1. Asked(q) /\ UNCHANGED <<tenant, users, accounts, seeded, scenario>>
    BY <1>1, <1>4, AskMoves
  <2>2. \A p \in Requests : request'[p].pc = "done" => request'[p] = request[p]
    BY <2>1 DEF Asked
  <2>3. \A p \in Requests : request[p].pc # "new" => request'[p] = request[p]
    BY <2>1 DEF Asked
  <2>4. AdminKept' /\ AddedIsSeeded'
    BY <1>2, <2>1, <2>2 DEF AdminKept, AddedIsSeeded, HasRow, Happens
  <2>5. NoOrphanAccounts'
    BY <1>2, <2>1, <2>3 DEF NoOrphanAccounts, HasRow, HasAccount, Happens
  <2>6. \A s \in Slugs : Answered(s) => Answered(s)'
    BY <2>3 DEF Answered
  <2>7. AnsweredFirst => AnsweredFirst'
    <3>1. SUFFICES ASSUME AnsweredFirst PROVE AnsweredFirst'
      OBVIOUS
    <3>2. /\ \A s \in Slugs : tenant'[s].status \in {"ACTIVE", "SUSPENDED"} => Answered(s)'
          /\ \A s \in Slugs, e \in Emails : users'[s][e].role # "none" => Answered(s)'
      BY <2>1, <2>6, <3>1 DEF AnsweredFirst, HasRow
    <3>3. ASSUME NEW p \in Requests, request'[p].op # "create_tenant"
          PROVE  Answered(request[p].slug)'
      <4>1. request'[p].slug \in Slugs
        BY <2>1 DEF Asked, RequestRec
      <4>2. PICK s \in Slugs : s = request'[p].slug
        BY <4>1
      <4>3. Answered(s)
        BY <2>1, <3>1, <3>3, <4>2 DEF Asked, AnsweredFirst, Resolves
      <4> QED
        BY <2>6, <4>2, <4>3 DEF Answered
    <3> QED
      BY <3>2, <3>3 DEF AnsweredFirst, HasRow, Answered
  <2> QED
    BY <1>2, <2>1, <2>4, <2>5, <2>7 DEF AfterAnswer, Happens
<1>5. CASE Calls
  <2>1. /\ UNCHANGED <<accounts, seeded, request, scenario>>
        /\ \A s \in Slugs, e \in Emails : HasRow(s, e)' = HasRow(s, e)
        /\ \A s \in Slugs : /\ tenant'[s].status \in {"ACTIVE", "SUSPENDED"}
                            /\ ~Happens("early_activation")
                            => tenant[s].status \in {"ACTIVE", "SUSPENDED"}
    BY <1>1, <1>5, CallsAfter
  <2>2. AdminKept' /\ AddedIsSeeded'
    BY <1>1, <1>2, <2>1, RequestTypes DEF AdminKept, AddedIsSeeded, Happens
  <2>3. NoOrphanAccounts'
    <3>1. \A e \in Emails : HasAccount(e) => accounts[e].slug \in Slugs
      BY <1>1 DEF TypeOK, AccountRec, HasAccount
    <3> QED
      BY <1>2, <2>1, <3>1 DEF NoOrphanAccounts, HasAccount, Happens
  <2>4. AfterAnswer'
    BY <1>2, <2>1 DEF AfterAnswer, AnsweredFirst, Answered, Happens
  <2> QED
    BY <1>1, <2>2, <2>3, <2>4 DEF PlatformIInv
<1>6. CASE UNCHANGED platformVars
  BY <1>1, <1>2, <1>6
  DEF PlatformIInv, platformVars, AdminKept, AfterAnswer, AnsweredFirst, Answered, AddedIsSeeded,
      NoOrphanAccounts, HasRow, HasAccount, Happens
<1> QED
  BY <1>1, <1>3, <1>4, <1>5, <1>6, NextCases DEF PlatformIInv

LEMMA PlatformInvariant == Spec => []PlatformIInv
<1>1. PlatformInit => PlatformIInv
  BY PlatformIInvInit
<1>2. PlatformIInv /\ [Next]_platformVars => PlatformIInv'
  BY PlatformInductive
<1> QED
  BY <1>1, <1>2, PTL DEF Spec

(* A tenant that is ACTIVE or SUSPENDED has its schema, seeded, and a row  *)
(* and an account of an administrator, whatever failed in provision_tenant *)
(* and whoever asked for the same slug or e-mail meanwhile, unless it was  *)
(* activated while it was being provisioned.                               *)
THEOREM ActiveTenantIsWhole == Spec => []ActiveIsProvisioned
<1>1. ASSUME PlatformIInv PROVE ActiveIsProvisioned
  <2>1. SUFFICES ASSUME ~Happens("early_activation"), NEW s \in Slugs,
                        tenant[s].status \in {"ACTIVE", "SUSPENDED"}
                 PROVE  /\ schema[s] = "seeded"
                        /\ \E e \in Emails : HasRow(s, e) /\ accounts[e].slug = s
    BY DEF ActiveIsProvisioned
  <2>2. PICK q \in Requests : /\ request[q].pc = "done" /\ request[q].op = "create_tenant"
                              /\ request[q].slug = s
    BY <1>1, <2>1 DEF PlatformIInv, AfterAnswer, AnsweredFirst, Answered
  <2>3. schema[s] = "seeded"
    BY <1>1, <2>2 DEF PlatformIInv, AccountIInv, ProvisionIInv, SeededFirst
  <2>4. HasRow(s, request[q].email) /\ request[q].email \in Emails
    BY <1>1, <2>2, RequestTypes DEF PlatformIInv, AccountIInv, ProvisionIInv, AdminKept
  <2>5. accounts[request[q].email].slug = s
    BY <1>1, <2>4 DEF PlatformIInv, AccountIInv, RowsMatchAccounts
  <2> QED
    BY <2>3, <2>4, <2>5
<1> QED
  BY <1>1, PlatformInvariant, PTL

(* Where nothing fails, an account belongs to a row of its tenant or to a  *)
(* request that is about to insert it.                                     *)
THEOREM AccountsHaveRows == Spec => []NoOrphanAccounts
<1>1. PlatformIInv => NoOrphanAccounts
  BY DEF PlatformIInv
<1> QED
  BY <1>1, PlatformInvariant, PTL

(* add_carrier_to_tenant is idempotent: a carrier whose request answered   *)
(* has its rules, configuration and theme, also when an earlier request    *)
(* for it failed half way.                                                 *)
THEOREM AddedCarrierIsSeeded == Spec => []AddedIsSeeded
<1>1. PlatformIInv => AddedIsSeeded
  BY DEF PlatformIInv
<1> QED
  BY <1>1, PlatformInvariant, PTL
=================================================================================
