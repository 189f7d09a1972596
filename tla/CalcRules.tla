------------------------------- MODULE CalcRules -------------------------------
(***************************************************************************)
(* The calculation rules and the engine switch of one carrier: the         *)
(* requests that change them (api/v1/carrier_config.py), the engine runs   *)
(* that read them (services/audit_calculation_service.py) and the Redis    *)
(* entries between the two.                                                *)
(*                                                                         *)
(* A row of carrier_calc_rules is named by its key and its number among    *)
(* the rows of that key in the order of effective_from, the time of its    *)
(* INSERT, which nothing changes afterwards.                               *)
(***************************************************************************)
EXTENDS Naturals, FiniteSets

CONSTANTS
    Keys,             \* the rule keys
    Locked,           \* those of LOCKED_RULE_KEYS
    Drafts,           \* the expressions an administrator may enter
    Seed,             \* what onboarding stores for a key
    Fallback,         \* what the engine uses for a key without an ACTIVE row
    MaxRows,          \* bound on the rows of a key
    MaxRequests,      \* bound on the requests
    Engines,          \* the engine runs that may be under way together
    EventChoices      \* the sets of events to consider

Events == {"rules", "config", "override", "re-add", "overlap", "stale_fill",
           "tombstone", "failures"}

ASSUME RulesAssumption ==
    /\ Keys # {}
    /\ Locked \subseteq Keys
    /\ MaxRows \in Nat \ {0}
    /\ MaxRequests \in Nat
    /\ EventChoices \subseteq SUBSET Events

VARIABLES
    rows,             \* carrier_calc_rules of the carrier
    made,             \* how many rows a key has
    config,           \* carrier_calc_config of the carrier, tenant_calc_config
    redis,            \* {schema}:calc_config:{carrier}, {schema}:calc_rules:{carrier}
    request,          \* the administrators' requests, in the order they arrive
    engine,           \* the engine runs
    events            \* what happens in a behaviour

vars == <<rows, made, config, redis, request, engine, events>>

Row      == Keys \X (1 .. MaxRows)
Requests == 1 .. MaxRequests
Exprs    == Drafts \cup {Seed, Fallback}

RuleStatus == {"NONE", "DRAFT", "PENDING_REVIEW", "ACTIVE", "DEACTIVATED"}
Switch     == {"none", "true", "false"}

RowRec == [status : RuleStatus, expr : Exprs, editable : BOOLEAN,
           submitted : BOOLEAN, approved : BOOLEAN]

(* Redis holds nothing, the empty string that an invalidation leaves, or   *)
(* the value of a reader.                                                  *)
ConfigEntry == {"none", "empty", "true", "false"}
RulesEntry  == {"none", "empty", "set"}

RedisRec == [config : ConfigEntry, rules : RulesEntry, exprs : [Keys -> Exprs]]

RequestPC == {"idle", "read", "invalidate", "done", "failed"}
RequestOp == {"none", "edit", "submit", "approve", "revert", "deactivate", "create",
              "re-add", "carrier_config", "tenant_config"}
EnginePC  == {"idle", "config", "config_missed", "config_read",
              "rules", "rules_missed", "rules_read", "done"}

RequestRec == [pc : RequestPC, op : RequestOp, row : Row, expr : Exprs, value : Switch]

EngineRec == [pc : EnginePC, override : Switch, on : BOOLEAN, rules : [Keys -> Exprs]]

TypeOK ==
    /\ rows \in [Row -> RowRec]
    /\ made \in [Keys -> 0 .. MaxRows]
    /\ config \in [carrier : Switch, tenant : Switch]
    /\ redis \in RedisRec
    /\ request \in [Requests -> RequestRec]
    /\ engine \in [Engines -> EngineRec]
    /\ events \in EventChoices

-----------------------------------------------------------------------------
(* What the tables say.                                                    *)

NoRow == [status |-> "NONE", expr |-> Seed, editable |-> FALSE,
          submitted |-> FALSE, approved |-> FALSE]

SeedRow(k) == [NoRow EXCEPT !.status = "ACTIVE", !.editable = k \notin Locked]

Defaults == [k \in Keys |-> Fallback]

(* Mutant: load_rules without its condition on the status. *)
ActiveRows_anyStatus(k) == {n \in 1 .. MaxRows : rows[<<k, n>>].status # "NONE"}

ActiveRows(k) == {n \in 1 .. MaxRows : rows[<<k, n>>].status = "ACTIVE"}

Newest(k) == CHOOSE n \in ActiveRows(k) : \A m \in ActiveRows(k) : m <= n

(* load_rules: the newest ACTIVE row of each key over the defaults. *)
InForce == [k \in Keys |-> IF ActiveRows(k) = {} THEN Fallback
                           ELSE rows[<<k, Newest(k)>>].expr]

(* resolve_effective_mode: the carrier's row, or else the tenant's. *)
Configured == IF config.carrier # "none" THEN config.carrier ELSE config.tenant

ValidTransitions == [NONE           |-> {},
                     DRAFT          |-> {"PENDING_REVIEW"},
                     PENDING_REVIEW |-> {"ACTIVE", "DRAFT"},
                     ACTIVE         |-> {"DEACTIVATED"},
                     DEACTIVATED    |-> {}]

Target == [submit |-> "PENDING_REVIEW", approve |-> "ACTIVE", revert |-> "DRAFT",
           deactivate |-> "DEACTIVATED"]

(* The carrier is assigned to the tenant without any configuration         *)
(* (platform.py) or onboarded with all of it; the tenant's own row is      *)
(* there since its provisioning.                                           *)
Init ==
    /\ events \in EventChoices
    /\ \E onboarded \in BOOLEAN :
        /\ rows = [r \in Row |-> IF onboarded /\ r[2] = 1 THEN SeedRow(r[1]) ELSE NoRow]
        /\ made = [k \in Keys |-> IF onboarded THEN 1 ELSE 0]
        /\ config = [carrier |-> IF onboarded THEN "true" ELSE "none", tenant |-> "true"]
    /\ redis = [config |-> "none", rules |-> "none", exprs |-> Defaults]
    /\ request = [q \in Requests |-> [pc |-> "idle", op |-> "none",
                                      row |-> CHOOSE r \in Row : TRUE,
                                      expr |-> Seed, value |-> "none"]]
    /\ engine = [e \in Engines |-> [pc |-> "idle", override |-> "none", on |-> FALSE,
                                    rules |-> Defaults]]

-----------------------------------------------------------------------------
(* The requests.  One that the code refuses (404, 409, 422) changes        *)
(* nothing and is left out.  A transition reads the row and checks its     *)
(* status; the UPDATE is a later statement and repeats no condition.       *)

(* Which request may begin, and which statement may commit, in this        *)
(* behaviour.                                                              *)
MayBegin(q, event) ==
    /\ event \in events
    /\ request[q].pc = "idle"
    /\ \A p \in Requests : p < q => request[p].pc # "idle"
    /\ "overlap" \notin events => \A p \in Requests : request[p].pc # "read"

MayCommit ==
    "stale_fill" \notin events =>
        \A e \in Engines : engine[e].pc \notin {"config_read", "rules_read"}

Begin(q, pc, op, row, expr) ==
    request' = [request EXCEPT ![q] = [@ EXCEPT !.pc = pc, !.op = op,
                                                !.row = row, !.expr = expr]]

Goto(q, pc) == request' = [request EXCEPT ![q].pc = pc]

(* Mutant: a locked rule can be deactivated. *)
TransitionRead_lockedToo(q, op, r) ==
    /\ MayBegin(q, "rules")
    /\ Target[op] \in ValidTransitions[rows[r].status]
    /\ Begin(q, "read", op, r, rows[r].expr)
    /\ UNCHANGED <<rows, made, config, redis, engine, events>>

TransitionRead(q, op, r) ==
    /\ MayBegin(q, "rules")
    /\ Target[op] \in ValidTransitions[rows[r].status]
    /\ op = "deactivate" => rows[r].editable
    /\ Begin(q, "read", op, r, rows[r].expr)
    /\ UNCHANGED <<rows, made, config, redis, engine, events>>

(* Mutant: an approval invalidates nothing. *)
TransitionWrite_cacheKept(q) ==
    LET op == request[q].op
        r  == request[q].row
    IN  /\ request[q].pc = "read" /\ op \in DOMAIN Target /\ MayCommit
        /\ rows' = [rows EXCEPT ![r] = [@ EXCEPT
                         !.status = Target[op],
                         !.submitted = rows[r].submitted \/ op = "submit",
                         !.approved = rows[r].approved \/ op = "approve"]]
        /\ Goto(q, "done")
        /\ UNCHANGED <<made, config, redis, engine, events>>

TransitionWrite(q) ==
    LET op == request[q].op
        r  == request[q].row
    IN  /\ request[q].pc = "read" /\ op \in DOMAIN Target /\ MayCommit
        /\ rows' = [rows EXCEPT ![r] = [@ EXCEPT
                         !.status = Target[op],
                         !.submitted = rows[r].submitted \/ op = "submit",
                         !.approved = rows[r].approved \/ op = "approve"]]
        /\ Goto(q, IF op = "approve" THEN "invalidate" ELSE "done")
        /\ UNCHANGED <<made, config, redis, engine, events>>

EditRead(q, r, expr) ==
    /\ MayBegin(q, "rules")
    /\ rows[r].status # "NONE" /\ rows[r].editable
    /\ Begin(q, "read", "edit", r, expr)
    /\ UNCHANGED <<rows, made, config, redis, engine, events>>

(* Mutants: the new status is misspelled; an edit leaves the status.       *)
EditWrite_misspelled(q) ==
    LET r == request[q].row
    IN  /\ request[q].pc = "read" /\ request[q].op = "edit" /\ MayCommit
        /\ rows' = [rows EXCEPT ![r] = [@ EXCEPT
                         !.status = "draft", !.expr = request[q].expr,
                         !.submitted = FALSE, !.approved = FALSE]]
        /\ Goto(q, "done")
        /\ UNCHANGED <<made, config, redis, engine, events>>

EditWrite_statusKept(q) ==
    LET r == request[q].row
    IN  /\ request[q].pc = "read" /\ request[q].op = "edit" /\ MayCommit
        /\ rows' = [rows EXCEPT ![r].expr = request[q].expr]
        /\ Goto(q, "done")
        /\ UNCHANGED <<made, config, redis, engine, events>>

(* In place, in any status, and no cache is told. *)
EditWrite(q) ==
    LET r == request[q].row
    IN  /\ request[q].pc = "read" /\ request[q].op = "edit" /\ MayCommit
        /\ rows' = [rows EXCEPT ![r] = [@ EXCEPT
                         !.status = "DRAFT", !.expr = request[q].expr,
                         !.submitted = FALSE, !.approved = FALSE]]
        /\ Goto(q, "done")
        /\ UNCHANGED <<made, config, redis, engine, events>>

CreateRule(q, k, expr) ==
    /\ MayBegin(q, "rules") /\ MayCommit
    /\ k \notin Locked
    /\ made[k] < MaxRows
    /\ made' = [made EXCEPT ![k] = @ + 1]
    /\ rows' = [rows EXCEPT ![<<k, made[k] + 1>>] =
                    [NoRow EXCEPT !.status = "DRAFT", !.expr = expr, !.editable = TRUE]]
    /\ Begin(q, "done", "create", <<k, made[k] + 1>>, expr)
    /\ UNCHANGED <<config, redis, engine, events>>

(* add_carrier_to_tenant.  No row conflicts with the new ones: the unique  *)
(* constraint includes effective_from, which is now().                     *)
AddCarrier(q) ==
    /\ MayBegin(q, "re-add") /\ MayCommit
    /\ \A k \in Keys : made[k] < MaxRows
    /\ made' = [k \in Keys |-> made[k] + 1]
    /\ rows' = [r \in Row |-> IF r[2] = made[r[1]] + 1 THEN SeedRow(r[1]) ELSE rows[r]]
    /\ config' = [config EXCEPT !.carrier = IF @ = "none" THEN "true" ELSE @]
    /\ Begin(q, "done", "re-add", request[q].row, Seed)
    /\ UNCHANGED <<redis, engine, events>>

UpdateCarrierConfig(q, value) ==
    /\ MayBegin(q, "config") /\ MayCommit
    /\ config' = [config EXCEPT !.carrier = value]
    /\ request' = [request EXCEPT ![q] = [@ EXCEPT
                     !.pc = "invalidate", !.op = "carrier_config", !.value = value]]
    /\ UNCHANGED <<rows, made, redis, engine, events>>

(* No cache is told, and the entries of the carriers outlive the change. *)
UpdateTenantConfig(q, value) ==
    /\ MayBegin(q, "config") /\ MayCommit
    /\ config' = [config EXCEPT !.tenant = value]
    /\ request' = [request EXCEPT ![q] = [@ EXCEPT
                     !.pc = "done", !.op = "tenant_config", !.value = value]]
    /\ UNCHANGED <<rows, made, redis, engine, events>>

(* SET key "" EX 1; an error of Redis is logged and forgotten. *)
Invalidate(q) ==
    /\ request[q].pc = "invalidate"
    /\ \/ redis' = IF request[q].op = "approve"
                   THEN [redis EXCEPT !.rules = "empty", !.exprs = Defaults]
                   ELSE [redis EXCEPT !.config = "empty"]
       \/ "failures" \in events /\ UNCHANGED redis
    /\ Goto(q, "done")
    /\ UNCHANGED <<rows, made, config, engine, events>>

(* The worker dies, or the UPDATE fails. *)
RequestDies(q) ==
    /\ "failures" \in events
    /\ \/ request[q].pc = "read" /\ Goto(q, "failed")
       \/ request[q].pc = "invalidate" /\ Goto(q, "done")
    /\ UNCHANGED <<rows, made, config, redis, engine, events>>

RequestBegin(q) ==
    \/ \E op \in DOMAIN Target, r \in Row : TransitionRead(q, op, r)
    \/ \E r \in Row, expr \in Drafts : EditRead(q, r, expr)
    \/ \E k \in Keys, expr \in Drafts : CreateRule(q, k, expr)
    \/ AddCarrier(q)
    \/ \E value \in {"true", "false"} :
           UpdateCarrierConfig(q, value) \/ UpdateTenantConfig(q, value)

RequestStep(q) == TransitionWrite(q) \/ EditWrite(q) \/ Invalidate(q) \/ RequestDies(q)

-----------------------------------------------------------------------------
(* An engine run: the mode, then the rules, each through Redis.            *)

EngineGoto(e, pc) == engine' = [engine EXCEPT ![e].pc = pc]

EngineDecide(e, on) ==
    engine' = [engine EXCEPT ![e] = [@ EXCEPT !.on = on,
                                              !.pc = IF on THEN "rules" ELSE "done"]]

(* The override of the run is always read from its row. *)
EngineStart(e, override) ==
    /\ engine[e].pc \in {"idle", "done"}
    /\ override # "none" => "override" \in events
    /\ engine' = [engine EXCEPT ![e] =
                    [override |-> override, on |-> override = "true", rules |-> Defaults,
                     pc |-> CASE override = "none"  -> "config"
                              [] override = "true"  -> "rules"
                              [] override = "false" -> "done"]]
    /\ UNCHANGED <<rows, made, config, redis, request, events>>

(* Whatever is there and is not "true" is taken for OFF. *)
EngineConfigHit(e) ==
    /\ engine[e].pc = "config"
    /\ redis.config # "none"
    /\ redis.config = "empty" => "tombstone" \in events
    /\ EngineDecide(e, redis.config = "true")
    /\ UNCHANGED <<rows, made, config, redis, request, events>>

EngineConfigMiss(e) ==
    /\ engine[e].pc = "config"
    /\ redis.config = "none" \/ "failures" \in events
    /\ EngineGoto(e, "config_missed")
    /\ UNCHANGED <<rows, made, config, redis, request, events>>

EngineConfigQuery(e) ==
    /\ engine[e].pc = "config_missed"
    /\ engine' = [engine EXCEPT ![e] = [@ EXCEPT !.on = Configured = "true",
                                                 !.pc = "config_read"]]
    /\ UNCHANGED <<rows, made, config, redis, request, events>>

(* Mutant: str(resolved) is stored as it is, and "True" is not "true".     *)
EngineConfigFill_capitalised(e) ==
    /\ engine[e].pc = "config_read"
    /\ redis' = [redis EXCEPT !.config = "false"]
    /\ EngineDecide(e, engine[e].on)
    /\ UNCHANGED <<rows, made, config, request, events>>

EngineConfigFill(e) ==
    /\ engine[e].pc = "config_read"
    /\ \/ redis' = [redis EXCEPT !.config = IF engine[e].on THEN "true" ELSE "false"]
       \/ "failures" \in events /\ UNCHANGED redis
    /\ EngineDecide(e, engine[e].on)
    /\ UNCHANGED <<rows, made, config, request, events>>

EngineRulesHit(e) ==
    /\ engine[e].pc = "rules"
    /\ redis.rules = "set"
    /\ engine' = [engine EXCEPT ![e] = [@ EXCEPT !.rules = redis.exprs, !.pc = "done"]]
    /\ UNCHANGED <<rows, made, config, redis, request, events>>

(* The empty string is no JSON: the reader goes on to the table. *)
EngineRulesMiss(e) ==
    /\ engine[e].pc = "rules"
    /\ redis.rules # "set" \/ "failures" \in events
    /\ EngineGoto(e, "rules_missed")
    /\ UNCHANGED <<rows, made, config, redis, request, events>>

EngineRulesQuery(e) ==
    /\ engine[e].pc = "rules_missed"
    /\ engine' = [engine EXCEPT ![e] = [@ EXCEPT !.rules = InForce, !.pc = "rules_read"]]
    /\ UNCHANGED <<rows, made, config, redis, request, events>>

EngineRulesFill(e) ==
    /\ engine[e].pc = "rules_read"
    /\ \/ redis' = [redis EXCEPT !.rules = "set", !.exprs = engine[e].rules]
       \/ "failures" \in events /\ UNCHANGED redis
    /\ EngineGoto(e, "done")
    /\ UNCHANGED <<rows, made, config, request, events>>

EngineStep(e) ==
    \/ EngineConfigHit(e) \/ EngineConfigMiss(e)
    \/ EngineConfigQuery(e) \/ EngineConfigFill(e)
    \/ EngineRulesHit(e) \/ EngineRulesMiss(e)
    \/ EngineRulesQuery(e) \/ EngineRulesFill(e)

(* An entry reaches its time to live: 300 seconds for a value, one second  *)
(* for what an invalidation left.                                          *)
ExpireConfig ==
    /\ redis.config # "none"
    /\ redis' = [redis EXCEPT !.config = "none"]
    /\ UNCHANGED <<rows, made, config, request, engine, events>>

(* Mutant: the rules are stored without a time to live. *)
ExpireRules_emptyOnly ==
    /\ redis.rules = "empty"
    /\ redis' = [redis EXCEPT !.rules = "none", !.exprs = Defaults]
    /\ UNCHANGED <<rows, made, config, request, engine, events>>

ExpireRules ==
    /\ redis.rules # "none"
    /\ redis' = [redis EXCEPT !.rules = "none", !.exprs = Defaults]
    /\ UNCHANGED <<rows, made, config, request, engine, events>>

Next ==
    \/ \E q \in Requests : RequestBegin(q) \/ RequestStep(q)
    \/ \E e \in Engines : EngineStep(e) \/ \E override \in Switch : EngineStart(e, override)
    \/ ExpireConfig
    \/ ExpireRules

Spec == Init /\ [][Next]_vars

(* The event loop resumes every handler and every engine run; Redis drops  *)
(* an entry in the end.  Nobody has to send a request or start a run.      *)
Fairness ==
    /\ \A q \in Requests : WF_vars(RequestStep(q))
    /\ \A e \in Engines : WF_vars(EngineStep(e))
    /\ WF_vars(ExpireConfig) /\ WF_vars(ExpireRules)

FairSpec == Spec /\ Fairness
-----------------------------------------------------------------------------
(* Properties.  One that begins with Without(E) is about the behaviours in *)
(* which nothing of E happens.                                             *)

Without(es) == events \cap es = {}

(* The generated-column rules are documentation of what the database       *)
(* computes: whatever happens, every row of a locked key is ACTIVE with    *)
(* what onboarding stored, and no engine run is given anything else for    *)
(* that key.  The transitions check is_editable only for deactivate; it is *)
(* the status machine that keeps the others away from a locked row.        *)
LockedInForce ==
    \A k \in Locked :
        /\ \A n \in 1 .. MaxRows :
               rows[<<k, n>>].status # "NONE" => rows[<<k, n>>] = SeedRow(k)
        /\ \A e \in Engines : engine[e].rules[k] \in {Seed, Fallback}

(* Some request of the kind has committed on the row, which had the        *)
(* expression when the request read it.                                    *)
Took(op, r, expr) ==
    \E q \in Requests : /\ request[q].pc \in {"invalidate", "done"}
                        /\ request[q].op = op /\ request[q].row = r
                        /\ request[q].expr = expr

(* Two-step approval: the expression of an ACTIVE row is what onboarding   *)
(* stored, or what somebody submitted and somebody approved as it now      *)
(* stands.  An edit between the SELECT and the UPDATE of an approval would *)
(* put an expression in force that nobody has reviewed.                    *)
ActiveWasReviewed ==
    Without({"overlap"}) =>
        \A r \in Row :
            rows[r].status = "ACTIVE" =>
                \/ rows[r] = SeedRow(r[1])
                \/ /\ rows[r].submitted /\ rows[r].approved
                   /\ Took("submit", r, rows[r].expr) /\ Took("approve", r, rows[r].expr)

(* Through whatever the cache still holds, an engine run calculates with   *)
(* nothing that was not approved for its key.                              *)
EngineUsesReviewed ==
    Without({"overlap"}) =>
        \A e \in Engines, k \in Keys :
            \/ engine[e].rules[k] \in {Seed, Fallback}
            \/ \E n \in 1 .. MaxRows : Took("approve", <<k, n>>, engine[e].rules[k])

(* Once the approval of the newest row of a key has answered, no entry of  *)
(* the cache says otherwise, so every later run calculates with it.  A     *)
(* reader between its SELECT and its SET can put the old rules back, a     *)
(* failure can lose the invalidation, a re-added carrier brings new rows.  *)
ApprovalIsServed ==
    Without({"stale_fill", "failures", "re-add"}) =>
        \A k \in Keys :
            LET r == <<k, made[k]>>
            IN  /\ made[k] > 0 /\ rows[r].status = "ACTIVE" /\ redis.rules = "set"
                /\ \A q \in Requests :
                       request[q].op = "approve" => request[q].pc # "invalidate"
                => redis.exprs[k] = rows[r].expr

(* Three levels decide: the engine is off for a run only if its row, the   *)
(* carrier or the tenant has been told so (resolve_effective_mode).        *)
ModeHasThreeLevels ==
    \A e \in Engines :
        engine[e].pc = "done" /\ ~engine[e].on =>
            \/ engine[e].override = "false"
            \/ \E q \in Requests :
                   /\ request[q].op \in {"carrier_config", "tenant_config"}
                   /\ request[q].value = "false"

(* It is so through the cache, its expiry and its failures, but for a run  *)
(* that reads the empty string an invalidation has left.                   *)
OffWasConfigured == Without({"tombstone"}) => ModeHasThreeLevels

(* After the last change the cache agrees with the tables in the end, also *)
(* where no request invalidates it and whatever races or fails: that is    *)
(* what the time to live is for.                                           *)
CachesConverge ==
    <>[](/\ redis.rules = "set" => redis.exprs = InForce
         /\ redis.config \in {"true", "false"} => redis.config = Configured)
===============================================================================
