---------------------------- MODULE CalcRulesProofs ----------------------------
(***************************************************************************)
(* What holds of CalcRules for any number of keys, rows, requests and      *)
(* engine runs, and whatever happens in a behaviour.                       *)
(***************************************************************************)
EXTENDS CalcRules, WellFoundedInduction, TLAPS

-----------------------------------------------------------------------------
(* The newest ACTIVE row of a key is one of its ACTIVE rows.               *)

(* The natural numbers are well-founded under <. *)
LEMMA LessThanIsWellFounded ==
    \E R : /\ IsWellFoundedOn(R, Nat)
           /\ \A x, y \in Nat : <<x, y>> \in R <=> x < y
<1>1. IsWellFoundedOn(OpToRel(<, Nat), Nat)
  BY NatLessThanWellFounded
<1>2. \A x, y \in Nat : <<x, y>> \in OpToRel(<, Nat) <=> x < y
  BY DEF OpToRel
<1> QED  BY <1>1, <1>2

(* A set of numbers between 1 and N has a greatest element. *)
LEMMA GreatestExists ==
    ASSUME NEW N \in Nat, NEW S \in SUBSET (1 .. N), S # {}
    PROVE  \E n \in S : \A m \in S : m <= n
<1> DEFINE T == {i \in Nat : N - i \in S}
<1>1. PICK R : /\ IsWellFoundedOn(R, Nat)
               /\ \A x, y \in Nat : <<x, y>> \in R <=> x < y
  BY LessThanIsWellFounded
<1>2. T \subseteq Nat
  OBVIOUS
<1>3. T # {}
  <2>1. PICK s \in S : TRUE
    OBVIOUS
  <2>2. N - s \in T
    BY <2>1
  <2> QED  BY <2>2
<1>4. PICK x \in T : \A y \in T : ~ (<<y, x>> \in R)
  <2>1. IsWellFoundedOn(R, Nat)
    BY <1>1
  <2> HIDE DEF T
  <2> QED  BY <2>1, <1>2, <1>3, WFMin
<1>5. \A m \in S : m <= N - x
  <2> TAKE m \in S
  <2>1. N - m \in T
    OBVIOUS
  <2>2. ~ (N - m < x)
    BY <2>1, <1>1, <1>4
  <2> QED  BY <2>2
<1> QED  BY <1>4, <1>5

(* What the engine reads for a key with an ACTIVE row is one of them. *)
LEMMA NewestIsActive ==
    ASSUME NEW k \in Keys, ActiveRows(k) # {}
    PROVE  Newest(k) \in ActiveRows(k)
<1>1. MaxRows \in Nat
  BY RulesAssumption DEF RulesAssumption
<1>2. ActiveRows(k) \in SUBSET (1 .. MaxRows)
  BY DEF ActiveRows
<1>3. \E n \in ActiveRows(k) : \A m \in ActiveRows(k) : m <= n
  BY <1>1, <1>2, GreatestExists
<1> QED  BY <1>3 DEF Newest

(* The rules in force are expressions. *)
LEMMA InForceIsTyped ==
    ASSUME TypeOK
    PROVE  InForce \in [Keys -> Exprs]
<1> SUFFICES ASSUME NEW k \in Keys
             PROVE  InForce[k] \in Exprs
  BY DEF InForce
<1>1. CASE ActiveRows(k) = {}
  BY <1>1 DEF InForce, Exprs
<1>2. CASE ActiveRows(k) # {}
  <2>1. Newest(k) \in 1 .. MaxRows
    BY <1>2, NewestIsActive DEF ActiveRows
  <2>2. rows[<<k, Newest(k)>>] \in RowRec
    BY <2>1 DEF TypeOK, Row
  <2> QED  BY <1>2, <2>2 DEF InForce, RowRec
<1> QED  BY <1>1, <1>2

-----------------------------------------------------------------------------
(* Types.                                                                  *)

LEMMA DefaultsTyped == Defaults \in [Keys -> Exprs]
BY DEF Defaults, Exprs

LEMMA InitTyped == Init => TypeOK
<1> SUFFICES ASSUME Init
             PROVE  TypeOK
  OBVIOUS
<1>1. MaxRows \in Nat \ {0} /\ Keys # {}
  BY RulesAssumption DEF RulesAssumption
<1>2. PICK onboarded \in BOOLEAN :
          /\ rows = [r \in Row |-> IF onboarded /\ r[2] = 1 THEN SeedRow(r[1]) ELSE NoRow]
          /\ made = [k \in Keys |-> IF onboarded THEN 1 ELSE 0]
          /\ config = [carrier |-> IF onboarded THEN "true" ELSE "none", tenant |-> "true"]
  BY DEF Init
<1>3. NoRow \in RowRec /\ \A k \in Keys : SeedRow(k) \in RowRec
  BY DEF NoRow, SeedRow, RowRec, RuleStatus, Exprs
<1>4. rows \in [Row -> RowRec]
  BY <1>2, <1>3 DEF Row
<1>5. made \in [Keys -> 0 .. MaxRows]
  BY <1>1, <1>2
<1>6. config \in [carrier : Switch, tenant : Switch]
  BY <1>2 DEF Switch
<1>7. redis \in RedisRec
  BY DEF Init, RedisRec, ConfigEntry, RulesEntry, Defaults, Exprs
<1>8. request \in [Requests -> RequestRec]
  <2>1. (CHOOSE r \in Row : TRUE) \in Row
    <3>1. PICK k \in Keys : TRUE
      BY <1>1
    <3>2. <<k, 1>> \in Row
      BY <1>1 DEF Row
    <3> QED  BY <3>2
  <2> HIDE DEF Row
  <2> QED  BY <2>1 DEF Init, RequestRec, RequestPC, RequestOp, Exprs, Switch
<1>9. engine \in [Engines -> EngineRec]
  BY DEF Init, EngineRec, EnginePC, Defaults, Exprs, Switch
<1> QED  BY <1>4, <1>5, <1>6, <1>7, <1>8, <1>9 DEF Init, TypeOK

(* A request that begins or goes on stays a request. *)
LEMMA BeginTyped ==
    ASSUME TypeOK,
           NEW q \in Requests, NEW pc \in RequestPC,
           NEW op \in RequestOp,
           NEW row \in Row, NEW expr \in Exprs,
           Begin(q, pc, op, row, expr)
    PROVE  request' \in [Requests -> RequestRec]
BY DEF TypeOK, Begin, RequestRec

LEMMA GotoTyped ==
    ASSUME TypeOK,
           NEW q \in Requests, NEW pc \in RequestPC,
           Goto(q, pc)
    PROVE  request' \in [Requests -> RequestRec]
BY DEF TypeOK, Goto, RequestRec

(* An update of one row keeps the table one of rows. *)
LEMMA RowTyped ==
    ASSUME TypeOK, NEW r \in Row, NEW new \in RowRec
    PROVE  [rows EXCEPT ![r] = new] \in [Row -> RowRec]
BY DEF TypeOK

LEMMA RequestRowTyped ==
    ASSUME TypeOK, NEW q \in Requests, NEW new \in RequestRec
    PROVE  [request EXCEPT ![q] = new] \in [Requests -> RequestRec]
BY DEF TypeOK

LEMMA EngineRowTyped ==
    ASSUME TypeOK, NEW e \in Engines, NEW new \in EngineRec
    PROVE  [engine EXCEPT ![e] = new] \in [Engines -> EngineRec]
BY DEF TypeOK

(* A decision about the engine leaves a run of it. *)
LEMMA DecideTyped ==
    ASSUME TypeOK, NEW e \in Engines, NEW on \in BOOLEAN, EngineDecide(e, on)
    PROVE  engine' \in [Engines -> EngineRec]
<1>1. [engine[e] EXCEPT !.on = on, !.pc = IF on THEN "rules" ELSE "done"] \in EngineRec
  BY DEF TypeOK, EngineRec, EnginePC
<1> QED  BY <1>1, EngineRowTyped DEF EngineDecide

LEMMA RequestTyped ==
    ASSUME TypeOK, NEW q \in Requests, RequestBegin(q) \/ RequestStep(q)
    PROVE  TypeOK'
<1> USE DEF TypeOK
<1>1. request[q] \in RequestRec
  OBVIOUS
<1>2. request[q].row \in Row /\ request[q].expr \in Exprs
  BY <1>1 DEF RequestRec
<1>3. MaxRows \in Nat
  BY RulesAssumption DEF RulesAssumption
<1>4. DOMAIN Target = {"submit", "approve", "revert", "deactivate"}
  BY DEF Target
<1>5. ASSUME NEW op \in DOMAIN Target, NEW r \in Row, TransitionRead(q, op, r)
      PROVE  TypeOK'
  <2>1. rows[r].expr \in Exprs
    BY DEF RowRec
  <2>2. op \in RequestOp /\ "read" \in RequestPC
    BY <1>4 DEF RequestOp, RequestPC
  <2>3. Begin(q, "read", op, r, rows[r].expr)
    BY <1>5 DEF TransitionRead
  <2>4. request' \in [Requests -> RequestRec]
    BY <2>1, <2>2, <2>3, BeginTyped
  <2> QED  BY <1>5, <2>4 DEF TransitionRead
<1>6. CASE TransitionWrite(q)
  <2>1. request[q].op \in DOMAIN Target
    BY <1>6 DEF TransitionWrite
  <2>2. Target[request[q].op] \in RuleStatus
    BY <2>1, <1>4 DEF Target, RuleStatus
  <2> DEFINE new == [rows[request[q].row] EXCEPT
                         !.status = Target[request[q].op],
                         !.submitted = rows[request[q].row].submitted \/ request[q].op = "submit",
                         !.approved = rows[request[q].row].approved \/ request[q].op = "approve"]
  <2>3. rows' \in [Row -> RowRec]
    <3>1. rows[request[q].row] \in RowRec
      BY <1>2
    <3>2. new \in RowRec
      BY <2>2, <3>1 DEF RowRec
    <3>3. rows' = [rows EXCEPT ![request[q].row] = new]
      BY <1>6 DEF TransitionWrite
    <3> QED  BY <1>2, <3>2, <3>3, RowTyped
  <2>4. request' \in [Requests -> RequestRec]
    BY <1>6, GotoTyped DEF RequestPC, TransitionWrite
  <2> QED  BY <1>6, <2>3, <2>4 DEF TransitionWrite
<1>7. ASSUME NEW r \in Row, NEW expr \in Drafts, EditRead(q, r, expr)
      PROVE  TypeOK'
  <2>1. request' \in [Requests -> RequestRec]
    BY <1>7, BeginTyped DEF RequestPC, RequestOp, EditRead, Exprs
  <2> QED  BY <1>7, <2>1 DEF EditRead
<1>8. CASE EditWrite(q)
  <2>1. rows' \in [Row -> RowRec]
    <3> DEFINE new == [rows[request[q].row] EXCEPT
                           !.status = "DRAFT", !.expr = request[q].expr,
                           !.submitted = FALSE, !.approved = FALSE]
    <3>1. rows[request[q].row] \in RowRec
      BY <1>2
    <3>2. new \in RowRec
      BY <1>2, <3>1 DEF RowRec, RuleStatus
    <3>3. rows' = [rows EXCEPT ![request[q].row] = new]
      BY <1>8 DEF EditWrite
    <3> QED  BY <1>2, <3>2, <3>3, RowTyped
  <2>2. request' \in [Requests -> RequestRec]
    BY <1>8, GotoTyped DEF RequestPC, EditWrite
  <2> QED  BY <1>8, <2>1, <2>2 DEF EditWrite
<1>9. ASSUME NEW k \in Keys, NEW expr \in Drafts, CreateRule(q, k, expr)
      PROVE  TypeOK'
  <2>1. made[k] + 1 \in 1 .. MaxRows
    BY <1>3, <1>9 DEF CreateRule
  <2>2. <<k, made[k] + 1>> \in Row
    BY <2>1 DEF Row
  <2>3. made' \in [Keys -> 0 .. MaxRows]
    BY <1>3, <1>9, <2>1 DEF CreateRule
  <2>4. [NoRow EXCEPT !.status = "DRAFT", !.expr = expr, !.editable = TRUE] \in RowRec
    BY DEF NoRow, RowRec, RuleStatus, Exprs
  <2>5. rows' \in [Row -> RowRec]
    BY <1>9, <2>2, <2>4, RowTyped DEF CreateRule
  <2>6. request' \in [Requests -> RequestRec]
    BY <1>9, <2>2, BeginTyped DEF RequestPC, RequestOp, CreateRule, Exprs
  <2> QED  BY <1>9, <2>3, <2>5, <2>6 DEF CreateRule
<1>10. CASE AddCarrier(q)
  <2>1. made' \in [Keys -> 0 .. MaxRows]
    BY <1>3, <1>10 DEF AddCarrier
  <2>2. \A k \in Keys : SeedRow(k) \in RowRec
    BY DEF NoRow, SeedRow, RowRec, RuleStatus, Exprs
  <2>3. rows' \in [Row -> RowRec]
    BY <1>10, <2>2 DEF AddCarrier, Row
  <2>4. config' \in [carrier : Switch, tenant : Switch]
    BY <1>10 DEF AddCarrier, Switch
  <2>5. request' \in [Requests -> RequestRec]
    BY <1>2, <1>10, BeginTyped DEF RequestPC, RequestOp, AddCarrier, Exprs
  <2> QED  BY <1>10, <2>1, <2>3, <2>4, <2>5 DEF AddCarrier
<1>11. ASSUME NEW value \in {"true", "false"}, UpdateCarrierConfig(q, value)
       PROVE  TypeOK'
  <2>1. config' \in [carrier : Switch, tenant : Switch]
    BY <1>11 DEF UpdateCarrierConfig, Switch
  <2>2. request' \in [Requests -> RequestRec]
    <3>1. [request[q] EXCEPT !.pc = "invalidate", !.op = "carrier_config", !.value = value]
              \in RequestRec
      BY <1>1 DEF RequestRec, RequestPC, RequestOp, Switch
    <3> QED  BY <1>11, <3>1, RequestRowTyped DEF UpdateCarrierConfig
  <2> QED  BY <1>11, <2>1, <2>2 DEF UpdateCarrierConfig
<1>12. ASSUME NEW value \in {"true", "false"}, UpdateTenantConfig(q, value)
       PROVE  TypeOK'
  <2>1. config' \in [carrier : Switch, tenant : Switch]
    BY <1>12 DEF UpdateTenantConfig, Switch
  <2>2. request' \in [Requests -> RequestRec]
    <3>1. [request[q] EXCEPT !.pc = "done", !.op = "tenant_config", !.value = value]
              \in RequestRec
      BY <1>1 DEF RequestRec, RequestPC, RequestOp, Switch
    <3> QED  BY <1>12, <3>1, RequestRowTyped DEF UpdateTenantConfig
  <2> QED  BY <1>12, <2>1, <2>2 DEF UpdateTenantConfig
<1>13. CASE Invalidate(q)
  <2>1. redis' \in RedisRec
    BY <1>13, DefaultsTyped DEF Invalidate, RedisRec, ConfigEntry, RulesEntry
  <2>2. request' \in [Requests -> RequestRec]
    BY <1>13, GotoTyped DEF RequestPC, Invalidate
  <2> QED  BY <1>13, <2>1, <2>2 DEF Invalidate
<1>14. CASE RequestDies(q)
  <2>1. request' \in [Requests -> RequestRec]
    BY <1>14, GotoTyped DEF RequestPC, RequestDies
  <2> QED  BY <1>14, <2>1 DEF RequestDies
<1> QED  BY <1>5, <1>6, <1>7, <1>8, <1>9, <1>10, <1>11, <1>12, <1>13, <1>14
         DEF RequestBegin, RequestStep

LEMMA EngineTyped ==
    ASSUME TypeOK, NEW e \in Engines,
           EngineStep(e) \/ \E override \in Switch : EngineStart(e, override)
    PROVE  TypeOK'
<1> USE DEF TypeOK
<1>1. InForce \in [Keys -> Exprs] /\ Defaults \in [Keys -> Exprs]
  BY InForceIsTyped DEF Defaults, Exprs
<1>2. engine[e].rules \in [Keys -> Exprs] /\ redis.exprs \in [Keys -> Exprs]
  BY DEF EngineRec, RedisRec
<1> HIDE DEF Exprs, InForce, Defaults
<1>3. ASSUME NEW override \in Switch, EngineStart(e, override)
      PROVE  TypeOK'
  <2>1. engine' \in [Engines -> EngineRec]
    BY <1>1, <1>3 DEF EngineStart, EngineRec, EnginePC, Switch
  <2> QED  BY <1>3, <2>1 DEF EngineStart
<1>4. CASE EngineConfigHit(e)
  <2>1. (redis.config = "true") \in BOOLEAN
    OBVIOUS
  <2>2. engine' \in [Engines -> EngineRec]
    BY <1>4, <2>1, DecideTyped DEF EngineConfigHit
  <2> QED  BY <1>4, <2>2 DEF EngineConfigHit
<1>5. CASE EngineConfigMiss(e)
  BY <1>5 DEF EngineConfigMiss, EngineGoto, EngineRec, EnginePC
<1>6. CASE EngineConfigQuery(e)
  <2>1. [engine[e] EXCEPT !.on = Configured = "true", !.pc = "config_read"] \in EngineRec
    BY DEF EngineRec, EnginePC
  <2>2. engine' \in [Engines -> EngineRec]
    BY <1>6, <2>1, EngineRowTyped DEF EngineConfigQuery
  <2> QED  BY <1>6, <2>2 DEF EngineConfigQuery
<1>7. CASE EngineConfigFill(e)
  <2>1. redis' \in RedisRec
    BY <1>7 DEF EngineConfigFill, RedisRec, ConfigEntry, RulesEntry
  <2>2. engine' \in [Engines -> EngineRec]
    <3>1. engine[e].on \in BOOLEAN
      BY DEF EngineRec
    <3> QED  BY <1>7, <3>1, DecideTyped DEF EngineConfigFill
  <2> QED  BY <1>7, <2>1, <2>2 DEF EngineConfigFill
<1>8. CASE EngineRulesHit(e)
  BY <1>2, <1>8 DEF EngineRulesHit, EngineRec, EnginePC
<1>9. CASE EngineRulesMiss(e)
  BY <1>9 DEF EngineRulesMiss, EngineGoto, EngineRec, EnginePC
<1>10. CASE EngineRulesQuery(e)
  <2>1. [engine[e] EXCEPT !.rules = InForce, !.pc = "rules_read"] \in EngineRec
    BY <1>1 DEF EngineRec, EnginePC
  <2>2. engine' \in [Engines -> EngineRec]
    BY <1>10, <2>1, EngineRowTyped DEF EngineRulesQuery
  <2> QED  BY <1>10, <2>2 DEF EngineRulesQuery
<1>11. CASE EngineRulesFill(e)
  <2>1. redis' \in RedisRec
    BY <1>2, <1>11 DEF EngineRulesFill, RedisRec, ConfigEntry, RulesEntry
  <2>2. engine' \in [Engines -> EngineRec]
    BY <1>11 DEF EngineRulesFill, EngineGoto, EngineRec, EnginePC
  <2> QED  BY <1>11, <2>1, <2>2 DEF EngineRulesFill
<1> QED  BY <1>3, <1>4, <1>5, <1>6, <1>7, <1>8, <1>9, <1>10, <1>11 DEF EngineStep

LEMMA ExpiryTyped ==
    ASSUME TypeOK, ExpireConfig \/ ExpireRules
    PROVE  TypeOK'
<1>1. redis' \in RedisRec
  BY DefaultsTyped DEF TypeOK, ExpireConfig, ExpireRules, RedisRec, ConfigEntry, RulesEntry
<1> QED  BY <1>1 DEF TypeOK, ExpireConfig, ExpireRules

(* A step keeps the types. *)
LEMMA StepTyped == TypeOK /\ [Next]_vars => TypeOK'
<1> SUFFICES ASSUME TypeOK, [Next]_vars
             PROVE  TypeOK'
  OBVIOUS
<1>1. CASE UNCHANGED vars
  BY <1>1 DEF vars, TypeOK
<1>2. CASE Next
  BY <1>2, RequestTyped, EngineTyped, ExpiryTyped DEF Next
<1> QED  BY <1>1, <1>2

(* Every variable stays within its type, whatever races with what.  In     *)
(* particular the two stages of an engine run, which meet the cache, the   *)
(* tables and failures in any order, end with an expression for each key.  *)
THEOREM CalcTypeCorrect == Spec => []TypeOK
<1> QED  BY InitTyped, StepTyped, PTL DEF Spec

-----------------------------------------------------------------------------
(* Locked rules.  What keeps them is that no request gets past its check   *)
(* with a locked row; the cache can hold only what was read.               *)

LockedRows ==
    \A k \in Locked, n \in 1 .. MaxRows :
        rows[<<k, n>>].status # "NONE" => rows[<<k, n>>] = SeedRow(k)

LockedEngines == \A k \in Locked, e \in Engines : engine[e].rules[k] \in {Seed, Fallback}
LockedCache   == \A k \in Locked : redis.exprs[k] \in {Seed, Fallback}
NoneOnLocked  == \A q \in Requests : request[q].pc = "read" => request[q].row[1] \notin Locked

LockedIInv == TypeOK /\ LockedRows /\ LockedEngines /\ LockedCache /\ NoneOnLocked

(* An onboarded row is ACTIVE, has the seeded expression, and is editable  *)
(* only if its key is not locked.                                          *)
LEMMA SeedRowFields ==
    ASSUME NEW k
    PROVE  /\ SeedRow(k).status = "ACTIVE" /\ SeedRow(k).expr = Seed
           /\ k \in Locked => ~ SeedRow(k).editable
BY DEF SeedRow, NoRow

(* The engine reads for a locked key what onboarding stored, or, where     *)
(* nothing is stored, its own default.                                     *)
LEMMA LockedRead ==
    ASSUME LockedRows, NEW k \in Locked
    PROVE  InForce[k] \in {Seed, Fallback}
<1>1. k \in Keys
  BY RulesAssumption DEF RulesAssumption
<1>2. CASE ActiveRows(k) = {}
  BY <1>1, <1>2 DEF InForce
<1>3. CASE ActiveRows(k) # {}
  <2>1. Newest(k) \in 1 .. MaxRows /\ rows[<<k, Newest(k)>>].status = "ACTIVE"
    BY <1>1, <1>3, NewestIsActive DEF ActiveRows
  <2>2. rows[<<k, Newest(k)>>] = SeedRow(k)
    BY <2>1 DEF LockedRows
  <2>3. InForce[k] = rows[<<k, Newest(k)>>].expr
    BY <1>1, <1>3 DEF InForce
  <2> QED  BY <2>2, <2>3, SeedRowFields
<1> QED  BY <1>2, <1>3

LEMMA InitLocked == Init => LockedIInv
<1> SUFFICES ASSUME Init
             PROVE  LockedIInv
  OBVIOUS
<1>1. Locked \subseteq Keys
  BY RulesAssumption DEF RulesAssumption
<1>2. LockedRows
  <2> SUFFICES ASSUME NEW k \in Locked, NEW n \in 1 .. MaxRows
               PROVE  rows[<<k, n>>] = NoRow \/ rows[<<k, n>>] = SeedRow(k)
    BY DEF LockedRows, NoRow
  <2>1. <<k, n>> \in Row
    BY <1>1 DEF Row
  <2> HIDE DEF Row
  <2> QED  BY <2>1 DEF Init
<1>3. LockedEngines /\ LockedCache
  BY <1>1 DEF Init, LockedEngines, LockedCache, Defaults
<1>4. NoneOnLocked
  BY DEF Init, NoneOnLocked
<1> QED  BY <1>2, <1>3, <1>4, InitTyped DEF LockedIInv

(* A request keeps them: the statuses that a locked row can have lead      *)
(* nowhere, or to a deactivation, which looks at is_editable.              *)
LEMMA LockedTransition ==
    ASSUME TypeOK, LockedRows, NEW r \in Row, NEW op \in DOMAIN Target,
           Target[op] \in ValidTransitions[rows[r].status],
           op = "deactivate" => rows[r].editable
    PROVE  r[1] \notin Locked
<1> SUFFICES ASSUME r[1] \in Locked
             PROVE  FALSE
  OBVIOUS
<1>1. r[2] \in 1 .. MaxRows /\ r = <<r[1], r[2]>>
  BY DEF Row
<1>2. rows[r].status # "NONE"
  BY DEF ValidTransitions
<1>3. rows[r] = SeedRow(r[1])
  BY <1>1, <1>2 DEF LockedRows
<1>4. rows[r].status = "ACTIVE" /\ ~ rows[r].editable
  BY <1>3, SeedRowFields
<1>5. op = "deactivate"
  BY <1>4 DEF Target, ValidTransitions
<1> QED  BY <1>4, <1>5

(* The locked rows stay as they are, or as onboarding stores them. *)
LEMMA SameRows ==
    ASSUME LockedRows,
           \A k \in Locked, n \in 1 .. MaxRows : rows'[<<k, n>>] \in {rows[<<k, n>>], SeedRow(k)}
    PROVE  LockedRows'
BY ZenonT(30) DEF LockedRows, SeedRow, NoRow

(* An UPDATE of the row of another key leaves the locked ones alone. *)
LEMMA OtherRow ==
    ASSUME TypeOK, LockedRows, NEW r \in Row, r[1] \notin Locked, NEW new,
           rows' = [rows EXCEPT ![r] = new]
    PROVE  LockedRows'
<1> SUFFICES ASSUME NEW k \in Locked, NEW n \in 1 .. MaxRows
             PROVE  rows'[<<k, n>>] = rows[<<k, n>>]
  BY SameRows
<1>1. <<k, n>> \in Row
  BY RulesAssumption DEF RulesAssumption, Row
<1>2. <<k, n>> # r
  OBVIOUS
<1> HIDE DEF Row
<1> QED  BY <1>1, <1>2 DEF TypeOK

LEMMA RequestLocked ==
    ASSUME LockedIInv, NEW q \in Requests, RequestBegin(q) \/ RequestStep(q)
    PROVE  LockedRows' /\ NoneOnLocked'
<1> USE DEF LockedIInv
<1>1. request \in [Requests -> RequestRec] /\ request[q].row \in Row
  BY DEF TypeOK, RequestRec
<1>2. ASSUME UNCHANGED rows
      PROVE  LockedRows'
  BY <1>2 DEF LockedRows
<1>3. ASSUME NEW op \in DOMAIN Target, NEW r \in Row, TransitionRead(q, op, r)
      PROVE  LockedRows' /\ NoneOnLocked'
  <2>1. r[1] \notin Locked
    BY <1>3, LockedTransition DEF TransitionRead
  <2>2. NoneOnLocked'
    BY <1>1, <1>3, <2>1 DEF TransitionRead, Begin, NoneOnLocked
  <2> QED  BY <1>2, <1>3, <2>2 DEF TransitionRead
<1>4. CASE TransitionWrite(q)
  <2>1. request[q].row[1] \notin Locked
    BY <1>4 DEF TransitionWrite, NoneOnLocked
  <2>2. PICK new : rows' = [rows EXCEPT ![request[q].row] = new]
    BY <1>4 DEF TransitionWrite
  <2>3. LockedRows'
    BY <1>1, <2>1, <2>2, OtherRow
  <2>4. NoneOnLocked'
    BY <1>1, <1>4 DEF TransitionWrite, Goto, NoneOnLocked
  <2> QED  BY <2>3, <2>4
<1>5. ASSUME NEW r \in Row, NEW expr \in Drafts, EditRead(q, r, expr)
      PROVE  LockedRows' /\ NoneOnLocked'
  <2>1. r[1] \notin Locked
    <3>1. r[2] \in 1 .. MaxRows /\ r = <<r[1], r[2]>>
      BY DEF Row
    <3>2. rows[r].status # "NONE" /\ rows[r].editable
      BY <1>5 DEF EditRead
    <3>3. r[1] \in Locked => rows[r] = SeedRow(r[1])
      BY <3>1, <3>2 DEF LockedRows
    <3> QED  BY <3>2, <3>3, SeedRowFields
  <2>2. NoneOnLocked'
    BY <1>1, <1>5, <2>1 DEF EditRead, Begin, NoneOnLocked
  <2> QED  BY <1>2, <1>5, <2>2 DEF EditRead
<1>6. CASE EditWrite(q)
  <2>1. request[q].row[1] \notin Locked
    BY <1>6 DEF EditWrite, NoneOnLocked
  <2>2. PICK new : rows' = [rows EXCEPT ![request[q].row] = new]
    BY <1>6 DEF EditWrite
  <2>3. LockedRows'
    BY <1>1, <2>1, <2>2, OtherRow
  <2>4. NoneOnLocked'
    BY <1>1, <1>6 DEF EditWrite, Goto, NoneOnLocked
  <2> QED  BY <2>3, <2>4
<1>7. ASSUME NEW k \in Keys, NEW expr \in Drafts, CreateRule(q, k, expr)
      PROVE  LockedRows' /\ NoneOnLocked'
  <2>1. <<k, made[k] + 1>> \in Row
    BY <1>7, RulesAssumption DEF CreateRule, RulesAssumption, Row, TypeOK
  <2>2. PICK new : rows' = [rows EXCEPT ![<<k, made[k] + 1>>] = new]
    BY <1>7 DEF CreateRule
  <2>3. <<k, made[k] + 1>>[1] \notin Locked
    BY <1>7 DEF CreateRule
  <2>4. LockedRows'
    BY <2>1, <2>2, <2>3, OtherRow
  <2>5. NoneOnLocked'
    BY <1>1, <1>7 DEF CreateRule, Begin, NoneOnLocked
  <2> QED  BY <2>4, <2>5
<1>8. CASE AddCarrier(q)
  <2>1. LockedRows'
    <3> SUFFICES ASSUME NEW k \in Locked, NEW n \in 1 .. MaxRows
                 PROVE  rows'[<<k, n>>] \in {rows[<<k, n>>], SeedRow(k)}
      BY SameRows
    <3>1. <<k, n>> \in Row /\ <<k, n>>[1] = k
      BY RulesAssumption DEF RulesAssumption, Row
    <3> HIDE DEF Row
    <3> QED  BY <1>8, <3>1 DEF AddCarrier
  <2>2. NoneOnLocked'
    BY <1>1, <1>8 DEF AddCarrier, Begin, NoneOnLocked
  <2> QED  BY <2>1, <2>2
<1>9. ASSUME NEW value \in {"true", "false"},
             UpdateCarrierConfig(q, value) \/ UpdateTenantConfig(q, value)
      PROVE  LockedRows' /\ NoneOnLocked'
  <2>1. \A p \in Requests : p # q => request'[p] = request[p]
    BY <1>1, <1>9 DEF UpdateCarrierConfig, UpdateTenantConfig
  <2>2. request'[q].pc # "read"
    <3>1. CASE UpdateCarrierConfig(q, value)
      BY <1>1, <3>1 DEF UpdateCarrierConfig, RequestRec
    <3>2. CASE UpdateTenantConfig(q, value)
      BY <1>1, <3>2 DEF UpdateTenantConfig, RequestRec
    <3> QED  BY <1>9, <3>1, <3>2
  <2>3. NoneOnLocked'
    BY <2>1, <2>2 DEF NoneOnLocked
  <2> QED  BY <1>2, <1>9, <2>3 DEF UpdateCarrierConfig, UpdateTenantConfig
<1>10. CASE Invalidate(q) \/ RequestDies(q)
  <2>1. \E pc \in {"done", "failed"} : Goto(q, pc)
    BY <1>10 DEF Invalidate, RequestDies
  <2>2. NoneOnLocked'
    BY <1>1, <2>1 DEF Goto, NoneOnLocked, RequestRec
  <2> QED  BY <1>2, <1>10, <2>2 DEF Invalidate, RequestDies
<1> QED  BY <1>3, <1>4, <1>5, <1>6, <1>7, <1>8, <1>9, <1>10 DEF RequestBegin, RequestStep

LEMMA RequestLockedCache ==
    ASSUME LockedIInv, NEW q \in Requests, RequestBegin(q) \/ RequestStep(q)
    PROVE  LockedCache' /\ LockedEngines'
<1>1. UNCHANGED engine
  BY DEF RequestBegin, RequestStep, TransitionRead, EditRead, CreateRule, AddCarrier,
         UpdateCarrierConfig, UpdateTenantConfig, TransitionWrite, EditWrite, Invalidate,
         RequestDies
<1>2. redis'.exprs \in {redis.exprs, Defaults}
  <2>1. CASE Invalidate(q)
    BY <2>1 DEF LockedIInv, TypeOK, Invalidate, RedisRec
  <2>2. CASE ~ Invalidate(q)
    BY <2>2 DEF RequestBegin, RequestStep, TransitionRead, EditRead, CreateRule, AddCarrier,
         UpdateCarrierConfig, UpdateTenantConfig, TransitionWrite, EditWrite, RequestDies
  <2> QED  BY <2>1, <2>2
<1>3. \A k \in Locked : Defaults[k] = Fallback
  BY RulesAssumption DEF RulesAssumption, Defaults
<1> HIDE DEF Defaults
<1> QED  BY <1>1, <1>2, <1>3 DEF LockedIInv, LockedCache, LockedEngines

(* Where the rules of an engine run come from. *)
LEMMA EngineReads ==
    ASSUME TypeOK, NEW e \in Engines,
           EngineStep(e) \/ \E override \in Switch : EngineStart(e, override)
    PROVE  /\ engine'[e].rules \in {engine[e].rules, Defaults, redis.exprs, InForce}
           /\ \A d \in Engines \ {e} : engine'[d] = engine[d]
           /\ redis'.exprs \in {redis.exprs, engine[e].rules}
           /\ UNCHANGED <<rows, made, config, request, events>>
<1>1. engine \in [Engines -> EngineRec] /\ redis \in RedisRec
  BY DEF TypeOK
<1>2. engine'[e].rules \in {engine[e].rules, Defaults, redis.exprs, InForce}
  <2> HIDE DEF Defaults, InForce
  <2>1. CASE EngineConfigHit(e)
    BY <1>1, <2>1 DEF EngineConfigHit, EngineDecide, EngineRec
  <2>2. CASE EngineConfigMiss(e) \/ EngineRulesMiss(e)
    <3>1. PICK pc \in EnginePC : EngineGoto(e, pc)
      BY <2>2 DEF EngineConfigMiss, EngineRulesMiss, EnginePC
    <3> QED  BY <1>1, <3>1 DEF EngineGoto, EngineRec
  <2>3. CASE EngineConfigQuery(e)
    BY <1>1, <2>3 DEF EngineConfigQuery, EngineRec
  <2>4. CASE EngineConfigFill(e)
    BY <1>1, <2>4 DEF EngineConfigFill, EngineDecide, EngineRec
  <2>5. CASE EngineRulesHit(e)
    BY <1>1, <2>5 DEF EngineRulesHit, EngineRec
  <2>6. CASE EngineRulesQuery(e)
    BY <1>1, <2>6 DEF EngineRulesQuery, EngineRec
  <2>7. CASE EngineRulesFill(e)
    BY <1>1, <2>7 DEF EngineRulesFill, EngineGoto, EngineRec
  <2>8. ASSUME NEW override \in Switch, EngineStart(e, override)
        PROVE  engine'[e].rules = Defaults
    BY <1>1, <2>8 DEF EngineStart
  <2> QED  BY <2>1, <2>2, <2>3, <2>4, <2>5, <2>6, <2>7, <2>8 DEF EngineStep
<1>3. \A d \in Engines \ {e} : engine'[d] = engine[d]
  BY <1>1 DEF EngineStep, EngineStart, EngineConfigHit, EngineConfigMiss, EngineConfigQuery,
         EngineConfigFill, EngineRulesHit, EngineRulesMiss, EngineRulesQuery,
         EngineRulesFill, EngineDecide, EngineGoto
<1>4. redis'.exprs \in {redis.exprs, engine[e].rules}
  BY <1>1 DEF EngineStep, EngineStart, EngineConfigHit, EngineConfigMiss, EngineConfigQuery,
         EngineConfigFill, EngineRulesHit, EngineRulesMiss, EngineRulesQuery,
         EngineRulesFill, RedisRec
<1>5. UNCHANGED <<rows, made, config, request, events>>
  BY DEF EngineStep, EngineStart, EngineConfigHit, EngineConfigMiss, EngineConfigQuery,
         EngineConfigFill, EngineRulesHit, EngineRulesMiss, EngineRulesQuery, EngineRulesFill
<1> QED  BY <1>2, <1>3, <1>4, <1>5

LEMMA EngineLocked ==
    ASSUME LockedIInv, NEW e \in Engines,
           EngineStep(e) \/ \E override \in Switch : EngineStart(e, override)
    PROVE  LockedEngines' /\ LockedCache'
<1> USE DEF LockedIInv
<1>1. /\ engine \in [Engines -> EngineRec] /\ redis \in RedisRec
      /\ \A k \in Locked : /\ Defaults[k] \in {Seed, Fallback}
                           /\ redis.exprs[k] \in {Seed, Fallback}
                           /\ InForce[k] \in {Seed, Fallback}
  BY LockedRead, RulesAssumption DEF TypeOK, RulesAssumption, Defaults, LockedCache
<1>2. /\ engine'[e].rules \in {engine[e].rules, Defaults, redis.exprs, InForce}
      /\ \A d \in Engines \ {e} : engine'[d] = engine[d]
      /\ redis'.exprs \in {redis.exprs, engine[e].rules}
  BY EngineReads
<1> HIDE DEF Defaults, InForce
<1> QED  BY <1>1, <1>2 DEF LockedEngines, LockedCache

(* Every step keeps the invariant. *)
LEMMA StepLocked == LockedIInv /\ [Next]_vars => LockedIInv'
<1> SUFFICES ASSUME LockedIInv, [Next]_vars
             PROVE  LockedIInv'
  OBVIOUS
<1>1. TypeOK'
  BY StepTyped DEF LockedIInv
<1>2. CASE UNCHANGED vars
  BY <1>1, <1>2 DEF vars, LockedIInv, LockedRows, LockedEngines, LockedCache, NoneOnLocked
<1>3. ASSUME NEW q \in Requests, RequestBegin(q) \/ RequestStep(q)
      PROVE  LockedIInv'
  BY <1>1, <1>3, RequestLocked, RequestLockedCache DEF LockedIInv
<1>4. ASSUME NEW e \in Engines,
             EngineStep(e) \/ \E override \in Switch : EngineStart(e, override)
      PROVE  LockedIInv'
  <2>1. UNCHANGED <<rows, request>>
    BY <1>4 DEF EngineStep, EngineStart, EngineConfigHit, EngineConfigMiss, EngineConfigQuery,
         EngineConfigFill, EngineRulesHit, EngineRulesMiss, EngineRulesQuery, EngineRulesFill
  <2>2. LockedRows' /\ NoneOnLocked'
    BY <2>1 DEF LockedIInv, LockedRows, NoneOnLocked
  <2> QED  BY <1>1, <1>4, <2>2, EngineLocked DEF LockedIInv
<1>5. CASE ExpireConfig \/ ExpireRules
  <2>1. redis'.exprs \in {redis.exprs, Defaults} /\ UNCHANGED <<rows, request, engine>>
    BY <1>5 DEF LockedIInv, TypeOK, RedisRec, ExpireConfig, ExpireRules
  <2>2. \A k \in Locked : Defaults[k] = Fallback
    BY RulesAssumption DEF RulesAssumption, Defaults
  <2> HIDE DEF Defaults
  <2>3. LockedCache'
    BY <2>1, <2>2 DEF LockedIInv, LockedCache
  <2>4. LockedRows' /\ LockedEngines' /\ NoneOnLocked'
    BY <2>1 DEF LockedIInv, LockedRows, LockedEngines, NoneOnLocked
  <2> QED  BY <1>1, <2>3, <2>4 DEF LockedIInv
<1> QED  BY <1>2, <1>3, <1>4, <1>5 DEF Next

(* The generated-column rules stay as onboarding stored them, and no       *)
(* engine run is given anything else for their keys, through whatever      *)
(* cache and with whatever overlap of requests, although only deactivate   *)
(* and edit look at is_editable.                                           *)
THEOREM LockedRulesHold == Spec => []LockedInForce
<1>1. LockedIInv => LockedInForce
  BY DEF LockedIInv, LockedRows, LockedEngines, LockedInForce
<1> QED  BY <1>1, InitLocked, StepLocked, PTL DEF Spec

-----------------------------------------------------------------------------
(* What the step of a request does to it and to the rows.                  *)

LEMMA RequestAfter ==
    ASSUME TypeOK, NEW q \in Requests, RequestBegin(q) \/ RequestStep(q)
    PROVE  /\ \A p \in Requests : p # q => request'[p] = request[p]
           /\ request[q].pc \notin {"done", "failed"}
           /\ request[q].pc = "invalidate" => request'[q].pc = "done"
           /\ request[q].pc # "idle" =>
                 /\ request'[q].op = request[q].op /\ request'[q].row = request[q].row
                 /\ request'[q].expr = request[q].expr /\ request'[q].value = request[q].value
           /\ request'[q].pc # "idle"
           /\ UNCHANGED <<engine, events>>
<1>1. request \in [Requests -> RequestRec] /\ request[q] \in RequestRec
  BY DEF TypeOK
<1>2. CASE RequestStep(q)
  <2>1. PICK pc \in {"done", "failed", "invalidate"} :
           /\ Goto(q, pc) /\ request[q].pc \in {"read", "invalidate"}
           /\ request[q].pc = "invalidate" => pc = "done"
    BY <1>2 DEF RequestStep, TransitionWrite, EditWrite, Invalidate, RequestDies
  <2>2. request' = [request EXCEPT ![q] = [request[q] EXCEPT !.pc = pc]]
    BY <1>1, <2>1 DEF Goto
  <2>3. /\ request'[q].op = request[q].op /\ request'[q].row = request[q].row
        /\ request'[q].expr = request[q].expr /\ request'[q].value = request[q].value
        /\ request'[q].pc = pc
        /\ \A p \in Requests : p # q => request'[p] = request[p]
    BY <1>1, <2>2 DEF RequestRec
  <2>4. UNCHANGED <<engine, events>>
    BY <1>2 DEF RequestStep, TransitionWrite, EditWrite, Invalidate, RequestDies
  <2> QED
    BY <2>1, <2>3, <2>4
<1>3. CASE RequestBegin(q)
  <2>1. request[q].pc = "idle" /\ UNCHANGED <<engine, events>>
    BY <1>3 DEF RequestBegin, TransitionRead, EditRead, CreateRule, AddCarrier,
                UpdateCarrierConfig, UpdateTenantConfig, MayBegin
  <2>2. ASSUME NEW pc \in {"read", "done"}, NEW op, NEW row, NEW expr, Begin(q, pc, op, row, expr)
        PROVE  /\ \A p \in Requests : p # q => request'[p] = request[p]
               /\ request'[q].pc # "idle"
    BY <1>1, <2>2 DEF Begin, RequestRec
  <2>3. ASSUME NEW value \in {"true", "false"},
               UpdateCarrierConfig(q, value) \/ UpdateTenantConfig(q, value)
        PROVE  /\ \A p \in Requests : p # q => request'[p] = request[p]
               /\ request'[q].pc # "idle"
    <3>1. CASE UpdateCarrierConfig(q, value)
      BY <1>1, <3>1 DEF UpdateCarrierConfig, RequestRec
    <3>2. CASE UpdateTenantConfig(q, value)
      BY <1>1, <3>2 DEF UpdateTenantConfig, RequestRec
    <3> QED
      BY <2>3, <3>1, <3>2
  <2>4. (\A p \in Requests : p # q => request'[p] = request[p]) /\ request'[q].pc # "idle"
    BY <1>3, <2>2, <2>3 DEF RequestBegin, TransitionRead, EditRead, CreateRule, AddCarrier
  <2> QED
    BY <2>1, <2>4
<1> QED
  BY <1>2, <1>3

(* What a request took, it has taken. *)
LEMMA TookStays ==
    ASSUME TypeOK, NEW q \in Requests, RequestBegin(q) \/ RequestStep(q),
           NEW op, NEW r, NEW expr, Took(op, r, expr)
    PROVE  Took(op, r, expr)'
<1>1. PICK p \in Requests : /\ request[p].pc \in {"invalidate", "done"} /\ request[p].op = op
                            /\ request[p].row = r /\ request[p].expr = expr
  BY DEF Took
<1>2. /\ request'[p].pc \in {"invalidate", "done"} /\ request'[p].op = op
      /\ request'[p].row = r /\ request'[p].expr = expr
  <2>1. CASE p = q
    BY <1>1, <2>1, RequestAfter
  <2>2. CASE p # q
    BY <1>1, <2>2, RequestAfter
  <2> QED
    BY <2>1, <2>2
<1> QED
  BY <1>2 DEF Took

LEMMA RowsAfter ==
    ASSUME TypeOK, NEW q \in Requests, RequestBegin(q) \/ RequestStep(q), NEW r \in Row
    PROVE  \/ rows'[r] = rows[r]
           \/ /\ TransitionWrite(q) /\ r = request[q].row
              /\ rows'[r] = [rows[r] EXCEPT !.status = Target[request[q].op],
                                !.submitted = rows[r].submitted \/ request[q].op = "submit",
                                !.approved = rows[r].approved \/ request[q].op = "approve"]
           \/ EditWrite(q) /\ r = request[q].row /\ rows'[r].status = "DRAFT"
           \/ /\ \E k \in Keys, expr \in Drafts : CreateRule(q, k, expr) /\ r = <<k, made[k] + 1>>
              /\ rows'[r].status = "DRAFT"
           \/ AddCarrier(q) /\ r[2] = made[r[1]] + 1 /\ rows'[r] = SeedRow(r[1])
<1>1. rows \in [Row -> RowRec] /\ request[q].row \in Row
  BY DEF TypeOK, RequestRec
<1>2. ASSUME NEW s, NEW new, rows' = [rows EXCEPT ![s] = new]
      PROVE  rows'[r] = rows[r] \/ (r = s /\ rows'[r] = new)
  BY <1>1, <1>2
<1>3. CASE TransitionWrite(q)
  <2>1. rows' = [rows EXCEPT ![request[q].row] = [rows[request[q].row] EXCEPT
                    !.status = Target[request[q].op],
                    !.submitted = rows[request[q].row].submitted \/ request[q].op = "submit",
                    !.approved = rows[request[q].row].approved \/ request[q].op = "approve"]]
    BY <1>3 DEF TransitionWrite
  <2> QED
    BY ZenonT(30), <1>2, <1>3, <2>1
<1>4. CASE EditWrite(q)
  <2>1. PICK new \in RowRec : rows' = [rows EXCEPT ![request[q].row] = new] /\ new.status = "DRAFT"
    <3> DEFINE new == [rows[request[q].row] EXCEPT
                           !.status = "DRAFT", !.expr = request[q].expr,
                           !.submitted = FALSE, !.approved = FALSE]
    <3>1. rows[request[q].row] \in RowRec /\ request[q].expr \in Exprs
      BY <1>1 DEF TypeOK, RequestRec
    <3>2. new \in RowRec /\ new.status = "DRAFT"
      BY <3>1 DEF RowRec, RuleStatus
    <3>3. rows' = [rows EXCEPT ![request[q].row] = new]
      BY <1>4 DEF EditWrite
    <3> QED
      BY <3>2, <3>3
  <2> QED
    BY <1>2, <1>4, <2>1
<1>5. ASSUME NEW k \in Keys, NEW expr \in Drafts, CreateRule(q, k, expr)
      PROVE  rows'[r] = rows[r] \/ (r = <<k, made[k] + 1>> /\ rows'[r].status = "DRAFT")
  <2> DEFINE new == [NoRow EXCEPT !.status = "DRAFT", !.expr = expr, !.editable = TRUE]
  <2>1. rows' = [rows EXCEPT ![<<k, made[k] + 1>>] = new]
    BY <1>5 DEF CreateRule
  <2>2. new.status = "DRAFT"
    BY DEF NoRow
  <2> HIDE DEF new
  <2> QED
    BY <1>2, <2>1, <2>2
<1>6. CASE AddCarrier(q)
  BY <1>1, <1>6 DEF AddCarrier
<1>7. UNCHANGED rows \/ TransitionWrite(q) \/ EditWrite(q) \/ AddCarrier(q)
        \/ \E k \in Keys, expr \in Drafts : CreateRule(q, k, expr)
  BY DEF RequestBegin, RequestStep, TransitionRead, EditRead, UpdateCarrierConfig,
         UpdateTenantConfig, Invalidate, RequestDies
<1> QED
  BY <1>3, <1>4, <1>5, <1>6, <1>7

-----------------------------------------------------------------------------
(* What is in force was reviewed.                                          *)

(* Where requests do not overlap, nothing happens to a row between the     *)
(* SELECT and the UPDATE of a transition.                                  *)
OneReader ==
    /\ \A p, q \in Requests : request[p].pc = "read" /\ request[q].pc = "read" => p = q
    /\ \A q \in Requests : request[q].pc = "read" /\ request[q].op \in DOMAIN Target =>
          /\ request[q].expr = rows[request[q].row].expr
          /\ Target[request[q].op] \in ValidTransitions[rows[request[q].row].status]

Reviewed ==
    \A r \in Row :
        /\ rows[r].status = "PENDING_REVIEW" => rows[r].submitted /\ Took("submit", r, rows[r].expr)
        /\ rows[r].status = "ACTIVE" =>
              \/ rows[r] = SeedRow(r[1])
              \/ /\ rows[r].submitted /\ rows[r].approved
                 /\ Took("submit", r, rows[r].expr) /\ Took("approve", r, rows[r].expr)

(* An expression that was stored by onboarding, or approved for the key.   *)
Known(k, expr) == expr \in {Seed, Fallback} \/ \E n \in 1 .. MaxRows : Took("approve", <<k, n>>, expr)

KnownOnly ==
    \A k \in Keys : Known(k, redis.exprs[k]) /\ \A e \in Engines : Known(k, engine[e].rules[k])

ReviewIInv == TypeOK /\ (Without({"overlap"}) => OneReader /\ Reviewed /\ KnownOnly)

LEMMA OneReaderStep ==
    ASSUME TypeOK, "overlap" \notin events, OneReader,
           NEW q \in Requests, RequestBegin(q) \/ RequestStep(q)
    PROVE  OneReader'
<1>1. \A p \in Requests : p # q => request'[p] = request[p]
  BY RequestAfter
<1>2. ASSUME NEW p \in Requests, p # q, request[p].pc = "read"
      PROVE  UNCHANGED rows /\ ~RequestBegin(q)
  <2>1. ~RequestBegin(q)
    BY <1>2 DEF RequestBegin, TransitionRead, EditRead, CreateRule, AddCarrier, UpdateCarrierConfig,
                UpdateTenantConfig, MayBegin
  <2>2. request[q].pc # "read"
    BY <1>2 DEF OneReader
  <2> QED
    BY <2>1, <2>2 DEF RequestStep, TransitionWrite, EditWrite, Invalidate, RequestDies
<1>3. request'[q].pc = "read" => request[q].pc = "idle" /\ RequestBegin(q)
  <2>1. SUFFICES ASSUME RequestStep(q) PROVE request'[q].pc # "read"
    BY DEF RequestBegin, TransitionRead, EditRead, CreateRule, AddCarrier,
                UpdateCarrierConfig, UpdateTenantConfig, MayBegin
  <2>2. PICK pc \in {"done", "failed", "invalidate"} : Goto(q, pc)
    BY <2>1 DEF RequestStep, TransitionWrite, EditWrite, Invalidate, RequestDies
  <2> QED
    BY <2>2 DEF Goto, TypeOK, RequestRec
<1>4. ASSUME request'[q].pc = "read", request'[q].op \in DOMAIN Target
      PROVE  /\ request'[q].expr = rows'[request'[q].row].expr
             /\ Target[request'[q].op] \in ValidTransitions[rows'[request'[q].row].status]
  <2>1. request \in [Requests -> RequestRec] /\ request[q] \in RequestRec
    BY DEF TypeOK
  <2>2. ASSUME NEW op, NEW r, NEW expr, NEW pc, Begin(q, pc, op, r, expr)
        PROVE  /\ request'[q].op = op /\ request'[q].row = r /\ request'[q].expr = expr
               /\ request'[q].pc = pc
    BY <2>1, <2>2 DEF Begin, TypeOK, RequestRec
  <2>3. ASSUME NEW op \in DOMAIN Target, NEW r \in Row, TransitionRead(q, op, r)
        PROVE  /\ request'[q].expr = rows'[request'[q].row].expr
               /\ Target[request'[q].op] \in ValidTransitions[rows'[request'[q].row].status]
    BY <2>2, <2>3 DEF TransitionRead
  <2>4. ASSUME NEW r \in Row, NEW expr \in Drafts, EditRead(q, r, expr)
        PROVE  FALSE
    BY <1>4, <2>2, <2>4 DEF EditRead, Target
  <2>5. ~AddCarrier(q) /\ ~\E k \in Keys, expr \in Drafts : CreateRule(q, k, expr)
    BY <1>4, <2>2 DEF AddCarrier, CreateRule
  <2>6. ASSUME NEW value \in {"true", "false"}, UpdateCarrierConfig(q, value) PROVE FALSE
    <3>1. request' = [request EXCEPT ![q] = request'[q]]
          /\ request'[q].pc \in {"invalidate", "done"}
      BY <2>1, <2>6 DEF UpdateCarrierConfig, RequestRec
    <3>. QED  BY <1>4, <3>1
  <2>7. ASSUME NEW value \in {"true", "false"}, UpdateTenantConfig(q, value) PROVE FALSE
    <3>1. request' = [request EXCEPT ![q] = request'[q]]
          /\ request'[q].pc \in {"invalidate", "done"}
      BY <2>1, <2>7 DEF UpdateTenantConfig, RequestRec
    <3>. QED  BY <1>4, <3>1
  <2> QED
    BY <1>3, <1>4, <2>3, <2>4, <2>5, <2>6, <2>7 DEF RequestBegin
<1>5. \A p \in Requests : p # q /\ request[p].pc = "read" => request'[q].pc # "read"
  BY <1>2, <1>3
<1> QED
  BY <1>1, <1>2, <1>4, <1>5 DEF OneReader

LEMMA ReviewedStep ==
    ASSUME TypeOK, OneReader, Reviewed, NEW q \in Requests, RequestBegin(q) \/ RequestStep(q)
    PROVE  Reviewed'
<1> SUFFICES ASSUME NEW r \in Row
             PROVE  /\ rows'[r].status = "PENDING_REVIEW" =>
                          rows'[r].submitted /\ Took("submit", r, rows[r].expr)'
                    /\ rows'[r].status = "ACTIVE" =>
                          \/ rows'[r] = SeedRow(r[1])
                          \/ /\ rows'[r].submitted /\ rows'[r].approved
                             /\ Took("submit", r, rows[r].expr)' /\ Took("approve", r, rows[r].expr)'
  BY DEF Reviewed
<1>1. rows[r] \in RowRec
  BY DEF TypeOK
<1>2. PICK expr : expr = rows[r].expr
  OBVIOUS
<1>3. \A op : Took(op, r, expr) => Took(op, r, expr)'
  BY TookStays
<1>4. ASSUME rows'[r].expr = expr, NEW op PROVE Took(op, r, rows[r].expr)' <=> Took(op, r, expr)'
  BY <1>4 DEF Took
<1>5. CASE rows'[r] = rows[r]
  BY <1>2, <1>3, <1>4, <1>5 DEF Reviewed
<1>6. CASE /\ TransitionWrite(q) /\ r = request[q].row
           /\ rows'[r] = [rows[r] EXCEPT !.status = Target[request[q].op],
                             !.submitted = rows[r].submitted \/ request[q].op = "submit",
                             !.approved = rows[r].approved \/ request[q].op = "approve"]
  <2>1. /\ rows'[r].expr = expr /\ rows'[r].status = Target[request[q].op]
        /\ rows'[r].submitted = (rows[r].submitted \/ request[q].op = "submit")
        /\ rows'[r].approved = (rows[r].approved \/ request[q].op = "approve")
    BY <1>1, <1>2, <1>6 DEF RowRec
  <2>2. /\ request[q].pc = "read" /\ request[q].op \in DOMAIN Target /\ request[q].expr = expr
        /\ Target[request[q].op] \in ValidTransitions[rows[r].status]
    BY <1>2, <1>6 DEF TransitionWrite, OneReader
  <2>3. Took(request[q].op, r, expr)'
    <3>1. request'[q].pc \in {"invalidate", "done"}
      BY <1>6 DEF TransitionWrite, Goto, TypeOK, RequestRec
    <3>2. /\ request'[q].op = request[q].op /\ request'[q].row = r /\ request'[q].expr = expr
      BY <1>6, <2>2, RequestAfter
    <3>3. PICK op : op = request[q].op
      OBVIOUS
    <3>4. Took(op, r, expr)'
      BY <3>1, <3>2, <3>3 DEF Took
    <3> QED
      BY <3>2, <3>3, <3>4 DEF Took
  <2>4. CASE request[q].op = "submit"
    <3>1. Took("submit", r, expr)'
      BY <2>3, <2>4, <2>2, RequestAfter DEF Took
    <3>2. Took("submit", r, rows[r].expr)'
      BY <1>4, <2>1, <3>1
    <3>3. rows'[r].submitted = TRUE
      BY <2>1, <2>4
    <3>4. rows'[r].status = "PENDING_REVIEW"
      BY <2>1, <2>4 DEF Target
    <3> QED
      BY <3>2, <3>3, <3>4
  <2>5. CASE request[q].op = "approve"
    <3>1. Took("approve", r, expr)'
      BY <2>3, <2>5, <2>2, RequestAfter DEF Took
    <3>2. rows[r].status = "PENDING_REVIEW"
      BY <1>1, <2>2, <2>5 DEF Target, ValidTransitions, RowRec, RuleStatus
    <3>3. rows[r].submitted /\ Took("submit", r, expr)'
      BY <1>2, <1>3, <3>2 DEF Reviewed
    <3> QED
      BY <1>4, <2>1, <2>5, <3>1, <3>3 DEF Target
  <2>6. CASE request[q].op \in {"revert", "deactivate"}
    BY <2>1, <2>6 DEF Target
  <2> QED
    BY <2>2, <2>4, <2>5, <2>6 DEF Target
<1>7. CASE rows'[r].status = "DRAFT"
  BY <1>7
<1>8. CASE rows'[r] = SeedRow(r[1])
  BY <1>8, SeedRowFields
<1> QED
  BY <1>5, <1>6, <1>7, <1>8, RowsAfter

(* What the tables give is known. *)
LEMMA InForceKnown ==
    ASSUME Reviewed, NEW k \in Keys
    PROVE  Known(k, InForce[k])
<1>1. CASE ActiveRows(k) = {}
  BY <1>1 DEF InForce, Known
<1>2. CASE ActiveRows(k) # {}
  <2>1. Newest(k) \in 1 .. MaxRows /\ rows[<<k, Newest(k)>>].status = "ACTIVE"
    BY <1>2, NewestIsActive DEF ActiveRows
  <2>2. PICK n \in 1 .. MaxRows : n = Newest(k)
    BY <2>1
  <2>3. InForce[k] = rows[<<k, n>>].expr
    BY <1>2, <2>2 DEF InForce
  <2>4. <<k, n>> \in Row /\ <<k, n>>[1] = k
    BY DEF Row
  <2>5. rows[<<k, n>>] = SeedRow(k) \/ Took("approve", <<k, n>>, rows[<<k, n>>].expr)
    BY <2>1, <2>2, <2>4 DEF Reviewed
  <2> QED
    BY <2>3, <2>5, SeedRowFields DEF Known
<1> QED
  BY <1>1, <1>2

LEMMA ReviewInductive == ReviewIInv /\ [Next]_vars => ReviewIInv'
<1> SUFFICES ASSUME ReviewIInv, [Next]_vars PROVE ReviewIInv'
  OBVIOUS
<1>1. TypeOK /\ TypeOK'
  BY StepTyped DEF ReviewIInv
<1>2. UNCHANGED events
  <2>1. ASSUME NEW q \in Requests, RequestBegin(q) \/ RequestStep(q) PROVE UNCHANGED events
    BY <1>1, <2>1, RequestAfter
  <2>2. ASSUME NEW e \in Engines, EngineStep(e) \/ \E override \in Switch : EngineStart(e, override)
        PROVE  UNCHANGED events
    BY <1>1, <2>2, EngineReads
  <2> QED
    BY <2>1, <2>2 DEF Next, vars, ExpireConfig, ExpireRules
<1> SUFFICES ASSUME "overlap" \notin events, OneReader, Reviewed, KnownOnly
             PROVE  OneReader' /\ Reviewed' /\ KnownOnly'
  BY <1>1, <1>2 DEF ReviewIInv, Without
<1>3. ASSUME NEW q \in Requests, RequestBegin(q) \/ RequestStep(q)
      PROVE  OneReader' /\ Reviewed' /\ KnownOnly'
  <2>1. \A k, expr : Known(k, expr) => Known(k, expr)'
    BY <1>1, <1>3, TookStays DEF Known
  <2>2. redis'.exprs \in {redis.exprs, Defaults} /\ UNCHANGED engine
    <3>1. CASE Invalidate(q)
      BY <1>1, <3>1 DEF TypeOK, Invalidate, RedisRec
    <3>2. CASE ~Invalidate(q)
      BY <1>3, <3>2 DEF RequestBegin, RequestStep, TransitionRead, EditRead, CreateRule, AddCarrier,
         UpdateCarrierConfig, UpdateTenantConfig, TransitionWrite, EditWrite, RequestDies
    <3> QED
      BY <3>1, <3>2
  <2>3. ASSUME NEW k \in Keys
        PROVE  Known(k, redis.exprs[k])' /\ \A e \in Engines : Known(k, engine[e].rules[k])'
    <3>1. \A expr : expr \in {Seed, Fallback} => Known(k, expr)'
      BY DEF Known
    <3>2. Defaults[k] = Fallback
      BY DEF Defaults
    <3>3. PICK expr : expr = redis'.exprs[k]
      OBVIOUS
    <3>4. Known(k, expr)'
      BY <2>1, <2>2, <3>1, <3>2, <3>3 DEF KnownOnly
    <3>5. Known(k, redis.exprs[k])'
      BY <3>3, <3>4 DEF Known
    <3>6. ASSUME NEW e \in Engines PROVE Known(k, engine[e].rules[k])'
      <4>1. PICK x : x = engine[e].rules[k]
        OBVIOUS
      <4>2. Known(k, x)'
        BY <2>1, <4>1 DEF KnownOnly
      <4> QED
        BY <2>2, <4>1, <4>2 DEF Known
    <3> QED
      BY <3>5, <3>6
  <2> QED
    BY <1>1, <1>3, <2>3, OneReaderStep, ReviewedStep DEF KnownOnly
<1>4. ASSUME UNCHANGED <<rows, request>>,
             \A k \in Keys : Known(k, redis'.exprs[k]) /\ \A e \in Engines : Known(k, engine'[e].rules[k])
      PROVE  OneReader' /\ Reviewed' /\ KnownOnly'
  <2>1. ASSUME NEW op, NEW r, NEW expr PROVE Took(op, r, expr)' <=> Took(op, r, expr)
    BY <1>4 DEF Took
  <2>2. OneReader' /\ Reviewed'
    BY <1>4 DEF OneReader, Reviewed, Took
  <2>3. ASSUME NEW k, NEW expr, Known(k, expr) PROVE Known(k, expr)'
    BY <2>1, <2>3 DEF Known
  <2>4. ASSUME NEW k \in Keys PROVE Known(k, redis.exprs[k])'
    <3>1. PICK x : x = redis'.exprs[k]
      OBVIOUS
    <3> QED
      BY <1>4, <2>3, <3>1 DEF Known
  <2>5. ASSUME NEW k \in Keys, NEW e \in Engines PROVE Known(k, engine[e].rules[k])'
    <3>1. PICK x : x = engine'[e].rules[k]
      OBVIOUS
    <3> QED
      BY <1>4, <2>3, <3>1 DEF Known
  <2> QED
    BY <2>2, <2>4, <2>5 DEF KnownOnly
<1>5. \A k \in Keys : Known(k, InForce[k]) /\ Known(k, Defaults[k])
  BY InForceKnown DEF Defaults, Known
<1>6. ASSUME NEW e \in Engines, EngineStep(e) \/ \E override \in Switch : EngineStart(e, override)
      PROVE  OneReader' /\ Reviewed' /\ KnownOnly'
  <2> HIDE DEF Defaults, InForce
  <2>1. UNCHANGED <<rows, request>>
    BY <1>1, <1>6, EngineReads
  <2>2. \A k \in Keys : Known(k, redis'.exprs[k])
    BY <1>1, <1>6, EngineReads DEF KnownOnly
  <2>3. \A k \in Keys : Known(k, engine'[e].rules[k])
    BY <1>1, <1>5, <1>6, EngineReads DEF KnownOnly
  <2>4. \A k \in Keys, d \in Engines : d # e => Known(k, engine'[d].rules[k])
    BY <1>1, <1>6, EngineReads DEF KnownOnly
  <2> QED
    BY <1>4, <2>1, <2>2, <2>3, <2>4
<1>7. CASE ExpireConfig \/ ExpireRules
  <2>1. redis'.exprs \in {redis.exprs, Defaults} /\ UNCHANGED <<rows, request, engine>>
    BY <1>1, <1>7 DEF TypeOK, RedisRec, ExpireConfig, ExpireRules
  <2> HIDE DEF Defaults
  <2> QED
    BY <1>4, <1>5, <2>1 DEF KnownOnly
<1>8. CASE UNCHANGED vars
  BY <1>4, <1>8 DEF vars, KnownOnly
<1> QED
  BY <1>3, <1>6, <1>7, <1>8 DEF Next

LEMMA ReviewInit == Init => ReviewIInv
<1> SUFFICES ASSUME Init PROVE ReviewIInv
  OBVIOUS
<1>1. \A q \in Requests : request[q].pc = "idle"
  BY DEF Init
<1>2. \A r \in Row : rows[r] = NoRow \/ rows[r] = SeedRow(r[1])
  BY DEF Init
<1>3. NoRow.status = "NONE"
  BY DEF NoRow
<1>4. \A k \in Keys : /\ redis.exprs[k] = Fallback
                      /\ \A e \in Engines : engine[e].rules[k] = Fallback
  BY DEF Init, Defaults
<1>5. OneReader
  BY <1>1 DEF OneReader
<1>6. Reviewed
  BY <1>2, <1>3, SeedRowFields DEF Reviewed
<1>7. KnownOnly
  BY <1>4 DEF KnownOnly, Known
<1> QED
  BY <1>5, <1>6, <1>7, InitTyped DEF ReviewIInv

LEMMA ReviewInvariant == Spec => []ReviewIInv
<1> QED  BY ReviewInit, ReviewInductive, PTL DEF Spec

(* Where requests do not overlap, the expression of an ACTIVE row is what  *)
(* onboarding stored, or was submitted and approved as it stands.          *)
THEOREM ActiveRowsWereReviewed == Spec => []ActiveWasReviewed
<1>1. ReviewIInv => ActiveWasReviewed
  BY DEF ReviewIInv, Reviewed, ActiveWasReviewed
<1> QED  BY <1>1, ReviewInvariant, PTL

(* And no cache, expiry or failure gives an engine run anything else.      *)
THEOREM EnginesUseReviewed == Spec => []EngineUsesReviewed
<1>1. ReviewIInv => EngineUsesReviewed
  BY DEF ReviewIInv, KnownOnly, Known, EngineUsesReviewed
<1> QED  BY <1>1, ReviewInvariant, PTL

-----------------------------------------------------------------------------
(* What was approved is served.                                            *)

RowsMade ==
    /\ \A r \in Row : r[2] > made[r[1]] => rows[r].status = "NONE"
    /\ \A q \in Requests : request[q].pc = "read" => request[q].row[2] <= made[request[q].row[1]]

NonePending == \A q \in Requests : request[q].op = "approve" => request[q].pc # "invalidate"

Served ==
    /\ \A e \in Engines : engine[e].pc = "rules_read" => engine[e].rules = InForce
    /\ \A k \in Keys :
          made[k] > 0 /\ rows[<<k, made[k]>>].status = "ACTIVE" /\ redis.rules = "set" /\ NonePending
             => redis.exprs[k] = rows[<<k, made[k]>>].expr

ServedIInv == TypeOK /\ RowsMade /\ (Without({"stale_fill", "failures", "re-add"}) => Served)

LEMMA MadeAfter ==
    ASSUME TypeOK, NEW q \in Requests, RequestBegin(q) \/ RequestStep(q), NEW k \in Keys
    PROVE  /\ made[k] \in Nat /\ made'[k] \in Nat /\ made[k] <= made'[k]
           /\ made'[k] # made[k] => made'[k] = made[k] + 1
           /\ \A expr \in Drafts : CreateRule(q, k, expr) => made'[k] = made[k] + 1
           /\ AddCarrier(q) => made'[k] = made[k] + 1
           /\ \/ made'[k] = made[k] \/ AddCarrier(q)
              \/ \E expr \in Drafts : CreateRule(q, k, expr)
<1>1. made \in [Keys -> Nat] /\ made[k] \in Nat
  BY RulesAssumption DEF TypeOK, RulesAssumption
<1>2. ASSUME NEW j \in Keys, NEW expr \in Drafts, CreateRule(q, j, expr)
      PROVE  made'[k] = IF k = j THEN made[k] + 1 ELSE made[k]
  BY <1>1, <1>2 DEF CreateRule
<1>3. AddCarrier(q) => made'[k] = made[k] + 1
  BY DEF AddCarrier
<1>4. UNCHANGED made \/ AddCarrier(q) \/ \E j \in Keys, expr \in Drafts : CreateRule(q, j, expr)
  BY DEF RequestBegin, RequestStep, TransitionRead, EditRead, UpdateCarrierConfig,
         UpdateTenantConfig, Invalidate, RequestDies, TransitionWrite, EditWrite
<1> QED
  BY <1>1, <1>2, <1>3, <1>4

LEMMA RowsMadeStep ==
    ASSUME TypeOK, RowsMade, NEW q \in Requests, RequestBegin(q) \/ RequestStep(q)
    PROVE  RowsMade'
<1>1. ASSUME NEW r \in Row, r[2] > made'[r[1]]
      PROVE  rows'[r].status = "NONE"
  <2>1. r[1] \in Keys /\ r[2] \in Nat /\ r = <<r[1], r[2]>>
    BY RulesAssumption DEF Row, RulesAssumption
  <2>2. PICK k \in Keys, n \in Nat : k = r[1] /\ n = r[2]
    BY <2>1
  <2>3. made[k] \in Nat /\ made'[k] \in Nat /\ made[k] <= made'[k] /\ n > made'[k] /\ n > made[k]
    BY <1>1, <2>2, MadeAfter
  <2>4. rows[r].status = "NONE"
    BY <2>2, <2>3 DEF RowsMade
  <2>5. ~(request[q].pc = "read" /\ r = request[q].row)
    BY <2>2, <2>3 DEF RowsMade
  <2>6. ~\E j \in Keys, expr \in Drafts : CreateRule(q, j, expr) /\ r = <<j, made[j] + 1>>
    BY <2>2, <2>3, MadeAfter
  <2>7. ~(AddCarrier(q) /\ r[2] = made[r[1]] + 1)
    BY <2>2, <2>3, MadeAfter
  <2> QED
    BY <2>4, <2>5, <2>6, <2>7, RowsAfter DEF TransitionWrite, EditWrite
<1>2. ASSUME NEW p \in Requests, request'[p].pc = "read"
      PROVE  request'[p].row[2] <= made'[request'[p].row[1]]
  <2>1. PICK r \in Row : r = request'[p].row
    <3>1. request'[p] \in RequestRec
      BY RequestTyped DEF TypeOK
    <3> QED
      BY <3>1 DEF RequestRec
  <2>2. r[1] \in Keys /\ r[2] \in Nat
    BY RulesAssumption DEF Row, RulesAssumption
  <2>3. r[2] <= made[r[1]]
    <3>1. CASE p # q
      <4>1. request'[p] = request[p]
        BY <3>1, RequestAfter
      <4> QED
        BY <1>2, <2>1, <4>1 DEF RowsMade
    <3>2. CASE p = q
      <4>1. request[q].pc = "idle"
        <5>1. SUFFICES ASSUME RequestStep(q) PROVE request'[q].pc # "read"
          BY <1>2, <3>2
          DEF RequestBegin, TransitionRead, EditRead, CreateRule, AddCarrier,
              UpdateCarrierConfig, UpdateTenantConfig, MayBegin
        <5>2. PICK pc \in {"done", "failed", "invalidate"} : Goto(q, pc)
          BY <5>1 DEF RequestStep, TransitionWrite, EditWrite, Invalidate, RequestDies
        <5> QED
          BY <5>2 DEF Goto, TypeOK, RequestRec
      <4>2. RequestBegin(q)
        BY <4>1 DEF RequestStep, TransitionWrite, EditWrite, Invalidate, RequestDies
      <4>3. request \in [Requests -> RequestRec] /\ request[q] \in RequestRec
        BY DEF TypeOK
      <4>4. ASSUME NEW op, NEW s, NEW expr, NEW pc, Begin(q, pc, op, s, expr)
            PROVE  request'[q].row = s /\ request'[q].pc = pc
        BY <4>3, <4>4 DEF Begin, RequestRec
      <4>5. ~AddCarrier(q) /\ ~\E k \in Keys, expr \in Drafts : CreateRule(q, k, expr)
        <5>1. request'[q].pc # "done"
          BY <1>2, <3>2
        <5>2. ~AddCarrier(q)
          BY <4>4, <5>1 DEF AddCarrier
        <5>3. ASSUME NEW k \in Keys, NEW expr \in Drafts PROVE ~CreateRule(q, k, expr)
          BY <4>4, <5>1 DEF CreateRule
        <5> QED
          BY <5>2, <5>3
      <4>6. ASSUME NEW value \in {"true", "false"} PROVE ~UpdateCarrierConfig(q, value)
        BY <1>2, <3>2, <4>3 DEF UpdateCarrierConfig, RequestRec
      <4>7. ASSUME NEW value \in {"true", "false"} PROVE ~UpdateTenantConfig(q, value)
        BY ZenonT(30), <1>2, <3>2, <4>3 DEF UpdateTenantConfig, RequestRec
      <4>8. rows[r].status # "NONE"
        BY <2>1, <3>2, <4>2, <4>4, <4>5, <4>6, <4>7
        DEF RequestBegin, TransitionRead, EditRead, ValidTransitions
      <4>9. ~(r[2] > made[r[1]])
        BY <4>8 DEF RowsMade
      <4> QED
        BY <2>2, <4>9, MadeAfter
    <3> QED
      BY <3>1, <3>2
  <2>4. PICK k \in Keys : k = r[1]
    BY <2>2
  <2>5. made[k] \in Nat /\ made'[k] \in Nat /\ made[k] <= made'[k]
    BY MadeAfter
  <2>6. r[2] <= made'[k]
    BY <2>2, <2>3, <2>4, <2>5
  <2> QED
    BY <2>1, <2>4, <2>6
<1> QED
  BY <1>1, <1>2 DEF RowsMade

(* An ACTIVE row that is the last of its key is the one in force.          *)
LEMMA LastIsInForce ==
    ASSUME TypeOK, RowsMade, NEW k \in Keys, made[k] > 0, rows[<<k, made[k]>>].status = "ACTIVE"
    PROVE  InForce[k] = rows[<<k, made[k]>>].expr
<1>1. MaxRows \in Nat /\ made[k] \in 1 .. MaxRows
  BY RulesAssumption DEF RulesAssumption, TypeOK
<1>2. made[k] \in ActiveRows(k)
  BY <1>1 DEF ActiveRows
<1>3. \A m \in ActiveRows(k) : m \in Nat /\ m <= made[k]
  <2> TAKE m \in ActiveRows(k)
  <2>1. m \in 1 .. MaxRows /\ rows[<<k, m>>].status = "ACTIVE" /\ <<k, m>> \in Row
    BY DEF ActiveRows, Row
  <2>2. ~(m > made[k])
    BY <2>1 DEF RowsMade
  <2> QED
    BY <1>1, <2>1, <2>2
<1>4. \E n \in ActiveRows(k) : \A m \in ActiveRows(k) : m <= n
  BY <1>2, <1>3
<1>5. Newest(k) \in ActiveRows(k) /\ \A m \in ActiveRows(k) : m <= Newest(k)
  BY <1>4 DEF Newest
<1>6. Newest(k) = made[k]
  BY <1>1, <1>2, <1>3, <1>5
<1> QED
  BY <1>2, <1>6 DEF InForce

LEMMA ServedStep ==
    ASSUME TypeOK, RowsMade, events \cap {"stale_fill", "failures", "re-add"} = {}, Served,
           NEW q \in Requests, RequestBegin(q) \/ RequestStep(q)
    PROVE  Served'
<1>1. UNCHANGED engine
  BY RequestAfter
<1>2. ASSUME NEW e \in Engines, engine'[e].pc = "rules_read"
      PROVE  engine'[e].rules = InForce'
  <2>1. UNCHANGED rows
    <3>1. ~MayCommit
      BY <1>1, <1>2 DEF MayCommit
    <3> QED
      BY <3>1 DEF RequestBegin, RequestStep, TransitionRead, EditRead, CreateRule, AddCarrier,
         UpdateCarrierConfig, UpdateTenantConfig, TransitionWrite, EditWrite, Invalidate, RequestDies
  <2>2. InForce' = InForce
    BY <2>1 DEF InForce, ActiveRows, Newest
  <2> QED
    BY <1>1, <1>2, <2>2 DEF Served
<1>3. ASSUME NEW k \in Keys, made'[k] > 0, rows'[<<k, made'[k]>>].status = "ACTIVE",
             redis'.rules = "set", NonePending'
      PROVE  redis'.exprs[k] = rows'[<<k, made'[k]>>].expr
  <2>1. ~AddCarrier(q) /\ ~RequestDies(q)
    BY DEF AddCarrier, RequestDies, MayBegin
  <2>2. ~(Invalidate(q) /\ request[q].op = "approve")
    BY <1>3 DEF Invalidate, TypeOK, RedisRec
  <2>3. redis'.rules = redis.rules /\ redis'.exprs = redis.exprs
    <3>1. CASE Invalidate(q)
      BY <2>2, <3>1 DEF Invalidate, TypeOK, RedisRec
    <3>2. CASE ~Invalidate(q)
      BY <3>2 DEF RequestBegin, RequestStep, TransitionRead, EditRead, CreateRule, AddCarrier,
         UpdateCarrierConfig, UpdateTenantConfig, TransitionWrite, EditWrite, RequestDies
    <3> QED
      BY <3>1, <3>2
  <2>4. NonePending
    <3>1. SUFFICES ASSUME request[q].op = "approve", request[q].pc = "invalidate" PROVE FALSE
      BY <1>3, RequestAfter DEF NonePending
    <3>2. Invalidate(q)
      BY <2>1, <3>1 DEF RequestBegin, RequestStep, TransitionRead, EditRead, CreateRule, AddCarrier,
         UpdateCarrierConfig, UpdateTenantConfig, TransitionWrite, EditWrite, MayBegin
    <3> QED
      BY <2>2, <3>1, <3>2
  <2>5. PICK n : n = made'[k]
    OBVIOUS
  <2>6. n \in 1 .. MaxRows /\ <<k, n>> \in Row
    <3>1. made'[k] \in 0 .. MaxRows /\ MaxRows \in Nat
      BY RequestTyped, RulesAssumption DEF TypeOK, RulesAssumption
    <3>2. n \in 1 .. MaxRows
      BY <1>3, <2>5, <3>1
    <3> QED
      BY <3>2 DEF Row
  <2>7. rows'[<<k, n>>].status = "ACTIVE"
    BY <1>3, <2>5
  <2>8. \A expr \in Drafts : ~CreateRule(q, k, expr)
    <3> SUFFICES ASSUME NEW expr \in Drafts, CreateRule(q, k, expr) PROVE FALSE
      OBVIOUS
    <3>1. n = made[k] + 1
      BY <2>5, MadeAfter
    <3>2. rows' = [rows EXCEPT ![<<k, n>>] =
                      [NoRow EXCEPT !.status = "DRAFT", !.expr = expr, !.editable = TRUE]]
      BY <3>1 DEF CreateRule
    <3>3. [NoRow EXCEPT !.status = "DRAFT", !.expr = expr, !.editable = TRUE].status = "DRAFT"
      BY DEF NoRow
    <3>4. rows'[<<k, n>>].status = "DRAFT"
      BY <2>6, <3>2, <3>3 DEF TypeOK
    <3> QED
      BY <2>7, <3>4
  <2>9. made'[k] = made[k]
    BY <2>1, <2>8, MadeAfter
  <2>10. rows'[<<k, n>>] = rows[<<k, n>>]
    <3>1. ASSUME TransitionWrite(q), <<k, n>> = request[q].row,
                 rows'[<<k, n>>] = [rows[<<k, n>>] EXCEPT !.status = Target[request[q].op],
                       !.submitted = rows[<<k, n>>].submitted \/ request[q].op = "submit",
                       !.approved = rows[<<k, n>>].approved \/ request[q].op = "approve"]
          PROVE  FALSE
      <4>1. rows'[<<k, n>>].status = Target[request[q].op]
        BY <2>6, <3>1 DEF TypeOK, RowRec
      <4>2. request[q].op = "approve"
        BY <2>7, <3>1, <4>1 DEF TransitionWrite, Target
      <4>3. Goto(q, "invalidate")
        BY <3>1, <4>2 DEF TransitionWrite
      <4>4. request'[q].pc = "invalidate"
        BY <4>3 DEF Goto, TypeOK, RequestRec
      <4>5. request'[q].op = "approve"
        BY <3>1, <4>2, RequestAfter DEF TransitionWrite
      <4> QED
        BY <1>3, <4>4, <4>5 DEF NonePending
    <3> QED
      BY <2>1, <2>6, <2>7, <3>1, RowsAfter
  <2> QED
    BY <1>3, <2>3, <2>4, <2>5, <2>7, <2>9, <2>10 DEF Served
<1> QED
  BY <1>2, <1>3 DEF Served

LEMMA ServedEngine ==
    ASSUME TypeOK, RowsMade, events \cap {"stale_fill", "failures", "re-add"} = {}, Served,
           NEW e \in Engines, EngineStep(e) \/ \E override \in Switch : EngineStart(e, override)
    PROVE  Served'
<1>1. /\ UNCHANGED <<rows, made, request>>
      /\ \A d \in Engines \ {e} : engine'[d] = engine[d]
  BY EngineReads
<1>2. InForce' = InForce
  BY <1>1 DEF InForce, ActiveRows, Newest
<1>3. engine \in [Engines -> EngineRec] /\ redis \in RedisRec /\ engine[e] \in EngineRec
  BY DEF TypeOK
<1>4. engine'[e].pc = "rules_read" => engine'[e].rules = InForce
  <2>1. CASE EngineRulesQuery(e)
    BY <1>3, <2>1 DEF EngineRulesQuery, EngineRec
  <2>2. CASE EngineConfigHit(e) \/ EngineConfigFill(e)
    <3>1. PICK on : EngineDecide(e, on)
      BY <2>2 DEF EngineConfigHit, EngineConfigFill
    <3>2. engine'[e] = [engine[e] EXCEPT !.on = on, !.pc = IF on THEN "rules" ELSE "done"]
      BY <1>3, <3>1 DEF EngineDecide
    <3> QED
      BY <1>3, <3>2 DEF EngineRec
  <2>3. CASE EngineConfigMiss(e) \/ EngineRulesMiss(e) \/ EngineRulesFill(e)
    BY <1>3, <2>3 DEF EngineConfigMiss, EngineRulesMiss, EngineRulesFill, EngineGoto, EngineRec
  <2>4. CASE EngineConfigQuery(e)
    BY <1>3, <2>4 DEF EngineConfigQuery, EngineRec
  <2>5. CASE EngineRulesHit(e)
    BY <1>3, <2>5 DEF EngineRulesHit, EngineRec
  <2>6. ASSUME NEW override \in Switch, EngineStart(e, override)
        PROVE  engine'[e].pc # "rules_read"
    BY <1>3, <2>6 DEF EngineStart, EngineRec, Switch
  <2> QED
    BY <2>1, <2>2, <2>3, <2>4, <2>5, <2>6 DEF EngineStep
<1>5. \/ redis'.rules = redis.rules /\ redis'.exprs = redis.exprs
      \/ redis'.exprs = InForce
  <2>1. CASE EngineRulesFill(e)
    BY <1>3, <2>1 DEF EngineRulesFill, RedisRec, Served
  <2>2. CASE EngineConfigFill(e)
    BY <1>3, <2>2 DEF EngineConfigFill, RedisRec
  <2>3. CASE ~EngineRulesFill(e) /\ ~EngineConfigFill(e)
    BY <2>3 DEF EngineStep, EngineStart, EngineConfigHit, EngineConfigMiss, EngineConfigQuery,
         EngineRulesHit, EngineRulesMiss, EngineRulesQuery
  <2> QED
    BY <2>1, <2>2, <2>3
<1>6. \A d \in Engines : engine'[d].pc = "rules_read" => engine'[d].rules = InForce'
  BY <1>1, <1>2, <1>4 DEF Served
<1>7. NonePending' <=> NonePending
  BY <1>1 DEF NonePending
<1>8. ASSUME NEW k \in Keys, made'[k] > 0, rows'[<<k, made'[k]>>].status = "ACTIVE",
             redis'.rules = "set", NonePending'
      PROVE  redis'.exprs[k] = rows'[<<k, made'[k]>>].expr
  BY <1>1, <1>5, <1>7, <1>8, LastIsInForce DEF Served
<1> QED
  BY <1>6, <1>8 DEF Served

LEMMA ServedInductive == ServedIInv /\ [Next]_vars => ServedIInv'
<1> SUFFICES ASSUME ServedIInv, [Next]_vars PROVE ServedIInv'
  OBVIOUS
<1>1. TypeOK /\ TypeOK' /\ RowsMade
  BY StepTyped DEF ServedIInv
<1>2. ASSUME NEW q \in Requests, RequestBegin(q) \/ RequestStep(q)
      PROVE  ServedIInv'
  BY <1>1, <1>2, RowsMadeStep, ServedStep, RequestAfter DEF ServedIInv, Without
<1>3. ASSUME NEW e \in Engines, EngineStep(e) \/ \E override \in Switch : EngineStart(e, override)
      PROVE  ServedIInv'
  <2>1. UNCHANGED <<rows, made, request, events>>
    BY <1>1, <1>3, EngineReads
  <2>2. RowsMade'
    BY <1>1, <2>1 DEF RowsMade
  <2> QED
    BY <1>1, <1>3, <2>1, <2>2, ServedEngine DEF ServedIInv, Without
<1>4. CASE ExpireConfig \/ ExpireRules \/ UNCHANGED vars
  <2>1. UNCHANGED <<rows, made, request, engine, events>>
    BY <1>4 DEF ExpireConfig, ExpireRules, vars
  <2>2. redis'.rules = "none" \/ (redis'.rules = redis.rules /\ redis'.exprs = redis.exprs)
    BY <1>1, <1>4 DEF ExpireConfig, ExpireRules, vars, TypeOK, RedisRec
  <2>3. RowsMade' /\ (NonePending' <=> NonePending)
    BY <1>1, <2>1 DEF RowsMade, NonePending
  <2>4. InForce' = InForce
    BY <2>1 DEF InForce, ActiveRows, Newest
  <2>5. Served => Served'
    BY <2>1, <2>2, <2>3, <2>4 DEF Served
  <2> QED
    BY <1>1, <2>1, <2>3, <2>5 DEF ServedIInv, Without
<1> QED
  BY <1>2, <1>3, <1>4 DEF Next

LEMMA ServedInit == Init => ServedIInv
<1> SUFFICES ASSUME Init PROVE ServedIInv
  OBVIOUS
<1>1. \A r \in Row : r[1] \in Keys /\ r[2] \in Nat
  BY RulesAssumption DEF Row, RulesAssumption
<1>2. \A r \in Row : r[2] > made[r[1]] => rows[r] = NoRow
  <2> TAKE r \in Row
  <2>1. PICK onboarded \in BOOLEAN :
          /\ rows[r] = IF onboarded /\ r[2] = 1 THEN SeedRow(r[1]) ELSE NoRow
          /\ made[r[1]] = IF onboarded THEN 1 ELSE 0
    BY <1>1 DEF Init
  <2> QED
    BY <1>1, <2>1
<1>3. RowsMade
  BY <1>2 DEF RowsMade, NoRow, Init
<1>4. Served
  BY DEF Init, Served
<1> QED
  BY <1>3, <1>4, InitTyped DEF ServedIInv

LEMMA ServedInvariant == Spec => []ServedIInv
<1> QED  BY ServedInit, ServedInductive, PTL DEF Spec

(* Where no reader fills the cache late, no invalidation is lost and the   *)
(* carrier is not added again, no entry contradicts the newest row of a    *)
(* key once its approval has answered, however approvals, edits and the    *)
(* expiry of the entries interleave.                                       *)
THEOREM ApprovalsAreServed == Spec => []ApprovalIsServed
<1>1. ServedIInv => ApprovalIsServed
  BY DEF ServedIInv, Served, NonePending, ApprovalIsServed
<1> QED  BY <1>1, ServedInvariant, PTL

-----------------------------------------------------------------------------
(* The engine is off only where somebody said so.                          *)

ToldOff == \E q \in Requests : /\ request[q].op \in {"carrier_config", "tenant_config"}
                               /\ request[q].value = "false"

IdleIsBlank == \A q \in Requests : request[q].pc = "idle" => request[q].op = "none"

OffWasTold ==
    /\ config.tenant # "none"
    /\ config.carrier = "false" \/ config.tenant = "false" => ToldOff
    /\ redis.config = "false" => ToldOff
    /\ \A e \in Engines :
          /\ engine[e].pc = "config_read" /\ ~engine[e].on => ToldOff
          /\ engine[e].pc \in {"rules", "rules_missed", "rules_read"} => engine[e].on
          /\ engine[e].pc = "done" /\ ~engine[e].on => engine[e].override = "false" \/ ToldOff

OffIInv == TypeOK /\ IdleIsBlank /\ (Without({"tombstone"}) => OffWasTold)

LEMMA OffRequest ==
    ASSUME TypeOK, IdleIsBlank, OffWasTold, NEW q \in Requests, RequestBegin(q) \/ RequestStep(q)
    PROVE  OffWasTold'
<1>1. ToldOff => ToldOff'
  <2>1. SUFFICES ASSUME NEW p \in Requests, request[p].op \in {"carrier_config", "tenant_config"},
                        request[p].value = "false"
                 PROVE  /\ request'[p].op \in {"carrier_config", "tenant_config"}
                        /\ request'[p].value = "false"
    BY DEF ToldOff
  <2>2. request[p].pc # "idle"
    BY <2>1 DEF IdleIsBlank
  <2> QED
    BY <2>1, <2>2, RequestAfter
<1>2. UNCHANGED engine
  BY RequestAfter
<1>3. redis'.config = "false" => redis.config = "false"
  <2>1. CASE Invalidate(q)
    BY <2>1 DEF Invalidate, TypeOK, RedisRec
  <2>2. CASE ~Invalidate(q)
    BY <2>2 DEF RequestBegin, RequestStep, TransitionRead, EditRead, CreateRule, AddCarrier,
         UpdateCarrierConfig, UpdateTenantConfig, TransitionWrite, EditWrite, RequestDies
  <2> QED
    BY <2>1, <2>2
<1>4. ASSUME NEW value \in {"true", "false"},
             UpdateCarrierConfig(q, value) \/ UpdateTenantConfig(q, value)
      PROVE  /\ config'.tenant # "none"
             /\ config'.carrier = "false" \/ config'.tenant = "false" => ToldOff'
  <2>1. request \in [Requests -> RequestRec]
    BY DEF TypeOK
  <2>2. request'[q].op \in {"carrier_config", "tenant_config"} /\ request'[q].value = value
    <3>1. CASE UpdateCarrierConfig(q, value)
      BY <2>1, <3>1 DEF UpdateCarrierConfig, RequestRec
    <3>2. CASE UpdateTenantConfig(q, value)
      BY <2>1, <3>2 DEF UpdateTenantConfig, RequestRec
    <3> QED
      BY <1>4, <3>1, <3>2
  <2>3. value = "false" => ToldOff'
    BY <2>2 DEF ToldOff
  <2>4. \/ config' = [config EXCEPT !.carrier = value]
        \/ config' = [config EXCEPT !.tenant = value]
    BY <1>4 DEF UpdateCarrierConfig, UpdateTenantConfig
  <2> QED
    BY <1>1, <2>3, <2>4 DEF TypeOK, OffWasTold
<1>5. CASE AddCarrier(q)
  <2>1. config' = [config EXCEPT !.carrier = IF config.carrier = "none" THEN "true" ELSE config.carrier]
    BY <1>5 DEF AddCarrier
  <2> QED
    BY <1>1, <1>2, <1>3, <2>1 DEF TypeOK, OffWasTold
<1>6. UNCHANGED config \/ AddCarrier(q)
        \/ \E value \in {"true", "false"} : UpdateCarrierConfig(q, value) \/ UpdateTenantConfig(q, value)
  BY DEF RequestBegin, RequestStep, TransitionRead, EditRead, CreateRule, TransitionWrite, EditWrite,
         Invalidate, RequestDies
<1> QED
  BY <1>1, <1>2, <1>3, <1>4, <1>5, <1>6 DEF OffWasTold

LEMMA OffEngine ==
    ASSUME TypeOK, "tombstone" \notin events, OffWasTold,
           NEW e \in Engines, EngineStep(e) \/ \E override \in Switch : EngineStart(e, override)
    PROVE  OffWasTold'
<1>1. /\ UNCHANGED <<config, request>>
      /\ \A d \in Engines \ {e} : engine'[d] = engine[d]
  BY EngineReads
<1>2. ToldOff' <=> ToldOff
  BY <1>1 DEF ToldOff
<1>3. engine \in [Engines -> EngineRec] /\ redis \in RedisRec /\ engine[e] \in EngineRec
  BY DEF TypeOK
<1>4. redis'.config = "false" => ToldOff
  <2>1. CASE EngineConfigFill(e)
    BY <1>3, <2>1 DEF EngineConfigFill, RedisRec, OffWasTold
  <2>2. CASE EngineRulesFill(e)
    BY <1>3, <2>2 DEF EngineRulesFill, RedisRec, OffWasTold
  <2>3. CASE ~EngineConfigFill(e) /\ ~EngineRulesFill(e)
    BY <2>3 DEF EngineStep, EngineStart, EngineConfigHit, EngineConfigMiss, EngineConfigQuery,
         EngineRulesHit, EngineRulesMiss, EngineRulesQuery, OffWasTold
  <2> QED
    BY <2>1, <2>2, <2>3
<1> DEFINE Good ==
      /\ engine'[e].pc = "config_read" /\ ~engine'[e].on => ToldOff
      /\ engine'[e].pc \in {"rules", "rules_missed", "rules_read"} => engine'[e].on
      /\ engine'[e].pc = "done" /\ ~engine'[e].on => engine'[e].override = "false" \/ ToldOff
<1>5. Good
  <2>1. ASSUME NEW on \in BOOLEAN, EngineDecide(e, on), ~on => ToldOff
        PROVE  Good
    <3>1. engine'[e] = [engine[e] EXCEPT !.on = on, !.pc = IF on THEN "rules" ELSE "done"]
      BY <1>3, <2>1 DEF EngineDecide
    <3>2. engine'[e].on = on /\ engine'[e].pc = IF on THEN "rules" ELSE "done"
      BY <1>3, <3>1 DEF EngineRec
    <3> QED
      BY <2>1, <3>2
  <2>2. CASE EngineConfigHit(e)
    <3>1. redis.config # "true" => redis.config = "false"
      BY <1>3, <2>2 DEF EngineConfigHit, RedisRec, ConfigEntry
    <3>2. EngineDecide(e, redis.config = "true")
      BY <2>2 DEF EngineConfigHit
    <3>3. PICK on \in BOOLEAN : on <=> redis.config = "true"
      OBVIOUS
    <3>4. EngineDecide(e, on)
      BY <3>2, <3>3 DEF EngineDecide
    <3> QED
      BY <2>1, <3>1, <3>3, <3>4 DEF OffWasTold
  <2>3. CASE EngineConfigFill(e)
    <3>1. EngineDecide(e, engine[e].on) /\ engine[e].pc = "config_read"
      BY <2>3 DEF EngineConfigFill
    <3>2. PICK on \in BOOLEAN : on = engine[e].on
      BY <1>3 DEF EngineRec
    <3>3. EngineDecide(e, on)
      BY <3>1, <3>2 DEF EngineDecide
    <3> QED
      BY <2>1, <3>1, <3>2, <3>3 DEF OffWasTold
  <2>4. CASE EngineConfigQuery(e)
    <3>1. engine'[e] = [engine[e] EXCEPT !.on = Configured = "true", !.pc = "config_read"]
      BY <1>3, <2>4 DEF EngineConfigQuery
    <3>2. engine'[e].on = (Configured = "true") /\ engine'[e].pc = "config_read"
      BY <1>3, <3>1 DEF EngineRec
    <3>3. Configured # "true" => Configured = "false"
      BY DEF Configured, TypeOK, Switch, OffWasTold
    <3>4. Configured = "false" => ToldOff
      BY DEF Configured, OffWasTold
    <3> QED
      BY <3>2, <3>3, <3>4
  <2>5. ASSUME NEW pc \in {"config_missed", "rules_missed", "done"}, EngineGoto(e, pc),
               pc # "config_missed" => engine[e].pc \in {"rules", "rules_missed", "rules_read"}
        PROVE  Good
    <3>1. engine'[e].pc = pc /\ engine'[e].on = engine[e].on
      BY <1>3, <2>5 DEF EngineGoto, EngineRec
    <3>2. pc # "config_missed" => engine[e].on
      BY <2>5 DEF OffWasTold
    <3> QED
      BY <2>5, <3>1, <3>2
  <2>6. CASE EngineConfigMiss(e)
    BY <2>5, <2>6 DEF EngineConfigMiss
  <2>7. CASE EngineRulesMiss(e)
    BY <2>5, <2>7 DEF EngineRulesMiss
  <2>8. CASE EngineRulesFill(e)
    BY <2>5, <2>8 DEF EngineRulesFill
  <2>9. ASSUME NEW found, NEW pc \in {"done", "rules_read"},
               engine' = [engine EXCEPT ![e] = [@ EXCEPT !.rules = found, !.pc = pc]],
               engine[e].pc \in {"rules", "rules_missed"}
        PROVE  Good
    <3>1. engine'[e] = [engine[e] EXCEPT !.rules = found, !.pc = pc]
      BY <1>3, <2>9
    <3>2. engine'[e].on = engine[e].on /\ engine'[e].pc = pc
      BY <1>3, <3>1 DEF EngineRec
    <3>3. engine[e].on
      BY <2>9 DEF OffWasTold
    <3> QED
      BY <3>2, <3>3
  <2>11. CASE EngineRulesHit(e)
    BY <2>9, <2>11 DEF EngineRulesHit
  <2>12. CASE EngineRulesQuery(e)
    BY <2>9, <2>12 DEF EngineRulesQuery
  <2>10. ASSUME NEW override \in Switch, EngineStart(e, override)
         PROVE  Good
    <3>1. /\ engine'[e].on = (override = "true") /\ engine'[e].override = override
          /\ engine'[e].pc = CASE override = "none"  -> "config"
                               [] override = "true"  -> "rules"
                               [] override = "false" -> "done"
      BY <1>3, <2>10 DEF EngineStart
    <3> QED
      BY <2>10, <3>1 DEF Switch
  <2> QED
    BY <2>2, <2>3, <2>4, <2>6, <2>7, <2>8, <2>10, <2>11, <2>12 DEF EngineStep
<1> QED
  BY <1>1, <1>2, <1>4, <1>5 DEF OffWasTold

LEMMA OffInductive == OffIInv /\ [Next]_vars => OffIInv'
<1> SUFFICES ASSUME OffIInv, [Next]_vars PROVE OffIInv'
  OBVIOUS
<1>1. TypeOK /\ TypeOK' /\ IdleIsBlank
  BY StepTyped DEF OffIInv
<1>2. ASSUME NEW q \in Requests, RequestBegin(q) \/ RequestStep(q)
      PROVE  OffIInv'
  <2>1. IdleIsBlank'
    BY <1>1, <1>2, RequestAfter DEF IdleIsBlank
  <2> QED
    BY <1>1, <1>2, <2>1, OffRequest, RequestAfter DEF OffIInv, Without
<1>3. ASSUME NEW e \in Engines, EngineStep(e) \/ \E override \in Switch : EngineStart(e, override)
      PROVE  OffIInv'
  <2>1. UNCHANGED <<request, events>>
    BY <1>1, <1>3, EngineReads
  <2>2. IdleIsBlank'
    BY <1>1, <2>1 DEF IdleIsBlank
  <2> QED
    BY <1>1, <1>3, <2>1, <2>2, OffEngine DEF OffIInv, Without
<1>4. CASE ExpireConfig \/ ExpireRules \/ UNCHANGED vars
  <2>1. UNCHANGED <<config, request, engine, events>> /\ redis'.config \in {redis.config, "none"}
    BY <1>1, <1>4 DEF ExpireConfig, ExpireRules, vars, TypeOK, RedisRec
  <2> QED
    BY <1>1, <2>1 DEF OffIInv, Without, OffWasTold, IdleIsBlank, ToldOff
<1> QED
  BY <1>2, <1>3, <1>4 DEF Next

LEMMA OffInit == Init => OffIInv
<1> SUFFICES ASSUME Init PROVE OffIInv
  OBVIOUS
<1>1. config.tenant = "true" /\ config.carrier # "false"
  BY DEF Init
<1>2. IdleIsBlank
  BY DEF Init, IdleIsBlank
<1>3. redis.config = "none" /\ \A e \in Engines : engine[e].pc = "idle"
  BY DEF Init
<1> QED
  BY <1>1, <1>2, <1>3, InitTyped DEF OffIInv, OffWasTold

LEMMA OffInvariant == Spec => []OffIInv
<1> QED  BY OffInit, OffInductive, PTL DEF Spec

(* A run that does not read what an invalidation left is without the       *)
(* engine only if its row, the carrier or the tenant was told so, through  *)
(* the cache, its expiry and its failures.                                 *)
THEOREM EngineOffWasConfigured == Spec => []OffWasConfigured
<1>1. OffIInv => OffWasConfigured
  BY DEF OffIInv, OffWasTold, ToldOff, OffWasConfigured, ModeHasThreeLevels
<1> QED  BY <1>1, OffInvariant, PTL
=================================================================================
