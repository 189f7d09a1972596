------------------------------- MODULE AuditEngine -------------------------------
(***************************************************************************)
(* The calculation engine, AuditCalculationService.run, step by step: a    *)
(* task goes through the policies of a run when the pipeline of the run    *)
(* ends, and through one of them when an auditor calls run_audit, which    *)
(* then narrates all of them. The engine is on here: CalcRules models the  *)
(* switch. The runs are in the mode calc_engine.                           *)
(***************************************************************************)
EXTENDS FileParsers

Automatic(t) == t <= MaxRuns

Newest(r) == \A q \in Runs : run[q] = "complete" => q <= r

(* The policies with a row of the run; those of a file that writes none    *)
(* are found by the samples of its mapping.                                *)
AuditPolicies(r) ==
    LET rows == {p \in Policies : \/ pv[p][r].id # 0 \/ pvp[p][r].row
                                  \/ pvc[p][r].busy + pvc[p][r].idle + zero[p][r] + missing[p][r] > 0}
    IN  IF rows # {} THEN {rows}
        ELSE {{}, {p \in File(r).policies : policy[p].known}}

(* The status of the run is not asked for.                                 *)
AuditStart(t, r) ==
    /\ ~Automatic(t) /\ task[t].pc = "none"
    /\ \A u \in Tasks : ~Automatic(u) /\ u < t => task[u].pc # "none"
    /\ r \in DOMAIN scenario.files /\ run[r] \in {"complete", "failed", "rolled_back"}
    /\ Event("late_audit") \/ (Event("audit") /\ Newest(r))
    /\ Event("overlap") \/ Quiet
    /\ \E found \in AuditPolicies(r) :
          task' = [task EXCEPT ![t] = [NoTask EXCEPT !.pc = IF found = {} THEN "done" ELSE "read",
                                                     !.run = r, !.todo = found]]
    /\ UNCHANGED <<policy, facts, run, scenario>>

(* calc_premium_variance with the rule as it is seeded.                    *)
Pct(row) == IF row.id = 0 \/ row.est = 0 THEN None ELSE ((row.act - row.est) * 100) \div row.est

Share(part, whole) == IF whole = 0 THEN None ELSE (part * 100) \div whole

(* calc_payroll_variance: the estimate, which the parser prorated already, *)
(* is prorated again, and the report when it is the same amount.           *)
ReportedShare(p, row) ==
    LET est == ToDate(row.est, policy[p].freq, policy[p].dated)
    IN  Share(IF row.rep = row.est THEN est ELSE row.rep, est)

ReportedAmount(p, row) ==
    IF row.rep = row.est THEN ToDate(row.est, policy[p].freq, policy[p].dated) ELSE row.rep

(* _build_context and the arithmetic on it: the rows of this very run.     *)
ReadContext(t) ==
    LET r == task[t].run IN
    /\ task[t].pc = "read"
    /\ \E p \in task[t].todo :
          /\ Automatic(t) \/ p = Min(task[t].todo)
          /\ task' = [task EXCEPT ![t] =
                [@ EXCEPT !.pc = "zero", !.policy = p, !.pct = Pct(pv[p][r]),
                          !.reported = ReportedAmount(p, pvp[p][r]),
                          !.share = ReportedShare(p, pvp[p][r])]]
    /\ UNCHANGED <<policy, facts, run, scenario>>

(* No constraint of the table makes a second row conflict with the first.  *)
DetectZero(t) ==
    LET p == task[t].policy
        r == task[t].run
    IN  /\ task[t].pc = "zero"
        /\ zero' = [zero EXCEPT ![p][r] = @ + pvc[p][r].idle]
        /\ task' = [task EXCEPT ![t].pc = "missing"]
        /\ UNCHANGED <<policy, pv, pvp, pvc, missing, run, scenario>>

(* The periods after those received, except one that is due and not yet    *)
(* one and a half cycles late; one that is not yet due counts.             *)
MissingPeriods(p) ==
    LET cycle == CycleDays(policy[p].freq)
        received == Received(p)
        expected == AtLeastOne(TermDays \div cycle)
        Overdue(i) == LET days == Today - cycle * i IN days <= 0 \/ 2 * days > 3 * cycle
    IN  IF ~policy[p].dated \/ policy[p].freq = "none" THEN 0
        ELSE Cardinality({i \in received .. expected - 1 : Overdue(i)})

MissingCount(p) == IF MissingRows(p) > 0 THEN MissingRows(p) ELSE MissingPeriods(p)

(* Mutant: the explicit rows alone.                                        *)
DetectMissing_explicitOnly(t) ==
    /\ task[t].pc = "missing"
    /\ task' = [task EXCEPT ![t].pc = "risk", ![t].missing = MissingRows(task[t].policy)]
    /\ UNCHANGED <<policy, facts, run, scenario>>

(* The INSERT of the periods found names columns the table has not, and    *)
(* its exception is passed over: nothing is stored.                        *)
DetectMissing(t) ==
    /\ task[t].pc = "missing"
    /\ task' = [task EXCEPT ![t].pc = "risk", ![t].missing = MissingCount(task[t].policy)]
    /\ UNCHANGED <<policy, facts, run, scenario>>

(* The rules of the risk; the threshold is in per cent of a ratio.         *)
Assess(pct, gaps) ==
    LET off == pct # None /\ (IF pct < 0 THEN -pct ELSE pct) > scenario.threshold
    IN  CASE off /\ gaps > 0 -> "High" [] off \/ gaps > 0 -> "Medium" [] OTHER -> "Low"

OutOfBounds(p, amount) == policy[p].owner = "Included" /\ (amount > 52000 \/ amount < 15600)

(* The note for an officer goes to a column that does not exist: the       *)
(* rollback that follows takes the risk with it.                           *)
UpdateRisk(t) ==
    LET p == task[t].policy IN
    /\ task[t].pc = "risk"
    /\ policy' = IF OutOfBounds(p, task[t].reported) THEN policy
                 ELSE [policy EXCEPT ![p].risk = Assess(task[t].pct, task[t].missing)]
    /\ task' = [task EXCEPT ![t].pc = "persist"]
    /\ UNCHANGED <<facts, run, scenario>>

(* The next policy of the run, or the narratives of an audit.              *)
After(t, left) ==
    [task EXCEPT ![t] =
        IF Automatic(t) THEN [@ EXCEPT !.pc = IF left = {} THEN "done" ELSE "read", !.todo = left]
                   ELSE [@ EXCEPT !.pc = "narrate"]]

(* Mutant: ORDER BY pv_id ASC.                                             *)
Persist_oldest(t) ==
    LET p == task[t].policy
        oldest == CHOOSE r \in PremiumRuns(p) : \A q \in PremiumRuns(p) : pv[p][q].id >= pv[p][r].id
        summary == {r \in Runs : pvp[p][r].row}
    IN  /\ task[t].pc = "persist"
        /\ pv' = IF PremiumRuns(p) = {} THEN pv
                 ELSE [pv EXCEPT ![p][oldest].pct =
                          IF task[t].pct # None \/ pv[p][oldest].act = 0 THEN task[t].pct
                          ELSE Pct(pv[p][oldest])]
        /\ pvp' = IF summary = {} THEN pvp ELSE [pvp EXCEPT ![p][Max(summary)].pct = task[t].share]
        /\ task' = After(t, task[t].todo \ {p})
        /\ UNCHANGED <<policy, pvc, zero, missing, run, scenario>>

(* The percentage of the context goes to the newest premium row of the     *)
(* policy, of whatever run, and without one the row gets its own.          *)
Persist(t) ==
    LET p == task[t].policy
        summary == {r \in Runs : pvp[p][r].row}
    IN  /\ task[t].pc = "persist"
        /\ pv' = IF PremiumRuns(p) = {} THEN pv
                 ELSE [pv EXCEPT ![p][NewestPremium(p)].pct =
                          IF task[t].pct # None \/ pv[p][NewestPremium(p)].act = 0 THEN task[t].pct
                          ELSE Pct(pv[p][NewestPremium(p)])]
        /\ pvp' = IF summary = {} THEN pvp ELSE [pvp EXCEPT ![p][Max(summary)].pct = task[t].share]
        /\ task' = After(t, task[t].todo \ {p})
        /\ UNCHANGED <<policy, pvc, zero, missing, run, scenario>>

(* run_audit tells of every policy, by the model or by the fallback text.  *)
Narrate(t) ==
    LET p == Min(task[t].todo)
        left == task[t].todo \ {p}
    IN  /\ task[t].pc = "narrate"
        /\ \E said \in IF Event("failures") THEN {"text", "fallback", policy[p].narrative} ELSE {"text"} :
              policy' = [policy EXCEPT ![p].narrative = said]
        /\ task' = [task EXCEPT ![t].todo = left, ![t].pc = IF left = {} THEN "done" ELSE @]
        /\ UNCHANGED <<facts, run, scenario>>

(* An exception is logged and the next policy is tried, in a transaction   *)
(* that is lost when it was a statement that failed; run_audit gives up.   *)
EngineFails(t) ==
    /\ Event("failures")
    /\ task[t].pc \in {"zero", "missing", "risk", "persist"}
    /\ \E left \in {{}, task[t].todo \ {task[t].policy}} :
          task' = [task EXCEPT ![t].pc = IF Automatic(t) /\ left # {} THEN "read" ELSE "done",
                               ![t].todo = left]
    /\ UNCHANGED <<policy, facts, run, scenario>>

EngineStep(t) ==
    \/ \E r \in Runs : AuditStart(t, r)
    \/ ReadContext(t) \/ DetectZero(t) \/ DetectMissing(t) \/ UpdateRisk(t) \/ Persist(t)
    \/ Narrate(t) \/ EngineFails(t)
==================================================================================
