------------------------------- MODULE FileParsers -------------------------------
(***************************************************************************)
(* The parsers of ingestion_service.py, commit by commit: the structured   *)
(* audit report, the XML policy, and the sheets and CSV files that are     *)
(* routed by the columns their mapping gave them.                          *)
(***************************************************************************)
EXTENDS FactTables

File(r) == scenario.files[r]

Event(e) == e \in scenario.events

(* _process_sheet and _process_csv_rows: the first route whose columns are *)
(* there, all from one sheet.                                              *)
Route(columns) ==
    CASE {"wages", "class_code"} \subseteq columns -> "payroll_detail"
      [] columns \cap {"est_payroll", "actual_payroll_reported"} # {} -> "payroll_summary"
      [] columns \cap {"est_premium_end", "actual_premium"} # {} -> "premium"
      [] columns \cap {"reason_code", "report_date"} # {} -> "zero"
      [] columns \cap {"expected_period_start", "days_overdue"} # {} -> "missing"
      [] "policy_number" \in columns -> "policies"
      [] OTHER -> "nothing"

Parsing == {"policy", "rows", "clear", "summary", "periods", "premium", "finish"}

Quiet == /\ \A r \in Runs : run[r] \notin Parsing \cup {"rolling_back"}
         /\ \A t \in Tasks : task[t].pc \in {"none", "done"}

Kind(r) == IF File(r).format \in {"audit_report", "xml"} THEN File(r).format
                                                       ELSE Route(File(r).columns)

Undated(f) == f.format = "audit_report" /\ ~f.dated

Goto(r, pc) == run' = [run EXCEPT ![r] = pc]

Upload(r) ==
    /\ r \in DOMAIN scenario.files
    /\ run[r] = "none" /\ \A q \in Runs : q < r => run[q] # "none"
    /\ Event("overlap") \/ Quiet
    /\ Goto(r, IF Kind(r) \in {"audit_report", "xml"} THEN "policy" ELSE "rows")
    /\ UNCHANGED <<policy, facts, task, scenario>>

(* _ensure_policy: what a file does not say stays as it is. *)
Ensured(f) ==
    [p \in Policies |->
        IF p \notin f.policies THEN policy[p]
        ELSE [policy[p] EXCEPT !.known = TRUE, !.dated = @ \/ f.dated]]

(* The audit report goes on to the frequency and the owner. *)
Enriched(f) ==
    [p \in Policies |->
        IF p \notin f.policies THEN policy[p]
        ELSE [policy[p] EXCEPT !.known = TRUE, !.dated = @ \/ f.dated,
                               !.freq = IF f.freq = "none" THEN @ ELSE f.freq,
                               !.owner = IF f.owner = "none" THEN @ ELSE f.owner]]

ParsePolicy(r) ==
    /\ run[r] = "policy"
    /\ policy' = IF Kind(r) = "xml" THEN Ensured(File(r)) ELSE Enriched(File(r))
    /\ Goto(r, "rows")
    /\ UNCHANGED <<facts, task, scenario>>

(* The rows of the policies of a file. *)
Put(table, f, r, row) ==
    [p \in Policies |-> IF p \in f.policies THEN [table[p] EXCEPT ![r] = row] ELSE table[p]]

PutPremium(f, r, est, act) ==
    [p \in Policies |->
        IF p \in f.policies
        THEN [pv[p] EXCEPT ![r] = [id |-> NewId(f, p), est |-> est, act |-> act, pct |-> None,
                                   estFrom |-> r, actFrom |-> r]]
        ELSE pv[p]]

ParseDetail(r) ==
    LET f == File(r) IN
    /\ Kind(r) = "payroll_detail"
    /\ pvc' = Put(pvc, f, r, [busy |-> 1, idle |-> f.idle])
    /\ Goto(r, IF f.format = "csv" \/ f.earned = 0 THEN "finish" ELSE "premium")
    /\ UNCHANGED <<pv, pvp, zero, missing>>

(* The exposure assessed is both what is estimated and what is reported. *)
ParseAuditClasses(r) ==
    LET f == File(r) IN
    /\ Kind(r) = "audit_report"
    /\ pvc' = Put(pvc, f, r, [busy |-> 1, idle |-> f.idle])
    /\ Goto(r, "clear")
    /\ UNCHANGED <<pv, pvp, zero, missing>>

ParseSummary(r) ==
    LET f == File(r) IN
    /\ Kind(r) = "payroll_summary"
    /\ pvp' = IF f.payroll = 0 /\ f.earned = 0 THEN pvp
              ELSE Put(pvp, f, r, [row |-> TRUE, est |-> f.payroll, rep |-> f.earned,
                                        pct |-> None, periods |-> 0])
    /\ Goto(r, "finish")
    /\ UNCHANGED <<pv, pvc, zero, missing>>

ParsePremium(r) ==
    LET f == File(r) IN
    /\ Kind(r) = "premium"
    /\ pv' = PutPremium(f, r, f.premium, f.earned)
    /\ Goto(r, "finish")
    /\ UNCHANGED <<pvp, pvc, zero, missing>>

(* Its rates have an exposure and no wages. *)
ParseXml(r) ==
    LET f == File(r) IN
    /\ Kind(r) = "xml"
    /\ pvc' = Put(pvc, f, r, [busy |-> 0, idle |-> 1 + f.idle])
    /\ pv' = IF f.premium = 0 THEN pv ELSE PutPremium(f, r, f.premium, f.premium)
    /\ Goto(r, "finish")
    /\ UNCHANGED <<pvp, zero, missing>>

ParseList(r) ==
    LET f == File(r) IN
    /\ Kind(r) \in {"zero", "missing", "policies", "nothing"}
    /\ zero' = IF Kind(r) = "zero" THEN Put(zero, f, r, 1) ELSE zero
    /\ missing' = IF Kind(r) = "missing" THEN Put(missing, f, r, 1) ELSE missing
    /\ Goto(r, "finish")
    /\ UNCHANGED <<pv, pvp, pvc>>

ParseRows(r) ==
    /\ run[r] = "rows"
    /\ policy' = IF Kind(r) \in {"audit_report", "xml"} THEN policy ELSE Ensured(File(r))
    /\ \/ ParseDetail(r) \/ ParseAuditClasses(r) \/ ParseSummary(r)
       \/ ParsePremium(r) \/ ParseXml(r) \/ ParseList(r)
    /\ UNCHANGED <<task, scenario>>

(* The synthetic rows of every earlier report of the policy go. *)
ClearPeriods(r) ==
    /\ run[r] = "clear"
    /\ pvp' = [p \in Policies |->
                  IF p \in File(r).policies THEN [q \in Runs |-> [pvp[p][q] EXCEPT !.periods = 0]]
                  ELSE pvp[p]]
    /\ Goto(r, "summary")
    /\ UNCHANGED <<policy, pv, pvc, zero, missing, task, scenario>>

(* Without a date the column as_of_date refuses the row. The share of the  *)
(* reports that came in stands where the engine will put its percentage.   *)
WriteSummary(r) ==
    LET f == File(r)
        amount == ToDate(f.payroll, f.freq, f.dated)
    IN  /\ run[r] = "summary" /\ ~Undated(f)
        /\ pvp' = Put(pvp, f, r, [row |-> TRUE, est |-> amount, rep |-> amount,
                                  pct |-> (100 * f.submitted) \div Annual(f.freq), periods |-> 0])
        /\ Goto(r, "periods")
        /\ UNCHANGED <<policy, pv, pvc, zero, missing, task, scenario>>

DaysIn(year, month) ==
    CASE month = 2 -> IF year % 4 = 0 THEN 29 ELSE 28
      [] month \in {4, 6, 9, 11} -> 30
      [] OTHER -> 31

(* eff_dt.replace(year, month) raises when the month, so many months after *)
(* the effective date, has no such day.                                    *)
HasDay(date, months) ==
    date.day <= DaysIn(date.year + (date.month + months - 1) \div 12,
                       1 + ((date.month + months - 1) % 12))

(* The loop catches what a row raises and goes on to the next one.         *)
PeriodRows(f) ==
    {i \in 1 .. f.submitted - 1 : f.freq = "Monthly" => HasDay(f.effective, i)}

(* Mutant: range(0, n) for range(1, n). *)
WritePeriods_fromZero(r) ==
    LET f == File(r) IN
    /\ run[r] = "periods"
    /\ pvp' = [p \in Policies |->
                  IF p \in f.policies /\ f.submitted > 1 /\ f.freq # "none"
                  THEN [pvp[p] EXCEPT ![r].periods = 1 + Cardinality(PeriodRows(f))] ELSE pvp[p]]
    /\ Goto(r, IF f.premium = 0 THEN "finish" ELSE "premium")
    /\ UNCHANGED <<policy, pv, pvc, zero, missing, task, scenario>>

(* One synthetic row for each further report that came in. An INSERT that  *)
(* fails is passed over too: the transaction is lost, and no row is kept.  *)
WritePeriods(r) ==
    LET f == File(r) IN
    /\ run[r] = "periods"
    /\ \E kept \in {PeriodRows(f)} \cup (IF Event("failures") THEN {{}} ELSE {}) :
          pvp' = [p \in Policies |->
                     IF p \in f.policies /\ f.submitted > 1 /\ f.freq # "none"
                     THEN [pvp[p] EXCEPT ![r].periods = Cardinality(kept)] ELSE pvp[p]]
    /\ Goto(r, IF f.premium = 0 THEN "finish" ELSE "premium")
    /\ UNCHANGED <<policy, pv, pvc, zero, missing, task, scenario>>

(* An actual premium that is there is taken for one of a payroll file and  *)
(* kept, in the row of whatever run it stands in; likewise an estimate.    *)
WritePremium(r) ==
    LET f == File(r)
        est == ToDate(f.premium, f.freq, f.dated)
        report == Kind(r) = "audit_report"
        Kept(p) == PremiumRuns(p) # {} /\ (report => pv[p][LatestPremium(p)].act > 0)
        Updated(row) == IF report THEN [row EXCEPT !.est = est, !.estFrom = r]
                        ELSE [row EXCEPT !.act = f.earned, !.actFrom = r]
        Inserted(row, p) == [id |-> IF row.id = 0 THEN NewId(f, p) ELSE row.id, pct |-> row.pct,
                             est |-> IF report THEN est ELSE 0,
                             act |-> IF report THEN est ELSE f.earned,
                             estFrom |-> r, actFrom |-> r]
    IN  /\ run[r] = "premium"
        /\ pv' = [p \in Policies |->
                     IF p \notin f.policies THEN pv[p]
                     ELSE IF Kept(p) THEN [pv[p] EXCEPT ![LatestPremium(p)] = Updated(@)]
                     ELSE [pv[p] EXCEPT ![r] = Inserted(@, p)]]
        /\ Goto(r, "finish")
        /\ UNCHANGED <<policy, pvp, pvc, zero, missing, task, scenario>>

(* The engine is told of the policies with a premium row of this run. *)
Finish(r) ==
    /\ run[r] = "finish"
    /\ Goto(r, "complete")
    /\ LET todo == {p \in Policies : pv[p][r].id # 0} IN
       task' = [task EXCEPT ![r] = [NoTask EXCEPT !.pc = IF todo = {} THEN "done" ELSE "read",
                                                  !.run = r, !.todo = todo]]
    /\ UNCHANGED <<policy, facts, scenario>>

(* A statement fails: what was committed stays. *)
ParseFails(r) ==
    /\ run[r] \in Parsing
    /\ Event("failures") \/ (run[r] = "summary" /\ Undated(File(r)))
    /\ Goto(r, "failed")
    /\ UNCHANGED <<policy, facts, task, scenario>>

ParseStep(r) ==
    \/ Upload(r) \/ ParsePolicy(r) \/ ParseRows(r) \/ ClearPeriods(r) \/ WriteSummary(r)
    \/ WritePeriods(r) \/ WritePremium(r) \/ Finish(r) \/ ParseFails(r)

-----------------------------------------------------------------------------
(* The rollback of a run, as far as the tables go. *)

UndoStart(r) ==
    /\ Event("rollback")
    /\ run[r] = "complete"
    /\ Event("overlap") \/ Quiet
    /\ Goto(r, "rolling_back")
    /\ UNCHANGED <<policy, facts, task, scenario>>

Emptied(table, r, row) == [p \in Policies |-> [table[p] EXCEPT ![r] = row]]

(* Mutant: the synthetic rows of the run stay. *)
UndoRows_periodsKept(r) ==
    /\ run[r] = "rolling_back"
    /\ pv' = Emptied(pv, r, NoPremium)
    /\ pvp' = [p \in Policies |->
                  [pvp[p] EXCEPT ![r] = [NoPayroll EXCEPT !.periods = pvp[p][r].periods]]]
    /\ pvc' = Emptied(pvc, r, [busy |-> 0, idle |-> 0])
    /\ zero' = Emptied(zero, r, 0) /\ missing' = Emptied(missing, r, 0)
    /\ Goto(r, "rolled_back")
    /\ UNCHANGED <<policy, task, scenario>>

(* All five tables in one transaction. *)
UndoRows(r) ==
    /\ run[r] = "rolling_back"
    /\ pv' = Emptied(pv, r, NoPremium)
    /\ pvp' = Emptied(pvp, r, NoPayroll)
    /\ pvc' = Emptied(pvc, r, [busy |-> 0, idle |-> 0])
    /\ zero' = Emptied(zero, r, 0) /\ missing' = Emptied(missing, r, 0)
    /\ Goto(r, "rolled_back")
    /\ UNCHANGED <<policy, task, scenario>>

UndoStep(r) == UndoStart(r) \/ UndoRows(r)
==================================================================================
