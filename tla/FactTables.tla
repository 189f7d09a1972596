------------------------------- MODULE FactTables -------------------------------
(***************************************************************************)
(* The policies of a carrier and the five fact tables about them, which    *)
(* the parsers of ingestion_service.py write, the calculation engine reads *)
(* and completes and a rollback empties again (schema of migration 0001).  *)
(*                                                                         *)
(* Amounts are whole, a percentage is a whole number of per cent; a row    *)
(* keeps the run each of its amounts was taken from, which the code does   *)
(* not.                                                                    *)
(***************************************************************************)
EXTENDS Integers, Sequences, FiniteSetsExt

CONSTANTS
    MaxPolicies,      \* bound on the policies
    MaxRuns,          \* bound on the files that are ingested
    MaxTasks,         \* bound on the calls of run_audit
    TermDays,         \* the days from effective_date to expiration_date
    Today,            \* the days from effective_date to today
    Scenarios         \* the files and what happens to them

VARIABLES
    policy,           \* policies
    pv,               \* premium_variance
    pvp,              \* payroll_variance_policy
    pvc,              \* payroll_variance_class
    zero,             \* zero_payroll: how many rows of a policy and a run
    missing,          \* missing_payroll, likewise
    run,              \* the ingestion runs
    task,             \* the engine: one task for each run, then the manual audits
    scenario          \* the scenario of a behaviour

facts == <<pv, pvp, pvc, zero, missing>>

vars == <<policy, facts, run, task, scenario>>

Policies == 1 .. MaxPolicies
Runs     == 1 .. MaxRuns
Tasks    == 1 .. MaxRuns + MaxTasks

(* A fact table has a row for a policy and a run, or none.                 *)
Table(Rows) == [Policies -> [Runs -> Rows]]
Filled(row) == [p \in Policies |-> [r \in Runs |-> row]]

NoRun == 0
None  == -1000000

Formats == {"audit_report", "xml", "sheet", "csv"}
Columns == {"policy_number", "wages", "class_code", "est_payroll", "actual_payroll_reported",
            "est_premium_end", "actual_premium", "reason_code", "report_date",
            "expected_period_start", "days_overdue"}

(* overlap: pipelines, engine and rollbacks run side by side; late: the    *)
(* engine is run for a run that is not the newest of a policy.             *)
Events == {"overlap", "failures", "rollback", "audit", "late_audit"}

Frequencies == {"Weekly", "Bi-Weekly", "Semi-Monthly", "Monthly"}
Owners      == {"Included", "Excluded"}

(* What a file says of every policy in it; the columns are those that the  *)
(* approved mapping gave a sheet, and the three numbers of effective are   *)
(* the date that counts when dated holds. The synthetic rows of a run have *)
(* 999 run_ids, so more reports than 1000 are left out.                    *)
FileRec == [format : Formats, columns : SUBSET Columns, policies : SUBSET Policies \ {{}},
            dated : BOOLEAN, effective : [year : Nat, month : 1 .. 12, day : 1 .. 31],
            freq : Frequencies \cup {"none"}, owner : Owners \cup {"none"},
            submitted : 0 .. 1000, premium : Nat, earned : Nat, payroll : Nat, idle : 0 .. 1]

ASSUME FactsAssumption ==
    /\ MaxPolicies \in Nat \ {0} /\ MaxRuns \in Nat \ {0} /\ MaxTasks \in Nat
    /\ TermDays \in Nat /\ Today \in Nat
    /\ \A s \in Scenarios : /\ s.events \subseteq Events
                            /\ Len(s.files) <= MaxRuns
                            /\ s.files \in Seq(FileRec)
                            /\ s.threshold \in Nat

PolicyRec == [known : BOOLEAN, dated : BOOLEAN, freq : Frequencies \cup {"none"},
              owner : Owners \cup {"none"}, risk : {"none", "Low", "Medium", "High"},
              narrative : {"none", "text", "fallback"}]

(* id is the identity column, 0 where there is no row. *)
PremiumRec == [id : Nat, est : Nat, act : Nat, pct : Int,
               estFrom : Runs \cup {NoRun}, actFrom : Runs \cup {NoRun}]

(* periods is the number of synthetic rows, with the run_ids               *)
(* -(run_id * 1000 + i), that stand beside the row of the run.             *)
PayrollRec == [row : BOOLEAN, est : Nat, rep : Nat, pct : Int, periods : Nat]

(* How many rows, by whether their wages are zero. *)
ClassRec == [busy : Nat, idle : Nat]

RunPC == {"none", "policy", "rows", "clear", "summary", "periods", "premium", "finish",
          "complete", "failed", "rolling_back", "rolled_back"}

TaskPC == {"none", "read", "zero", "missing", "risk", "persist", "narrate", "done"}

TaskRec == [pc : TaskPC, run : Runs \cup {NoRun}, todo : SUBSET Policies,
            policy : Policies \cup {0}, pct : Int, share : Int, reported : Int, missing : Nat]

TypeOK ==
    /\ policy \in [Policies -> PolicyRec]
    /\ pv \in Table(PremiumRec)
    /\ pvp \in Table(PayrollRec)
    /\ pvc \in Table(ClassRec)
    /\ zero \in Table(Nat)
    /\ missing \in Table(Nat)
    /\ run \in [Runs -> RunPC]
    /\ task \in [Tasks -> TaskRec]
    /\ scenario \in Scenarios

NoPremium == [id |-> 0, est |-> 0, act |-> 0, pct |-> None, estFrom |-> NoRun, actFrom |-> NoRun]
NoPayroll == [row |-> FALSE, est |-> 0, rep |-> 0, pct |-> None, periods |-> 0]
NoTask    == [pc |-> "none", run |-> NoRun, todo |-> {}, policy |-> 0, pct |-> None,
              share |-> None, reported |-> 0, missing |-> 0]

Init ==
    /\ scenario \in Scenarios
    /\ policy = [p \in Policies |-> [known |-> FALSE, dated |-> FALSE, freq |-> "none",
                                     owner |-> "none", risk |-> "none", narrative |-> "none"]]
    /\ pv = Filled(NoPremium)
    /\ pvp = Filled(NoPayroll)
    /\ pvc = Filled([busy |-> 0, idle |-> 0])
    /\ zero = Filled(0)
    /\ missing = Filled(0)
    /\ run = [r \in Runs |-> "none"]
    /\ task = [t \in Tasks |-> NoTask]

-----------------------------------------------------------------------------
(* What the queries find. *)

PremiumRuns(p) == {r \in Runs : pv[p][r].id # 0}

(* ORDER BY ingestion_run_id DESC, and ORDER BY pv_id DESC. *)
LatestPremium(p) == Max(PremiumRuns(p))
NewestPremium(p) == CHOOSE r \in PremiumRuns(p) : \A q \in PremiumRuns(p) : pv[p][q].id <= pv[p][r].id

NextId == 1 + Max({pv[c[1]][c[2]].id : c \in Policies \X Runs})

(* Policies that a file gives a row get them one after the other.          *)
NewId(f, p) == NextId + Cardinality({q \in f.policies : q < p})

(* The rows of payroll_variance_policy with a run_id > 0, and those with   *)
(* one < 0, of which only the number matters.                              *)
Received(p) == Cardinality({r \in Runs : pvp[p][r].row})
               + Cardinality(UNION {{r} \X (1 .. pvp[p][r].periods) : r \in Runs})

MissingRows(p) == Cardinality(UNION {{r} \X (1 .. missing[p][r]) : r \in Runs})

(* freq_to_annual and the days of a cycle, as the rules are seeded. *)
Annual(freq) == CASE freq = "Weekly" -> 52 [] freq = "Bi-Weekly" -> 26
                  [] freq = "Semi-Monthly" -> 24 [] OTHER -> 12

CycleDays(freq) == CASE freq = "Weekly" -> 7 [] freq = "Bi-Weekly" -> 14
                     [] freq = "Semi-Monthly" -> 15 [] OTHER -> 30

AtLeastOne(n) == IF n < 1 THEN 1 ELSE n
AtMost(n, m)  == IF n > m THEN m ELSE n

(* expected_till_today: the periods that have begun since the effective    *)
(* date, a month being 30 days here; all of them without that date.        *)
Elapsed(freq, dated) ==
    LET days   == CycleDays(freq)
        months == Today \div 30
        so_far == CASE freq \in {"Weekly", "Bi-Weekly"} -> (2 * Today + days) \div (2 * days)
                    [] freq = "Semi-Monthly" -> 2 * months
                    [] OTHER -> months
    IN  IF dated THEN AtMost(AtLeastOne(so_far), Annual(freq)) ELSE Annual(freq)

ToDate(amount, freq, dated) == (amount \div Annual(freq)) * Elapsed(freq, dated)
=================================================================================
