------------------------------ MODULE AuditFigures ------------------------------
(***************************************************************************)
(* The parsers, the engine and the rollback over the fact tables of a      *)
(* carrier, and what the figures that an auditor reads must satisfy.       *)
(***************************************************************************)
EXTENDS AuditEngine

Next ==
    \/ \E r \in Runs : ParseStep(r) \/ UndoStep(r)
    \/ \E t \in Tasks : EngineStep(t)

Spec == Init /\ [][Next]_vars

-----------------------------------------------------------------------------

FilesOf(p) == {r \in DOMAIN scenario.files : p \in scenario.files[r].policies}

Started(p) == {r \in FilesOf(p) : run[r] # "none"}

(* The events of a scenario are all among these.                           *)
Only(events) == scenario.events \subseteq events

(* No figure of a file that was rolled back stays: when no other file      *)
(* names the policy, the rollback leaves none of its five fact tables with *)
(* anything of the run, the rows with a negative run id and the rows and   *)
(* amounts that the engine or an audit of the rolled back run adds later   *)
(* included (rollback_service.py:143-179).                                 *)
RollbackForgets ==
    \A p \in Policies, r \in Runs :
        Only({"rollback", "audit", "late_audit", "failures"}) /\ FilesOf(p) = {r} /\ run[r] = "rolled_back" =>
            /\ Received(p) = 0 /\ MissingRows(p) = 0
            /\ PremiumRuns(p) = {}
            /\ \A q \in Runs : zero[p][q] + pvc[p][q].busy + pvc[p][q].idle = 0

(* The risk of a policy is never stale: when pipelines and engine rest,    *)
(* and the last file of a policy is complete and put a premium row of its  *)
(* own, the risk that the list of policies shows is the assessment of that *)
(* row's amounts and of the reports that are missing now. Not so when the  *)
(* note for an officer takes the risk back with it, when the last file     *)
(* puts its premium into the row of an older one, which starts no engine,  *)
(* or fails after it cleared the rows of the last report, when an older    *)
(* run is audited, rolled back or overlaps, or after a failure             *)
(* (audit_calculation_service.py:1225, 1334).                              *)
RiskIsCurrent ==
    \A p \in Policies :
        LET r == Max(Started(p))
        IN  Only({"audit"}) /\ Quiet /\ Started(p) # {} /\ run[r] = "complete" /\ pv[p][r].id # 0
            /\ ~OutOfBounds(p, ReportedAmount(p, pvp[p][r])) =>
                policy[p].risk = Assess(Pct(pv[p][r]), MissingCount(p))

(* The engine derives what was received by counting rows: the number of    *)
(* reports that the last audit report gives, and one for each other file   *)
(* that has a row of its own. So the synthetic rows of an earlier report   *)
(* must be gone and those of the last all there, whatever payroll files    *)
(* came before, between and after. Not so when that report fails or gives  *)
(* no frequency, which leaves none, nor when it is monthly from the 29th,  *)
(* 30th or 31st of a month on: then no row stands for a report of a month  *)
(* without that day (ingestion_service.py:730-826).                        *)
ReceivedMatchesReport ==
    \A p \in Policies :
        LET reports == {r \in Started(p) : Kind(r) = "audit_report"}
            last    == Max(reports)
        IN  Only({"audit", "late_audit"}) /\ Quiet /\ reports # {} /\ run[last] = "complete"
            /\ File(last).freq # "none" /\ File(last).submitted > 0
            /\ (File(last).freq = "Monthly" => File(last).effective.day <= 28) =>
                Received(p) = File(last).submitted + Cardinality({q \in Runs \ {last} : pvp[p][q].row})

(* What the comment on the loop of the period rows says: one row for each  *)
(* further report, so that the count is the number that the file gives     *)
(* (ingestion_service.py:786-787). It is of the first file alone, which    *)
(* has a frequency and a date.                                             *)
ReceivedIsSubmitted ==
    \A p \in Policies :
        Only({"audit", "late_audit"}) /\ Started(p) = {1} /\ run[1] = "complete"
        /\ Kind(1) = "audit_report" /\ File(1).freq # "none" /\ File(1).submitted > 0 =>
            Received(p) = File(1).submitted

(* A percentage is of the amounts beside it: a premium row both of whose   *)
(* amounts came from the file of its own run has no percentage or the one  *)
(* of these amounts, although the engine computes it from the row of one   *)
(* run and stores it in the newest row of the policy, of whatever run      *)
(* (audit_calculation_service.py:1407). An older run that is audited late, *)
(* or one whose engine overlaps the next file, puts its own there, and so  *)
(* does an audit of the last complete run after a file that failed.        *)
PctMatchesAmounts ==
    \A p \in Policies, r \in Runs :
        Only({"audit", "rollback", "failures"}) /\ ~({"audit", "failures"} \subseteq scenario.events)
        /\ pv[p][r].pct # None /\ pv[p][r].estFrom = r /\ pv[p][r].actFrom = r =>
            pv[p][r].pct = Pct(pv[p][r])
==================================================================================
