----------------------------- MODULE MCReportJobs -----------------------------
(***************************************************************************)
(* The instance of ReportJobs that TLC checks.                             *)
(***************************************************************************)
EXTENDS ReportJobs, TLC

CONSTANTS r1, norun

Audit   == [type |-> "policy_audit", pdf |-> TRUE, policy |-> TRUE, run |-> r1]
Export  == [type |-> "class_code_variance", pdf |-> FALSE, policy |-> FALSE, run |-> norun]
NoTrail == [type |-> "ingestion_audit_trail", pdf |-> FALSE, policy |-> FALSE, run |-> norun]
Excepts == [type |-> "exception_report", pdf |-> FALSE, policy |-> FALSE, run |-> r1]

(* What each property excludes is apart from what the others exclude.      *)
(* NoTrail is refused.                                                     *)
MCScenarios ==
    {[events |-> {"rollback", "overlap"}, asked |-> {Export}],
     [events |-> {"rollback", "failures", "time"}, asked |-> {Audit, Export}],
     [events |-> {"overlap", "failures", "early_failures", "late_failures", "crash"},
      asked  |-> {Excepts, NoTrail}],
     [events |-> {"time", "overlap"}, asked |-> {Export}]}
===============================================================================
