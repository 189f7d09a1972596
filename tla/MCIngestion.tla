----------------------------- MODULE MCIngestion -----------------------------
(***************************************************************************)
(* The instances of IngestionSystem that TLC checks.                       *)
(***************************************************************************)
EXTENDS IngestionSystem, TLC

(* A workbook of two sheets, the same with a row that cannot be upserted   *)
(* in its second sheet, and a CSV file with such a row.                    *)
Workbook    == [csv |-> FALSE, commits |-> 2, bad |-> 0]
BadWorkbook == [csv |-> FALSE, commits |-> 2, bad |-> 2]
BadCsv      == [csv |-> TRUE, commits |-> 1, bad |-> 1]

AllFiles == {Workbook, BadWorkbook, BadCsv}
OneFile  == {Workbook}

EngineOnly == {"calc_engine"}
BothModes  == {"calc_engine", "display_only"}

Nothing == {{}}

(* For the run of two approvals: everything overlaps; everything that      *)
(* CompleteExactlyOnce allows.                                             *)
ApprovalChoices == {Overlap, Overlap \ {"approvals", "early_approval"}}

(* For the run of two rollbacks and a cleanup: all that OneRollback, that  *)
(* RolledBackIsClean and that NoOrphanRows allow.                          *)
RollbackChoices == {Overlap \ {"rollbacks"}, Overlap \ {"pipeline_and_rollback"},
                    Overlap \ {"cleanup"}}

(* For the fair run: everything overlaps; all that RollbackServed allows. *)
FairChoices == {Overlap, {"uploads", "approvals", "early_approval"}}

(* Requests of one kind are interchangeable: no definition picks one.      *)
UploadSymmetry   == Permutations(Uploads)
RollbackSymmetry == Permutations(Undos)
===============================================================================
