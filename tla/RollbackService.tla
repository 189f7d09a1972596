---------------------------- MODULE RollbackService ----------------------------
(***************************************************************************)
(* rollback_run and RollbackService.rollback: a request is accepted on the *)
(* status of its run, then five commits take a complete or partial run to  *)
(* rolled_back and delete its fact rows; when a statement fails, a handler *)
(* marks the rollback record FAILED.                                       *)
(***************************************************************************)
EXTENDS RunStore

CONSTANTS
    Undos,         \* POST /ingestion/runs/{run}/rollback requests
    OwnSchema,     \* whether the caller names the tenant's own schema
    UndoFaults     \* whether a statement of a rollback may fail or its worker die

ASSUME UndoAssumption == UndoFaults \in BOOLEAN /\ OwnSchema \in BOOLEAN

VARIABLE undos     \* the requests: program counter, run and rollback_id

UndoPC == {"idle", "accepted", "validated", "recorded", "deleting", "marking", "closing",
           "failing", "done", "refused", "failed"}
UndoBusy == UndoPC \ {"idle", "done", "refused", "failed"}

UndoRec == [pc: UndoPC, run: RunId, id: Nat]

UndoTypeOK == undos \in [Undos -> UndoRec]

UndoInit == undos = [b \in Undos |-> [pc |-> "idle", run |-> 1, id |-> 0]]

(* The handler looks at the run through the request's own search_path. *)
UndoRequest(b, r) ==
    /\ undos[b].pc = "idle"
    /\ Exists(r)
    /\ undos' = [undos EXCEPT ![b].run = r,
                   ![b].pc = IF status[r] \in {"complete", "partial"}
                             THEN "accepted" ELSE "refused"]
    /\ UNCHANGED store

(* Mutant: a rollback in progress is not looked for. *)
UndoValidate_inProgressIgnored(b) ==
    LET r == undos[b].run IN
    /\ undos[b].pc = "accepted"
    /\ OwnSchema
    /\ undos' = [undos EXCEPT ![b].pc =
                   IF status[r] \in {"complete", "partial"} /\ LatestRollback(r) # "COMPLETE"
                   THEN "validated" ELSE "refused"]
    /\ UNCHANGED store

(* The service sets search_path to the schema it was given and checks      *)
(* again: only a complete or partial run, and only when the latest         *)
(* rollback of the run is neither in progress nor complete.                *)
UndoValidate(b) ==
    LET r == undos[b].run IN
    /\ undos[b].pc = "accepted"
    /\ OwnSchema
    /\ undos' = [undos EXCEPT ![b].pc =
                   IF /\ status[r] \in {"complete", "partial"}
                      /\ LatestRollback(r) \notin {"IN_PROGRESS", "COMPLETE"}
                   THEN "validated" ELSE "refused"]
    /\ UNCHANGED store

(* rollback_run passes the tenant's slug, which names no schema: the first *)
(* SELECT of the service raises and the response is a 500.                 *)
UndoNoSchema(b) ==
    /\ undos[b].pc = "accepted"
    /\ ~OwnSchema
    /\ undos' = [undos EXCEPT ![b].pc = "failed"]
    /\ UNCHANGED store

UndoRecord(b) ==
    /\ undos[b].pc = "validated"
    /\ rollbacks' = Append(rollbacks, [run |-> undos[b].run, status |-> "IN_PROGRESS"])
    /\ undos' = [undos EXCEPT ![b].id = Len(rollbacks) + 1, ![b].pc = "recorded"]
    /\ UNCHANGED <<status, owner, nextRun, bytes, session, usable, facts, derived, skipped>>

(* Mutant: the run is marked before the rollback is recorded. *)
UndoMarkRun_first(b) ==
    /\ undos[b].pc = "validated"
    /\ SetStatus(undos[b].run, "rolling_back")
    /\ undos' = [undos EXCEPT ![b].pc = "deleting"]
    /\ UNCHANGED <<owner, nextRun, bytes, session, usable, facts, derived, skipped, rollbacks>>

UndoMarkRun(b) ==
    /\ undos[b].pc = "recorded"
    /\ SetStatus(undos[b].run, "rolling_back")
    /\ undos' = [undos EXCEPT ![b].pc = "deleting"]
    /\ UNCHANGED <<owner, nextRun, bytes, session, usable, facts, derived, skipped, rollbacks>>

(* Mutant: zero_payroll and missing_payroll are not in the list of tables. *)
UndoDeleteRows_fileRowsOnly(b) ==
    /\ undos[b].pc = "deleting"
    /\ facts' = [facts EXCEPT ![undos[b].run] = NoRows]
    /\ undos' = [undos EXCEPT ![b].pc = "marking"]
    /\ UNCHANGED <<status, owner, nextRun, bytes, session, usable, derived, skipped, rollbacks>>

(* The five DELETEs are one transaction; rows committed while it runs stay *)
(* like those committed after it.  The rows of the engine are in           *)
(* zero_payroll and missing_payroll and go with the others.                *)
UndoDeleteRows(b) ==
    /\ undos[b].pc = "deleting"
    /\ facts' = [facts EXCEPT ![undos[b].run] = NoRows]
    /\ derived' = [derived EXCEPT ![undos[b].run] = 0]
    /\ undos' = [undos EXCEPT ![b].pc = "marking"]
    /\ UNCHANGED <<status, owner, nextRun, bytes, session, usable, skipped, rollbacks>>

(* Mutant: the run is not marked rolled_back. *)
UndoFinishRun_unmarked(b) ==
    /\ undos[b].pc = "marking"
    /\ undos' = [undos EXCEPT ![b].pc = "closing"]
    /\ UNCHANGED store

UndoFinishRun(b) ==
    /\ undos[b].pc = "marking"
    /\ SetStatus(undos[b].run, "rolled_back")
    /\ undos' = [undos EXCEPT ![b].pc = "closing"]
    /\ UNCHANGED <<owner, nextRun, bytes, session, usable, facts, derived, skipped, rollbacks>>

(* UPDATE ingestion_rollbacks ... WHERE rollback_id: nothing when a        *)
(* cleanup deleted the row.                                                *)
CloseRecord(b, s) ==
    rollbacks' = [rollbacks EXCEPT ![undos[b].id].status =
                    IF @ = "deleted" THEN "deleted" ELSE s]

UndoComplete(b) ==
    /\ undos[b].pc = "closing"
    /\ CloseRecord(b, "COMPLETE")
    /\ undos' = [undos EXCEPT ![b].pc = "done"]
    /\ UNCHANGED <<status, owner, nextRun, bytes, session, usable, facts, derived, skipped>>

(* A statement raises after the record was inserted. *)
UndoError(b) ==
    /\ UndoFaults
    /\ undos[b].pc \in {"recorded", "deleting", "marking", "closing"}
    /\ undos' = [undos EXCEPT ![b].pc = "failing"]
    /\ UNCHANGED store

(* The handler marks the record only: the run keeps the status it has. *)
UndoFail(b) ==
    /\ undos[b].pc = "failing"
    /\ CloseRecord(b, "FAILED")
    /\ undos' = [undos EXCEPT ![b].pc = "failed"]
    /\ UNCHANGED <<status, owner, nextRun, bytes, session, usable, facts, derived, skipped>>

(* The worker dies, or the handler's own UPDATE fails. *)
UndoAbort(b) ==
    /\ UndoFaults
    /\ undos[b].pc \in UndoBusy
    /\ undos' = [undos EXCEPT ![b].pc = "failed"]
    /\ UNCHANGED store

UndoStep(b) ==
    \/ UndoValidate(b) \/ UndoNoSchema(b) \/ UndoRecord(b) \/ UndoMarkRun(b)
    \/ UndoDeleteRows(b) \/ UndoFinishRun(b) \/ UndoComplete(b) \/ UndoFail(b)

UndoNext ==
    \E b \in Undos : \/ \E r \in RunId : UndoRequest(b, r)
                     \/ UndoStep(b) \/ UndoError(b) \/ UndoAbort(b)
===============================================================================
