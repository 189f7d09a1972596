----------------------------- MODULE IngestionApi -----------------------------
(***************************************************************************)
(* The upload handler, the mapping approval gate and the background        *)
(* pipeline of an approved run.  Each request is served once, by a         *)
(* coroutine that interleaves with every other one at its awaits; it is a  *)
(* record of its program counter and of the values it read earlier, and an *)
(* action is what it does from one commit to the next.                     *)
(***************************************************************************)
EXTENDS RunStore

CONSTANTS
    Uploads,    \* POST /ingestion/upload requests
    Approvals,  \* POST /ingestion/mapping/{session}/approve requests
    Faults      \* whether a statement may fail or a worker may die

ASSUME ApiAssumption == IsFiniteSet(Approvals) /\ Faults \in BOOLEAN

VARIABLES
    uploads,    \* the upload requests
    approvals   \* the approval requests, and the pipeline each one spawns

api == <<uploads, approvals>>

UploadPC == {"idle", "checked", "set_skip", "mapping", "storing",
             "done", "refused", "failed"}
UploadBusy == {"checked", "set_skip", "mapping", "storing"}

ApprovalPC == {"idle", "checked", "saving", "loading", "reading", "starting",
               "upserting", "failing", "reporting", "selecting", "calculating",
               "done", "refused", "failed"}
ApprovalBusy == ApprovalPC \ {"idle", "done", "refused", "failed"}

(* An approval whose commit marked the session APPROVED. *)
ApprovalPast == ApprovalPC \ {"idle", "checked", "refused"}

UploadRec == [pc: UploadPC, run: RunId \union {0}, carrier: Carriers, mode: Modes,
              skip: BOOLEAN, file: Files]

ApprovalRec == [pc: ApprovalPC, run: RunId, skip: BOOLEAN, file: Files \union {NoFile},
                next: 1 .. MaxCommits + 1]

ApiTypeOK == uploads \in [Uploads -> UploadRec] /\ approvals \in [Approvals -> ApprovalRec]

ApiInit ==
    /\ uploads = [u \in Uploads |->
                    [pc |-> "idle", run |-> 0, carrier |-> CHOOSE c \in Carriers : TRUE,
                     mode |-> CHOOSE m \in Modes : TRUE, skip |-> FALSE,
                     file |-> CHOOSE f \in Files : TRUE]]
    /\ approvals = [a \in Approvals |->
                    [pc |-> "idle", run |-> 1, skip |-> FALSE, file |-> NoFile, next |-> 1]]

-----------------------------------------------------------------------------
(* upload_file and IngestionServiceV4.run *)

(* Mutant: the mode of the carrier is not looked up. *)
UploadCheckMode_unchecked(u, c, m, sk, f) ==
    /\ uploads[u].pc = "idle"
    /\ uploads' = [uploads EXCEPT ![u] = [pc |-> "checked", run |-> 0, carrier |-> c,
                                          mode |-> m, skip |-> sk, file |-> f]]
    /\ UNCHANGED <<store, approvals>>

(* The request arrives and reads the mode its carrier is locked to. *)
UploadCheckMode(u, c, m, sk, f) ==
    /\ uploads[u].pc = "idle"
    /\ uploads' = [uploads EXCEPT ![u] =
                     [pc |-> IF \E other \in Modes \ {m} : LockedMode(c, other)
                             THEN "refused" ELSE "checked",
                      run |-> 0, carrier |-> c, mode |-> m, skip |-> sk, file |-> f]]
    /\ UNCHANGED <<store, approvals>>

(* _create_ingestion_run: the INSERT commits before anything else is known *)
(* of the file.                                                            *)
UploadCreateRun(u) ==
    /\ uploads[u].pc = "checked"
    /\ nextRun <= MaxRuns
    /\ nextRun' = nextRun + 1
    /\ status' = [status EXCEPT ![nextRun] = "awaiting_mapping"]
    /\ owner' = [owner EXCEPT ![nextRun] =
                   [carrier |-> uploads[u].carrier, mode |-> uploads[u].mode, skip |-> FALSE]]
    /\ uploads' = [uploads EXCEPT ![u].run = nextRun,
                                  ![u].pc = IF uploads[u].skip THEN "set_skip" ELSE "mapping"]
    /\ UNCHANGED <<bytes, session, usable, facts, derived, skipped, rollbacks, approvals>>

UploadSetSkip(u) ==
    /\ uploads[u].pc = "set_skip"
    /\ owner' = [owner EXCEPT ![uploads[u].run].skip = Exists(uploads[u].run)]
    /\ uploads' = [uploads EXCEPT ![u].pc = "mapping"]
    /\ UNCHANGED <<status, nextRun, bytes, session, usable, facts, derived, skipped,
                   rollbacks, approvals>>

(* AutoMappingService.run commits the session and its proposals; the       *)
(* session is visible to a reviewer from here on.                          *)
UploadMap(u) ==
    LET r == uploads[u].run IN
    /\ uploads[u].pc = "mapping"
    /\ session' = [session EXCEPT ![r] = "PENDING_REVIEW"]
    /\ \E ok \in BOOLEAN : usable' = [usable EXCEPT ![r] = ok]
    /\ uploads' = [uploads EXCEPT ![u].pc = "storing"]
    /\ UNCHANGED <<status, owner, nextRun, bytes, facts, derived, skipped, rollbacks, approvals>>

(* The file cannot be read or mapped: the run is marked failed and the     *)
(* exception becomes the response.                                         *)
UploadMapFails(u) ==
    /\ uploads[u].pc = "mapping"
    /\ SetStatus(uploads[u].run, "failed")
    /\ uploads' = [uploads EXCEPT ![u].pc = "failed"]
    /\ UNCHANGED <<owner, nextRun, bytes, session, usable, facts, derived, skipped,
                   rollbacks, approvals>>

(* _store_file_bytes: the bytes of the file reach the run last. *)
UploadStoreBytes(u) ==
    LET r == uploads[u].run IN
    /\ uploads[u].pc = "storing"
    /\ bytes' = [bytes EXCEPT ![r] = IF Exists(r) THEN uploads[u].file ELSE NoFile]
    /\ uploads' = [uploads EXCEPT ![u].pc = "done"]
    /\ UNCHANGED <<status, owner, nextRun, session, usable, facts, derived, skipped,
                   rollbacks, approvals>>

(* A statement fails outside every handler, or the worker dies. *)
UploadAbort(u) ==
    /\ Faults
    /\ uploads[u].pc \in UploadBusy
    /\ uploads' = [uploads EXCEPT ![u].pc = "failed"]
    /\ UNCHANGED <<store, approvals>>

UploadStep(u) ==
    \/ UploadCreateRun(u) \/ UploadSetSkip(u) \/ UploadMap(u) \/ UploadMapFails(u)
    \/ UploadStoreBytes(u)

-----------------------------------------------------------------------------
(* update_mapping_proposal, approve_mapping and reject_mapping *)

(* Editing proposals is not gated by the status of the session. *)
EditProposals(r) ==
    /\ session[r] # "none"
    /\ \E ok \in BOOLEAN : usable' = [usable EXCEPT ![r] = ok]
    /\ UNCHANGED <<status, owner, nextRun, bytes, session, facts, derived, skipped,
                   rollbacks, api>>

(* Mutant: the status of the session is not looked at. *)
ApproveCheck_unchecked(a, r) ==
    /\ approvals[a].pc = "idle"
    /\ session[r] # "none"
    /\ approvals' = [approvals EXCEPT ![a].run = r, ![a].pc = "checked"]
    /\ UNCHANGED <<store, uploads>>

ApproveCheck(a, r) ==
    /\ approvals[a].pc = "idle"
    /\ session[r] # "none"
    /\ approvals' = [approvals EXCEPT
                       ![a].run = r,
                       ![a].pc = IF session[r] = "PENDING_REVIEW" THEN "checked" ELSE "refused"]
    /\ UNCHANGED <<store, uploads>>

(* Mutant: the session keeps its status. *)
ApproveCommit_sessionKept(a) ==
    /\ approvals[a].pc = "checked"
    /\ SetStatus(approvals[a].run, "mapping_approved")
    /\ approvals' = [approvals EXCEPT ![a].pc = "saving"]
    /\ UNCHANGED <<owner, nextRun, bytes, session, usable, facts, derived, skipped,
                   rollbacks, uploads>>

(* The UPDATEs do not repeat the check. *)
ApproveCommit(a) ==
    LET r == approvals[a].run IN
    /\ approvals[a].pc = "checked"
    /\ SetSession(r, "APPROVED")
    /\ SetStatus(r, "mapping_approved")
    /\ approvals' = [approvals EXCEPT ![a].pc = "saving"]
    /\ UNCHANGED <<owner, nextRun, bytes, usable, facts, derived, skipped, rollbacks, uploads>>

(* _save_approved_mappings returns, the response is sent and the pipeline  *)
(* is spawned.                                                             *)
ApproveSpawn(a) ==
    /\ approvals[a].pc = "saving"
    /\ approvals' = [approvals EXCEPT ![a].pc = "loading"]
    /\ UNCHANGED <<store, uploads>>

(* reject_mapping reads no status at all. *)
Reject(r) ==
    /\ session[r] # "none"
    /\ SetSession(r, "REJECTED")
    /\ SetStatus(r, "failed")
    /\ UNCHANGED <<owner, nextRun, bytes, usable, facts, derived, skipped, rollbacks, api>>

-----------------------------------------------------------------------------
(* run_post_approval, in the background task of the approval *)

Goto(a, pc) == approvals' = [approvals EXCEPT ![a].pc = pc]

(* _load_approved_proposals; without one the pipeline raises before its    *)
(* own handler and only the task's handler reports it.                     *)
PipelineLoad(a) ==
    LET r == approvals[a].run IN
    /\ approvals[a].pc = "loading"
    /\ Goto(a, IF session[r] # "none" /\ usable[r] THEN "reading" ELSE "reporting")
    /\ UNCHANGED <<store, uploads>>

PipelineRead(a) ==
    LET r == approvals[a].run IN
    /\ approvals[a].pc = "reading"
    /\ approvals' = [approvals EXCEPT ![a].file = bytes[r], ![a].skip = owner[r].skip,
                                      ![a].pc = "starting"]
    /\ UNCHANGED <<store, uploads>>

PipelineStart(a) ==
    /\ approvals[a].pc = "starting"
    /\ SetStatus(approvals[a].run, "processing")
    /\ approvals' = [approvals EXCEPT ![a].next = 1, ![a].pc = "upserting"]
    /\ UNCHANGED <<owner, nextRun, bytes, session, usable, facts, derived, skipped,
                   rollbacks, uploads>>

(* Only the CSV parser looks at skip_on_error. *)
Tolerates(a) == approvals[a].file.csv /\ approvals[a].skip

(* Mutant: a committed transaction is retried. *)
PipelineUpsert_retried(a) ==
    LET r == approvals[a].run
        k == approvals[a].next IN
    /\ approvals[a].pc = "upserting"
    /\ k <= approvals[a].file.commits
    /\ facts' = [facts EXCEPT ![r][k] = @ + 1]
    /\ UNCHANGED <<status, owner, nextRun, bytes, session, usable, derived, skipped,
                   rollbacks, uploads, approvals>>

(* One transaction of the file is committed.  The fact tables have no      *)
(* foreign key to ingestion_runs, and nothing looks at the run's status.   *)
PipelineUpsert(a) ==
    LET r == approvals[a].run
        k == approvals[a].next
        isBad == k = approvals[a].file.bad IN
    /\ approvals[a].pc = "upserting"
    /\ k <= approvals[a].file.commits
    /\ isBad => Tolerates(a)
    /\ facts' = [facts EXCEPT ![r][k] = @ + 1]
    /\ skipped' = [skipped EXCEPT ![r] = IF isBad THEN @ + 1 ELSE @]
    /\ approvals' = [approvals EXCEPT ![a].next = k + 1]
    /\ UNCHANGED <<status, owner, nextRun, bytes, session, usable, derived, rollbacks, uploads>>

(* The bad row raises.  It may do so under skip_on_error too: recording    *)
(* the skipped row is a statement of the same transaction and can fail.    *)
PipelineBadRow(a) ==
    /\ approvals[a].pc = "upserting"
    /\ approvals[a].next = approvals[a].file.bad
    /\ Goto(a, "failing")
    /\ UNCHANGED <<store, uploads>>

(* Mutant: a status that is not one of the column's. *)
PipelineFinish_misspelled(a) ==
    /\ approvals[a].pc = "upserting"
    /\ approvals[a].next > approvals[a].file.commits
    /\ SetStatus(approvals[a].run, "completed")
    /\ Goto(a, "selecting")
    /\ UNCHANGED <<owner, nextRun, bytes, session, usable, facts, derived, skipped,
                   rollbacks, uploads>>

(* Mutant: the run is completed after any of its transactions. *)
PipelineFinish_early(a) ==
    /\ approvals[a].pc = "upserting"
    /\ SetStatus(approvals[a].run, "complete")
    /\ Goto(a, "selecting")
    /\ UNCHANGED <<owner, nextRun, bytes, session, usable, facts, derived, skipped,
                   rollbacks, uploads>>

PipelineFinish(a) ==
    LET r == approvals[a].run IN
    /\ approvals[a].pc = "upserting"
    /\ approvals[a].next > approvals[a].file.commits
    /\ SetStatus(r, IF skipped[r] > 0 THEN "partial" ELSE "complete")
    /\ Goto(a, "selecting")
    /\ UNCHANGED <<owner, nextRun, bytes, session, usable, facts, derived, skipped,
                   rollbacks, uploads>>

(* The handler of run_post_approval marks the run failed and re-raises,    *)
(* then the handler of the background task marks it failed once more.      *)
PipelineFail(a) ==
    /\ approvals[a].pc = "failing"
    /\ SetStatus(approvals[a].run, "failed")
    /\ Goto(a, "reporting")
    /\ UNCHANGED <<owner, nextRun, bytes, session, usable, facts, derived, skipped,
                   rollbacks, uploads>>

(* Mutant: the handler of the task only logs. *)
PipelineReport_logged(a) ==
    /\ approvals[a].pc = "reporting"
    /\ Goto(a, "failed")
    /\ UNCHANGED <<store, uploads>>

PipelineReport(a) ==
    /\ approvals[a].pc = "reporting"
    /\ SetStatus(approvals[a].run, "failed")
    /\ Goto(a, "failed")
    /\ UNCHANGED <<owner, nextRun, bytes, session, usable, facts, derived, skipped,
                   rollbacks, uploads>>

(* _trigger_calc_for_run selects the run's policies in premium_variance,   *)
(* a table the file may have put nothing in.                               *)
PipelineSelectPolicies(a) ==
    /\ approvals[a].pc = "selecting"
    /\ \/ HasRows(approvals[a].run) /\ Goto(a, "calculating")
       \/ Goto(a, "done")
    /\ UNCHANGED <<store, uploads>>

(* AuditCalculationService.run inserts zero_payroll and missing_payroll    *)
(* rows for the run, or none: the engine is off, or no period qualifies,   *)
(* or it raised, which the loop swallows.                                  *)
PipelineCalculate(a) ==
    LET r == approvals[a].run IN
    /\ approvals[a].pc = "calculating"
    /\ \/ derived' = [derived EXCEPT ![r] = @ + 1]
       \/ UNCHANGED derived
    /\ Goto(a, "done")
    /\ UNCHANGED <<status, owner, nextRun, bytes, session, usable, facts, skipped,
                   rollbacks, uploads>>

(* A statement fails.  Inside the handler of run_post_approval the run is  *)
(* marked failed; the loads before it and the policy query after it are    *)
(* only covered by the task's handler.                                     *)
PipelineError(a) ==
    /\ Faults
    /\ \/ approvals[a].pc \in {"starting", "upserting"} /\ Goto(a, "failing")
       \/ approvals[a].pc \in {"loading", "reading", "selecting"} /\ Goto(a, "reporting")
    /\ UNCHANGED <<store, uploads>>

(* The request fails before the task is spawned, or the worker dies, or a  *)
(* handler's own UPDATE fails.  Before its commit the request leaves       *)
(* nothing behind, like a refused one.                                     *)
ApprovalAbort(a) ==
    /\ Faults
    /\ approvals[a].pc \in ApprovalBusy
    /\ Goto(a, IF approvals[a].pc = "checked" THEN "refused" ELSE "failed")
    /\ UNCHANGED <<store, uploads>>

ApprovalStep(a) ==
    \/ ApproveCommit(a) \/ ApproveSpawn(a) \/ PipelineLoad(a) \/ PipelineRead(a)
    \/ PipelineStart(a) \/ PipelineUpsert(a) \/ PipelineBadRow(a) \/ PipelineFinish(a)
    \/ PipelineFail(a) \/ PipelineReport(a) \/ PipelineSelectPolicies(a)
    \/ PipelineCalculate(a)

-----------------------------------------------------------------------------
ApiRequest ==
    \/ \E u \in Uploads, c \in Carriers, m \in Modes, sk \in BOOLEAN, f \in Files :
          UploadCheckMode(u, c, m, sk, f)
    \/ \E a \in Approvals, r \in RunId : ApproveCheck(a, r)
    \/ \E r \in RunId : EditProposals(r) \/ Reject(r)

ApiStep ==
    \/ \E u \in Uploads : UploadStep(u) \/ UploadAbort(u)
    \/ \E a \in Approvals : ApprovalStep(a) \/ PipelineError(a) \/ ApprovalAbort(a)
===============================================================================
