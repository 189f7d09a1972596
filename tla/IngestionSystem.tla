---------------------------- MODULE IngestionSystem ----------------------------
(***************************************************************************)
(* The ingestion subsystem of one tenant: uploads, the approval gate, the  *)
(* pipelines, rollbacks and cleanups over the tables they share.           *)
(*                                                                         *)
(* The code serialises nothing; what its users do at the same time decides *)
(* what can go wrong.  The rigid variable clients names the overlaps that  *)
(* occur in a behaviour, and a property that needs the clients to leave    *)
(* some overlap out says so.                                               *)
(***************************************************************************)
EXTENDS IngestionApi, RollbackService, CleanupService

CONSTANT ClientChoices   \* the sets of overlaps to consider

Overlap == {"uploads", "approvals", "early_approval", "late_reject",
            "rollbacks", "pipeline_and_rollback", "cleanup"}

ASSUME ClientAssumption == ClientChoices \subseteq SUBSET Overlap

VARIABLE clients         \* the overlaps that the clients produce

vars == <<store, api, undos, cleanups, clients>>

TypeOK ==
    /\ StoreTypeOK /\ ApiTypeOK /\ UndoTypeOK /\ CleanupTypeOK
    /\ clients \in ClientChoices

Init ==
    /\ StoreInit /\ ApiInit /\ UndoInit /\ CleanupInit
    /\ clients \in ClientChoices

Request ==
    \/ (ApiRequest \/ ApiStep) /\ UNCHANGED <<undos, cleanups>>
    \/ UndoNext /\ UNCHANGED <<api, cleanups>>
    \/ CleanupNext /\ UNCHANGED <<api, undos>>

-----------------------------------------------------------------------------
(* What does not happen unless clients names it.                           *)

UploadsSerial ==
    \A u, v \in Uploads :
        uploads[u].pc \in UploadBusy /\ uploads[v].pc \in UploadBusy => u = v

(* A second reviewer does not press Approve while the first one's request  *)
(* is between its check and its commit.                                    *)
ApprovalsSerial ==
    \A a, b \in Approvals :
        /\ approvals[a].pc = "checked"
        /\ approvals[b].pc \in ApprovalBusy
        /\ approvals[a].run = approvals[b].run
        => a = b

(* A session is approved by someone who saw the upload of its run succeed. *)
ApprovalAfterUpload ==
    \A a \in Approvals, u \in Uploads :
        /\ approvals[a].pc # "idle"
        /\ approvals[a].run = uploads[u].run
        => uploads[u].pc = "done"

(* A session is rejected only while nobody approves or has approved it. *)
RejectBeforeApproval ==
    \A a \in Approvals :
        approvals[a].pc \notin {"idle", "refused"} => session[approvals[a].run] # "REJECTED"

UndosSerial ==
    \A b, c \in Undos :
        /\ undos[b].pc \in UndoBusy /\ undos[c].pc \in UndoBusy
        /\ undos[b].run = undos[c].run
        => b = c

UndoAfterPipeline ==
    \A a \in Approvals, b \in Undos :
        ~ /\ approvals[a].pc \in ApprovalBusy /\ undos[b].pc \in UndoBusy
          /\ approvals[a].run = undos[b].run

CleanupAlone ==
    (\E d \in Cleanups : cleanups[d].pc \in CleanupBusy) =>
        /\ \A u \in Uploads : uploads[u].pc \notin UploadBusy
        /\ \A a \in Approvals : approvals[a].pc \notin ApprovalBusy
        /\ \A b \in Undos : undos[b].pc \notin UndoBusy
        /\ \A d, e \in Cleanups :
              cleanups[d].pc \in CleanupBusy /\ cleanups[e].pc \in CleanupBusy => d = e

Clients ==
    /\ "uploads" \in clients \/ UploadsSerial
    /\ "approvals" \in clients \/ ApprovalsSerial
    /\ "early_approval" \in clients \/ ApprovalAfterUpload
    /\ "late_reject" \in clients \/ RejectBeforeApproval
    /\ "rollbacks" \in clients \/ UndosSerial
    /\ "pipeline_and_rollback" \in clients \/ UndoAfterPipeline
    /\ "cleanup" \in clients \/ CleanupAlone

(* The conjunct Clients' only ever refuses the first step of a request. *)
Next == Request /\ UNCHANGED clients /\ Clients'

Spec == Init /\ [][Next]_vars

(* asyncio resumes every coroutine whose await is done, and every await is *)
(* of a database that answers: a request that has begun takes its next     *)
(* step.  Nothing makes a client send a request.                           *)
Fairness ==
    /\ \A u \in Uploads : WF_vars(UploadStep(u) /\ UNCHANGED <<undos, cleanups, clients>>)
    /\ \A a \in Approvals : WF_vars(ApprovalStep(a) /\ UNCHANGED <<undos, cleanups, clients>>)
    /\ \A b \in Undos : WF_vars(UndoStep(b) /\ UNCHANGED <<api, cleanups, clients>>)
    /\ \A d \in Cleanups : WF_vars(CleanupStep(d) /\ UNCHANGED <<api, undos, clients>>)

FairSpec == Spec /\ Fairness

Without(overlaps) == clients \intersect overlaps = {}

-----------------------------------------------------------------------------
(* Properties that hold whatever overlaps and, with Faults, whatever fails. *)

(* The approval gate: while a session is pending review, no pipeline of    *)
(* its run has begun, the run has not left awaiting_mapping, and the fact  *)
(* tables hold nothing of it.                                              *)
GateInv ==
    \A r \in RunId : session[r] = "PENDING_REVIEW" =>
        /\ status[r] \in {"awaiting_mapping", "none"}
        /\ facts[r] = NoRows /\ derived[r] = 0 /\ skipped[r] = 0
        /\ \A a \in Approvals : approvals[a].pc \in ApprovalPast => approvals[a].run # r

(* Rows enter the fact tables only through a pipeline that an approval     *)
(* committed, each transaction of the file at most once per approval: an   *)
(* approval that has not reached a transaction never accounts for it,      *)
(* whatever failed, was rolled back or was cleaned up in between.          *)
RowsComeFromApprovals ==
    \A r \in RunId, k \in BatchId :
        facts[r][k] <= Cardinality({a \in Approvals : /\ approvals[a].pc \in ApprovalPast
                                                      /\ approvals[a].run = r
                                                      /\ approvals[a].next > k})

(* A run is rolling_back or rolled_back only with a row of                 *)
(* ingestion_rollbacks that tells who did it: RollbackService commits the  *)
(* record first, and a cleanup deletes both.                               *)
RollbackIsRecorded ==
    \A r \in RunId : status[r] \in {"rolling_back", "rolled_back"} =>
        \E i \in DOMAIN rollbacks : rollbacks[i].run = r /\ rollbacks[i].status # "deleted"

(* An approved run is settled in the end, whatever it overlaps, when no    *)
(* statement fails: it does not stay mapping_approved or processing.       *)
ApprovedRunSettles ==
    \A r \in RunId :
        status[r] \in {"mapping_approved", "processing"}
            ~> status[r] \notin {"mapping_approved", "processing"}

(* A run does not stay rolling_back when no statement fails. *)
RollbackSettles ==
    \A r \in RunId : status[r] = "rolling_back" ~> status[r] # "rolling_back"

-----------------------------------------------------------------------------
(* Properties that need the clients to leave some overlap out.             *)

(* All runs of a carrier that lock it have one mode: upload_file compares  *)
(* with the lowest of them only, and failed runs do not come back.         *)
ModeLock ==
    Without({"uploads", "approvals", "late_reject", "pipeline_and_rollback"}) =>
        \A c \in Carriers : \A r, q \in LockingRuns(c) : owner[r].mode = owner[q].mode

Uploaded(r) == {u \in Uploads : uploads[u].run = r}

(* A complete or partial run has every transaction of the file that was    *)
(* uploaded in the fact tables, and exactly once.                          *)
CompleteExactlyOnce ==
    Without({"approvals", "early_approval"}) =>
        \A r \in RunId : status[r] \in {"complete", "partial"} =>
            \A u \in Uploaded(r), k \in BatchId :
                facts[r][k] = IF k <= uploads[u].file.commits THEN 1 ELSE 0

(* Nothing of a rolled back run is left or comes back: no file row, no     *)
(* row of the engine.                                                      *)
RolledBackIsClean ==
    Without({"pipeline_and_rollback"}) =>
        \A r \in RunId : status[r] = "rolled_back" => facts[r] = NoRows /\ derived[r] = 0

(* Every row of the fact tables belongs to a run that exists, so that it   *)
(* can be listed and rolled back.                                          *)
NoOrphanRows ==
    Without({"cleanup"}) => \A r \in RunId : HasRows(r) \/ derived[r] > 0 => Exists(r)

(* A run has at most one rollback that is in progress or complete.         *)
OneRollback ==
    Without({"rollbacks"}) =>
        \A i, j \in DOMAIN rollbacks :
            /\ rollbacks[i].run = rollbacks[j].run
            /\ {rollbacks[i].status, rollbacks[j].status} \subseteq {"IN_PROGRESS", "COMPLETE"}
            => i = j

(* An accepted rollback of a run that nothing else touches meanwhile ends  *)
(* with the run rolled back, when no statement fails.                      *)
RollbackServed ==
    \A b \in Undos :
        /\ Without({"late_reject", "rollbacks", "pipeline_and_rollback", "cleanup"})
        /\ undos[b].pc = "accepted"
        ~> status[undos[b].run] = "rolled_back"

-----------------------------------------------------------------------------
(* The refinement of RunLifecycle.                                         *)

PhaseOf(r) ==
    CASE status[r] = "none" /\ r < nextRun -> "purged"
      [] status[r] = "none" /\ r >= nextRun -> "absent"
      [] status[r] = "awaiting_mapping" -> "pending"
      [] status[r] = "mapping_approved" -> "approved"
      [] status[r] = "processing" -> "ingesting"
      [] status[r] \in {"complete", "partial"} -> "ingested"
      [] status[r] = "failed" -> "failed"
      [] status[r] = "rolling_back" -> "undoing"
      [] status[r] = "rolled_back" -> "undone"

Phase == [r \in RunId |-> PhaseOf(r)]

Whole(r) ==
    \A u \in Uploaded(r) : \A k \in 1 .. uploads[u].file.commits : facts[r][k] = 1

Rows == [r \in RunId |-> IF ~HasRows(r) THEN "none" ELSE IF Whole(r) THEN "all" ELSE "some"]

Lifecycle == INSTANCE RunLifecycle WITH Run <- RunId, phase <- Phase, rows <- Rows

(* When no requests overlap, every step of every request is a step of the  *)
(* life of one run, or none.                                               *)
RefinesLifecycle == Lifecycle!LifecycleSpec
===============================================================================
