----------------------------- MODULE OverlapProofs -----------------------------
(***************************************************************************)
(* More properties of IngestionSystem that need the clients to leave some  *)
(* overlap out, for every number of runs and requests, whatever else       *)
(* overlaps and whatever fails; and, when of the overlaps there is none    *)
(* but that of uploads, that IngestionSystem implements RunLifecycle:      *)
(* every step of every request is a step in the life of one run, or none.  *)
(***************************************************************************)
EXTENDS IngestionProofs

(* Nothing of a rolled back run is left.                                   *)

Clean(r) == facts[r] = NoRows /\ derived[r] = 0

MarkingClean == \A b \in Undos : undos[b].pc = "marking" => Clean(undos[b].run)

(* The rows of a rolled back run do not come back because no pipeline is   *)
(* left that could write them.                                             *)
UndoneClean ==
    \A r \in RunId : status[r] = "rolled_back" =>
        /\ Clean(r)
        /\ \A a \in Approvals : approvals[a].pc \in ApprovalBusy => approvals[a].run # r

CleanIInv == Without({"pipeline_and_rollback"}) => MarkingClean /\ UndoneClean

LEMMA CleanInit == Init => CleanIInv
BY DEF Init, StoreInit, UndoInit, CleanIInv, MarkingClean, UndoneClean

(* A step that works on the rows of one run, with no rollback of it under  *)
(* way and none done.                                                      *)
LEMMA CleanElsewhere ==
    ASSUME TypeInv, CleanIInv, Without({"pipeline_and_rollback"}), UNCHANGED <<undos, clients>>,
           NEW r \in RunId,
           \A b \in Undos : undos[b].pc = "marking" => undos[b].run # r \/ UNCHANGED <<facts, derived>>,
           status'[r] # "rolled_back",
           \A q \in RunId \ {r} :
              /\ status'[q] = status[q] /\ facts'[q] = facts[q] /\ derived'[q] = derived[q],
           \A a \in Approvals : approvals'[a].pc \in ApprovalBusy =>
              \/ approvals'[a].run = r
              \/ approvals[a].pc \in ApprovalBusy /\ approvals'[a].run = approvals[a].run
    PROVE  CleanIInv'
<1>1. MarkingClean /\ UndoneClean /\ \A b \in Undos : undos[b].run \in RunId
  BY RequestTypesOf DEF CleanIInv
<1>2. MarkingClean'
  BY <1>1 DEF MarkingClean, Clean
<1>3. UndoneClean'
  BY <1>1 DEF UndoneClean, Clean
<1> QED
  BY <1>2, <1>3 DEF CleanIInv

LEMMA UploadKeepsClean ==
    ASSUME TypeInv, CleanIInv, Without({"pipeline_and_rollback"}), NEW u \in Uploads,
           UploadStep(u) \/ UploadAbort(u), UNCHANGED <<undos, cleanups, clients>>
    PROVE  CleanIInv'
<1>1. status \in [RunId -> RunStatus \union {"none"}] /\ RunsKnown
  BY StoreTypes DEF TypeInv
<1>2. CASE UNCHANGED <<status, facts, derived, approvals>>
  BY <1>2 DEF CleanIInv, MarkingClean, UndoneClean, Clean, Without
<1>3. CASE UploadCreateRun(u)
  <2>1. nextRun \in RunId
    BY <1>3, StoreTypes, StoreAssumption DEF UploadCreateRun, RunId, StoreAssumption
  <2> QED
    BY <1>1, <1>3, <2>1, CleanElsewhere DEF UploadCreateRun
<1>4. CASE UploadMapFails(u)
  BY <1>1, <1>4, CleanElsewhere DEF UploadMapFails, SetStatus, RunsKnown
<1> QED
  BY <1>2, <1>3, <1>4 DEF UploadStep, UploadSetSkip, UploadMap, UploadStoreBytes, UploadAbort, store

LEMMA ApprovalKeepsClean ==
    ASSUME TypeInv, Clients, CleanIInv, Without({"pipeline_and_rollback"}), NEW a \in Approvals,
           ApprovalStep(a) \/ PipelineError(a) \/ ApprovalAbort(a),
           UNCHANGED <<undos, cleanups, clients>>
    PROVE  CleanIInv'
<1> DEFINE r == approvals[a].run
<1>1. /\ approvals \in [Approvals -> ApprovalRec] /\ r \in RunId
      /\ status \in [RunId -> RunStatus \union {"none"}]
      /\ facts \in [RunId -> [BatchId -> Nat]] /\ derived \in [RunId -> Nat]
  BY RequestTypesOf, StoreTypes
<1>2. approvals[a].pc \in ApprovalBusy /\ approvals'[a].run = r
      /\ \A b \in Approvals \ {a} : approvals'[b] = approvals[b]
  BY ApprovalFrame
<1>3. status[r] # "rolled_back" /\ \A b \in Undos : undos[b].pc = "marking" => undos[b].run # r
  BY <1>1, <1>2 DEF CleanIInv, UndoneClean, Without, Clients, UndoAfterPipeline, UndoBusy, UndoPC
<1>4. \A q \in RunId \ {r} :
         status'[q] = status[q] /\ facts'[q] = facts[q] /\ derived'[q] = derived[q]
  BY ApprovalStore
<1>5. status'[r] # "rolled_back"
  <2>1. CASE ApproveCommit(a) \/ PipelineStart(a)
    BY <1>1, <2>1 DEF ApproveCommit, PipelineStart, SetStatus
  <2>2. CASE PipelineFinish(a) \/ PipelineFail(a) \/ PipelineReport(a)
    BY <1>1, <2>2 DEF PipelineFinish, PipelineFail, PipelineReport, SetStatus
  <2>3. CASE UNCHANGED status
    BY <1>3, <2>3
  <2>4. CASE ApproveSpawn(a) \/ PipelineLoad(a) \/ PipelineRead(a) \/ PipelineUpsert(a)
             \/ PipelineBadRow(a) \/ PipelineSelectPolicies(a) \/ PipelineCalculate(a)
             \/ PipelineError(a) \/ ApprovalAbort(a)
    <3>1. UNCHANGED status
      BY <2>4 DEF ApproveSpawn, PipelineLoad, PipelineRead, PipelineUpsert, PipelineBadRow,
                  PipelineSelectPolicies, PipelineCalculate, PipelineError, ApprovalAbort, store
    <3>. QED  BY <2>3, <3>1
  <2> QED
    BY <2>1, <2>2, <2>4 DEF ApprovalStep
<1>6. \A b \in Approvals : approvals'[b].pc \in ApprovalBusy =>
         \/ approvals'[b].run = r
         \/ approvals[b].pc \in ApprovalBusy /\ approvals'[b].run = approvals[b].run
  BY <1>2
<1> HIDE DEF r
<1> QED
  BY <1>1, <1>3, <1>4, <1>5, <1>6, CleanElsewhere

(* The gate is what keeps a second pipeline away from a rolled back run:   *)
(* its session is not pending review any more.                             *)
LEMMA RequestKeepsClean ==
    ASSUME TypeInv, GateInv, CleanIInv, Without({"pipeline_and_rollback"}), ApiRequest,
           UNCHANGED <<undos, cleanups, clients>>
    PROVE  CleanIInv'
<1>1. approvals \in [Approvals -> ApprovalRec] /\ status \in [RunId -> RunStatus \union {"none"}]
  BY RequestTypesOf, StoreTypes
<1>2. CASE UNCHANGED <<status, facts, derived, approvals>>
  BY <1>2 DEF CleanIInv, MarkingClean, UndoneClean, Clean, Without
<1>3. ASSUME NEW a \in Approvals, NEW r \in RunId, ApproveCheck(a, r)
      PROVE  CleanIInv'
  <2>1. UNCHANGED <<status, facts, derived>>
    BY <1>3 DEF ApproveCheck, store
  <2>2. CASE session[r] = "PENDING_REVIEW"
    <3>1. status[r] # "rolled_back"
      BY <2>2 DEF GateInv
    <3>2. approvals'[a].run = r /\ \A b \in Approvals \ {a} : approvals'[b] = approvals[b]
      BY <1>1, <1>3 DEF ApproveCheck, ApprovalRec
    <3> QED
      BY <2>1, <3>1, <3>2, CleanElsewhere
  <2>3. CASE session[r] # "PENDING_REVIEW"
    <3>1. /\ approvals'[a].pc \notin ApprovalBusy
          /\ \A b \in Approvals \ {a} : approvals'[b] = approvals[b]
      BY <1>1, <1>3, <2>3 DEF ApproveCheck, ApprovalBusy, ApprovalRec
    <3> QED
      BY <2>1, <3>1 DEF CleanIInv, MarkingClean, UndoneClean, Clean, Without
  <2> QED
    BY <2>2, <2>3
<1>4. ASSUME NEW r \in RunId, Reject(r)
      PROVE  CleanIInv'
  <2>1. UNCHANGED <<facts, derived, approvals>>
    BY <1>4 DEF Reject, api
  <2>2. status'[r] # "rolled_back" /\ \A q \in RunId \ {r} : status'[q] = status[q]
    BY <1>1, <1>4 DEF Reject, SetStatus
  <2> QED
    BY <2>1, <2>2, CleanElsewhere
<1> QED
  BY <1>2, <1>3, <1>4 DEF ApiRequest, UploadCheckMode, EditProposals, store, api

LEMMA RollbackKeepsClean ==
    ASSUME TypeInv, Clients, CleanIInv, Without({"pipeline_and_rollback"}), UndoNext,
           UNCHANGED <<api, cleanups, clients>>
    PROVE  CleanIInv'
<1>1. PICK b \in Undos : (\E r \in RunId : UndoRequest(b, r)) \/ UndoStep(b) \/ UndoError(b)
                           \/ UndoAbort(b)
  BY DEF UndoNext
<1> DEFINE r == undos[b].run
<1>2. /\ undos \in [Undos -> UndoRec] /\ \A c \in Undos : undos[c].run \in RunId
      /\ status \in [RunId -> RunStatus \union {"none"}]
      /\ facts \in [RunId -> [BatchId -> Nat]] /\ derived \in [RunId -> Nat]
      /\ MarkingClean /\ UndoneClean /\ UNCHANGED approvals
  BY RequestTypesOf, StoreTypes DEF CleanIInv, api
<1>3. CASE UndoDeleteRows(b)
  <2>1. /\ UNCHANGED status /\ Clean(r)'
        /\ \A q \in RunId \ {r} : facts'[q] = facts[q] /\ derived'[q] = derived[q]
        /\ undos'[b].run = r /\ \A c \in Undos \ {b} : undos'[c] = undos[c]
    BY <1>2, <1>3 DEF UndoDeleteRows, Clean, UndoRec
  <2>2. \A q \in RunId : Clean(q) \/ q = r => Clean(q)'
    BY <1>2, <1>3 DEF UndoDeleteRows, Clean
  <2>3. MarkingClean'
    <3> SUFFICES ASSUME NEW c \in Undos, undos'[c].pc = "marking"
                 PROVE  facts'[undos'[c].run] = NoRows /\ derived'[undos'[c].run] = 0
      BY DEF MarkingClean, Clean
    <3>1. CASE c = b
      BY <1>2, <2>1, <2>2, <3>1 DEF Clean
    <3>2. CASE c # b
      BY <1>2, <2>1, <2>2, <3>2 DEF MarkingClean, Clean
    <3> QED
      BY <3>1, <3>2
  <2>4. UndoneClean'
    BY <1>2, <2>1, <2>2 DEF UndoneClean
  <2> QED
    BY <2>3, <2>4 DEF CleanIInv
<1>4. CASE UndoFinishRun(b)
  <2>1. /\ UNCHANGED <<facts, derived>> /\ \A q \in RunId \ {r} : status'[q] = status[q]
        /\ undos'[b].pc # "marking" /\ \A c \in Undos \ {b} : undos'[c] = undos[c]
    BY <1>2, <1>4 DEF UndoFinishRun, SetStatus, UndoRec
  <2>2. Clean(r) /\ \A a \in Approvals : approvals[a].pc \in ApprovalBusy => approvals[a].run # r
    BY <1>2, <1>4 DEF UndoFinishRun, MarkingClean, Without, Clients, UndoAfterPipeline, UndoBusy, UndoPC
  <2>3. MarkingClean'
    BY <1>2, <2>1 DEF MarkingClean, Clean
  <2>4. UndoneClean'
    BY <1>2, <2>1, <2>2 DEF UndoneClean, Clean
  <2> QED
    BY <2>3, <2>4 DEF CleanIInv
<1>5. ASSUME UNCHANGED <<facts, derived>>, \A q \in RunId : status'[q] = "rolled_back" => status[q] = "rolled_back",
             undos'[b].pc # "marking", \A c \in Undos \ {b} : undos'[c] = undos[c]
      PROVE  CleanIInv'
  <2>1. MarkingClean'
    BY <1>2, <1>5 DEF MarkingClean, Clean
  <2>2. UndoneClean'
    BY <1>2, <1>5 DEF UndoneClean, Clean
  <2> QED
    BY <2>1, <2>2 DEF CleanIInv
<1>6. CASE UndoMarkRun(b)
  BY <1>2, <1>5, <1>6 DEF UndoMarkRun, SetStatus, UndoRec
<1>7. CASE \E q \in RunId : UndoRequest(b, q)
  BY <1>2, <1>5, <1>7 DEF UndoRequest, UndoRec, store
<1>8. CASE UndoValidate(b) \/ UndoNoSchema(b) \/ UndoError(b) \/ UndoAbort(b)
  BY <1>2, <1>5, <1>8 DEF UndoValidate, UndoNoSchema, UndoError, UndoAbort, UndoRec, store
<1>9. CASE UndoRecord(b) \/ UndoComplete(b) \/ UndoFail(b)
  BY <1>2, <1>5, <1>9 DEF UndoRecord, UndoComplete, UndoFail, UndoRec
<1> QED
  BY <1>1, <1>3, <1>4, <1>6, <1>7, <1>8, <1>9 DEF UndoStep

LEMMA CleanupKeepsClean ==
    ASSUME TypeInv, CleanIInv, Without({"pipeline_and_rollback"}), CleanupNext,
           UNCHANGED <<api, undos, clients>>
    PROVE  CleanIInv'
<1>1. PICK d \in Cleanups : CleanupRecord(d) \/ CleanupStep(d) \/ CleanupError(d) \/ CleanupAbort(d)
  BY DEF CleanupNext
<1>2. MarkingClean /\ UndoneClean /\ \A b \in Undos : undos[b].run \in RunId
  BY RequestTypesOf DEF CleanIInv
<1>3. CASE CleanupCommit(d)
  <2>1. cleanups[d].facts \in [RunId -> [BatchId -> Nat]] /\ cleanups[d].derived \in [RunId -> Nat]
    BY RequestTypesOf
  <2>2. \A n \in Nat : Left(0, n) = 0
    BY DEF Left
  <2>3. \A r \in RunId : facts[r] = NoRows /\ derived[r] = 0 => facts'[r] = NoRows /\ derived'[r] = 0
    BY <1>3, <2>1, <2>2 DEF CleanupCommit, NoRows
  <2>4. MarkingClean'
    BY <1>2, <2>3 DEF MarkingClean, Clean
  <2>5. UndoneClean'
    BY <1>3 DEF CleanupCommit, UndoneClean
  <2> QED
    BY <2>4, <2>5 DEF CleanIInv
<1>4. CASE UNCHANGED store
  BY <1>4 DEF store, api, CleanIInv, MarkingClean, UndoneClean, Clean, Without
<1> QED
  BY <1>1, <1>3, <1>4 DEF CleanupRecord, CleanupStep, CleanupDeleteFacts, CleanupError, CleanupFail,
                          CleanupAbort

LEMMA CleanInductive == TypeInv /\ Clients /\ GateInv /\ CleanIInv /\ [Next]_vars => CleanIInv'
<1> SUFFICES ASSUME TypeInv, Clients, GateInv, CleanIInv, [Next]_vars,
                    Without({"pipeline_and_rollback"})
             PROVE  CleanIInv'
  <2>1. ASSUME [Next]_vars, Clients
        PROVE  Without({"pipeline_and_rollback"})' <=> Without({"pipeline_and_rollback"})
    BY <2>1, ClientsInductive DEF Without
  <2> QED
    BY <2>1 DEF CleanIInv
<1>1. UNCHANGED clients
  BY ClientsInductive
<1>2. CASE ApiRequest /\ UNCHANGED <<undos, cleanups>>
  BY <1>1, <1>2, RequestKeepsClean
<1>3. CASE ApiStep /\ UNCHANGED <<undos, cleanups>>
  BY <1>1, <1>3, UploadKeepsClean, ApprovalKeepsClean DEF ApiStep
<1>4. CASE UndoNext /\ UNCHANGED <<api, cleanups>>
  BY <1>1, <1>4, RollbackKeepsClean
<1>5. CASE CleanupNext /\ UNCHANGED <<api, undos>>
  BY <1>1, <1>5, CleanupKeepsClean
<1>6. CASE UNCHANGED vars
  BY <1>6 DEF vars, store, api, CleanIInv, MarkingClean, UndoneClean, Clean, Without
<1> QED
  BY <1>2, <1>3, <1>4, <1>5, <1>6 DEF Next, Request

(* When no rollback overlaps a pipeline of its run, a rolled back run has  *)
(* no row of the file and none of the engine, and gets none later, however *)
(* many rollbacks and approvals overlap and whatever fails.                *)
THEOREM RolledBackStaysClean == Spec => []RolledBackIsClean
<1>1. Init => TypeInv /\ Clients /\ GateIInv /\ CleanIInv
  BY InitTypeInv, ClientsInit, GateInit, CleanInit
<1>2. TypeInv /\ Clients /\ GateIInv /\ CleanIInv /\ [Next]_vars
         => (TypeInv /\ Clients /\ GateIInv /\ CleanIInv)'
  BY TypeInvInductive, ClientsInductive, GateInductive, GateImplied, CleanInductive
<1>3. CleanIInv => RolledBackIsClean
  BY DEF CleanIInv, UndoneClean, Clean, RolledBackIsClean, Without
<1> QED
  BY <1>1, <1>2, <1>3, PTL DEF Spec

-----------------------------------------------------------------------------
(* One approval of a run.                                                  *)

(* Once an approval of a run has committed, no other is or gets past its   *)
(* check.                                                                  *)
OneApproval ==
    \A a, b \in Approvals :
        /\ approvals[a].pc \in ApprovalPast
        /\ approvals[b].pc \in ApprovalPast \union {"checked"}
        /\ approvals[a].run = approvals[b].run
        => a = b

OneApprovalIInv == Without({"approvals"}) => OneApproval

LEMMA OneApprovalInit == Init => OneApprovalIInv
BY DEF Init, ApiInit, OneApprovalIInv, OneApproval, ApprovalPast

LEMMA OneApprovalInductive ==
    TypeInv /\ Clients /\ GateInv /\ OneApprovalIInv /\ [Next]_vars => OneApprovalIInv'
<1> SUFFICES ASSUME TypeInv, Clients, GateInv, OneApprovalIInv, [Next]_vars, Without({"approvals"})
             PROVE  OneApproval'
  <2>1. ASSUME [Next]_vars, Clients PROVE Without({"approvals"})' <=> Without({"approvals"})
    BY <2>1, ClientsInductive DEF Without
  <2> QED
    BY <2>1 DEF OneApprovalIInv
<1>1. OneApproval /\ ApprovalsSerial /\ approvals \in [Approvals -> ApprovalRec]
  BY RequestTypesOf DEF OneApprovalIInv, Clients, Without
<1>2. CASE UNCHANGED approvals
  BY <1>1, <1>2 DEF OneApproval
<1>3. ASSUME NEW a \in Approvals, ApprovalStep(a) \/ PipelineError(a) \/ ApprovalAbort(a)
      PROVE  OneApproval'
  <2>1. /\ approvals[a].pc \in ApprovalBusy /\ approvals'[a].run = approvals[a].run
        /\ approvals'[a].pc \in ApprovalPast \/ approvals'[a].pc = "refused"
        /\ \A b \in Approvals \ {a} : approvals'[b] = approvals[b]
    BY <1>3, ApprovalFrame
  <2>2. approvals[a].pc \in ApprovalPast \union {"checked"}
    BY <1>1, <2>1 DEF ApprovalBusy, ApprovalPast, ApprovalPC
  <2>3. "checked" \in ApprovalBusy /\ "refused" \notin ApprovalPast \union {"checked"}
    BY DEF ApprovalBusy, ApprovalPast, ApprovalPC
  <2>4. \A b \in Approvals \ {a} : approvals[b].run = approvals[a].run =>
           approvals[b].pc \notin ApprovalPast \union {"checked"}
    BY <1>1, <2>1, <2>2, <2>3 DEF OneApproval, ApprovalsSerial
  <2> QED
    BY <1>1, <2>1, <2>3, <2>4 DEF OneApproval
<1>4. ASSUME NEW a \in Approvals, NEW r \in RunId, ApproveCheck(a, r)
      PROVE  OneApproval'
  <2>1. /\ approvals'[a].run = r /\ \A b \in Approvals \ {a} : approvals'[b] = approvals[b]
        /\ \/ approvals'[a].pc = "refused"
           \/ approvals'[a].pc = "checked" /\ session[r] = "PENDING_REVIEW"
    BY <1>1, <1>4 DEF ApproveCheck, ApprovalRec
  <2>2. session[r] = "PENDING_REVIEW" =>
           \A b \in Approvals : approvals[b].pc \in ApprovalPast => approvals[b].run # r
    BY DEF GateInv
  <2> QED
    BY <1>1, <2>1, <2>2 DEF OneApproval, ApprovalPast
<1>5. CASE ApiRequest
  BY <1>2, <1>4, <1>5 DEF ApiRequest, UploadCheckMode, EditProposals, Reject, api
<1>6. CASE ApiStep
  BY <1>2, <1>3, <1>6
  DEF ApiStep, UploadStep, UploadAbort, UploadCreateRun, UploadSetSkip, UploadMap, UploadMapFails,
      UploadStoreBytes
<1> QED
  BY <1>2, <1>5, <1>6 DEF Next, Request, vars, api

-----------------------------------------------------------------------------
(* Failed runs do not come back.                                           *)

Approved(r) == \E a \in Approvals : approvals[a].pc \in ApprovalPast /\ approvals[a].run = r

(* Whoever finds a run complete, or rolls it back, finds the approval that *)
(* committed it.                                                           *)
ApprovedIInv ==
    /\ \A r \in RunId : status[r] \in {"complete", "partial"} => Approved(r)
    /\ \A b \in Undos : undos[b].pc \in UndoBusy => Approved(undos[b].run)

LEMMA ApprovedInit == Init => ApprovedIInv
BY DEF Init, StoreInit, UndoInit, ApprovedIInv, UndoBusy

LEMMA ApprovedInductive == TypeInv /\ ApprovedIInv /\ [Next]_vars => ApprovedIInv'
<1> SUFFICES ASSUME TypeInv, ApprovedIInv, [Next]_vars
             PROVE  ApprovedIInv'
  OBVIOUS
<1>1. /\ approvals \in [Approvals -> ApprovalRec] /\ undos \in [Undos -> UndoRec]
      /\ status \in [RunId -> RunStatus \union {"none"}]
      /\ \A b \in Undos : undos[b].run \in RunId
  BY RequestTypesOf, StoreTypes
<1>2. ASSUME UNCHANGED undos,
             \A r \in RunId : status'[r] \in {"complete", "partial"} => status[r] = status'[r],
             \A r \in RunId : Approved(r) => Approved(r)'
      PROVE  ApprovedIInv'
  BY <1>1, <1>2 DEF ApprovedIInv
<1>3. ASSUME NEW a \in Approvals, ApprovalStep(a) \/ PipelineError(a) \/ ApprovalAbort(a), UNCHANGED undos
      PROVE  ApprovedIInv'
  <2>1. /\ approvals'[a].run = approvals[a].run /\ approvals[a].run \in RunId
        /\ approvals[a].pc \in ApprovalPast => approvals'[a].pc \in ApprovalPast
        /\ \A b \in Approvals \ {a} : approvals'[b] = approvals[b]
    BY <1>3, ApprovalFrame, RequestTypesOf
  <2>2. \A r \in RunId : Approved(r) => Approved(r)'
    BY <2>1 DEF Approved
  <2>3. CASE PipelineFinish(a)
    <3>1. approvals'[a].pc \in ApprovalPast
      BY <1>1, <2>3 DEF PipelineFinish, Goto, ApprovalPast, ApprovalPC
    <3>3. \A q \in RunId \ {approvals[a].run} : status'[q] = status[q]
      BY <1>3, ApprovalStore
    <3>4. \A r \in RunId : status'[r] \in {"complete", "partial"} => Approved(r)'
      <4>1. ASSUME NEW r \in RunId, status'[r] \in {"complete", "partial"}, r # approvals[a].run
            PROVE  Approved(r)'
        BY <2>2, <3>3, <4>1 DEF ApprovedIInv
      <4>2. ASSUME NEW r \in RunId, r = approvals[a].run
            PROVE  Approved(r)'
        BY <2>1, <3>1, <4>2 DEF Approved
      <4> QED
        BY <4>1, <4>2
    <3>5. \A b \in Undos : undos[b].pc \in UndoBusy => Approved(undos[b].run)'
      <4>1. ASSUME NEW b \in Undos, undos[b].pc \in UndoBusy PROVE Approved(undos[b].run)'
        <5>1. PICK c \in Approvals : approvals[c].pc \in ApprovalPast /\ approvals[c].run = undos[b].run
          BY <4>1 DEF ApprovedIInv, Approved
        <5>2. approvals'[c].pc \in ApprovalPast /\ approvals'[c].run = undos[b].run /\ undos'[b] = undos[b]
          BY <1>3, <2>1, <5>1
        <5> QED
          BY <5>2 DEF Approved
      <4> QED
        BY <4>1
    <3> QED
      BY <1>3, <3>4, <3>5 DEF ApprovedIInv
  <2>4. CASE ~PipelineFinish(a)
    <3>1. \A r \in RunId : status'[r] \in {"complete", "partial"} => status[r] = status'[r]
      BY <1>3, <2>4, ApprovalStore
    <3> QED
      BY <1>2, <1>3, <2>2, <3>1
  <2> QED
    BY <2>3, <2>4
<1>4. ASSUME NEW b \in Undos,
             (\E r \in RunId : UndoRequest(b, r)) \/ UndoStep(b) \/ UndoError(b) \/ UndoAbort(b),
             UNCHANGED approvals
      PROVE  ApprovedIInv'
  <2>1. \A r \in RunId : Approved(r)' <=> Approved(r)
    BY <1>4 DEF Approved
  <2>2. \A r \in RunId : status'[r] \in {"complete", "partial"} => status'[r] = status[r]
    BY <1>4, UndoFrame
  <2>3. \A c \in Undos \ {b} : undos'[c] = undos[c]
    BY <1>4, UndoFrame
  <2>4. \/ undos[b].pc \in UndoBusy /\ undos'[b].run = undos[b].run
        \/ /\ undos'[b].run \in RunId
           /\ undos'[b].pc \in UndoBusy => status[undos'[b].run] \in {"complete", "partial"}
    BY <1>4, UndoFrame DEF UndoBusy
  <2>5. undos'[b].pc \in UndoBusy => undos'[b].run \in RunId /\ Approved(undos'[b].run)
    BY <1>1, <2>4 DEF ApprovedIInv
  <2> QED
    BY <1>1, <2>1, <2>2, <2>3, <2>5 DEF ApprovedIInv
<1>5. ASSUME NEW a \in Approvals, NEW r \in RunId, ApproveCheck(a, r), UNCHANGED undos
      PROVE  ApprovedIInv'
  <2>1. UNCHANGED status /\ approvals[a].pc = "idle" /\ \A b \in Approvals \ {a} : approvals'[b] = approvals[b]
    BY <1>1, <1>5 DEF ApproveCheck, store
  <2>2. \A q \in RunId : Approved(q) => Approved(q)'
    BY <2>1 DEF Approved, ApprovalPast
  <2> QED
    BY <1>2, <1>5, <2>1, <2>2
<1>6. ASSUME UNCHANGED <<approvals, undos>>,
             \A r \in RunId : status'[r] \in {"complete", "partial"} => status[r] = status'[r]
      PROVE  ApprovedIInv'
  BY <1>2, <1>6 DEF Approved
<1>7. CASE ApiRequest /\ UNCHANGED <<undos, cleanups>>
  BY <1>1, <1>5, <1>6, <1>7
  DEF ApiRequest, UploadCheckMode, EditProposals, Reject, SetStatus, api, store
<1>8. CASE ApiStep /\ UNCHANGED <<undos, cleanups>>
  <2>1. ASSUME NEW u \in Uploads, UploadStep(u) \/ UploadAbort(u) PROVE ApprovedIInv'
    BY <1>1, <1>6, <1>8, <2>1
    DEF UploadStep, UploadAbort, UploadCreateRun, UploadSetSkip, UploadMap, UploadMapFails,
        UploadStoreBytes, SetStatus, store
  <2> QED
    BY <1>3, <1>8, <2>1 DEF ApiStep
<1>9. CASE CleanupNext /\ UNCHANGED <<api, undos>>
  BY <1>6, <1>9
  DEF CleanupNext, CleanupStep, CleanupRecord, CleanupDeleteFacts, CleanupCommit, CleanupFail,
      CleanupError, CleanupAbort, api, store
<1>10. CASE UNCHANGED vars
  BY <1>6, <1>10 DEF vars, api, store
<1> QED
  BY <1>4, <1>7, <1>8, <1>9, <1>10 DEF Next, Request, UndoNext, api

(* No request is left that takes a failed run to another status. *)
FailedStays ==
    \A r \in RunId : status[r] = "failed" =>
        /\ \A a \in Approvals : approvals[a].pc \in ToIngest => approvals[a].run # r
        /\ \A b \in Undos : undos[b].pc \in UndoBusy => undos[b].run # r

FailedIInv == Without({"approvals", "late_reject", "pipeline_and_rollback"}) => FailedStays

LEMMA FailedInit == Init => FailedIInv
BY DEF Init, StoreInit, FailedIInv, FailedStays

LEMMA ToIngestFacts ==
    /\ ToIngest \subseteq ApprovalBusy /\ ToIngest \subseteq ApprovalPast \union {"checked"}
    /\ {"idle", "refused"} \intersect ToIngest = {} /\ "idle" \notin UndoBusy
BY DEF ToIngest, ApprovalBusy, ApprovalPast, ApprovalPC, UndoBusy

LEMMA FailedInductive ==
    TypeInv /\ Clients /\ GateIInv /\ OneApprovalIInv /\ ApprovedIInv /\ FailedIInv /\ [Next]_vars
        => FailedIInv'
<1> SUFFICES ASSUME TypeInv, Clients, GateIInv, OneApprovalIInv, ApprovedIInv, FailedIInv, [Next]_vars,
                    Without({"approvals", "late_reject", "pipeline_and_rollback"})
             PROVE  FailedStays'
  <2>1. ASSUME [Next]_vars, Clients
        PROVE  Without({"approvals", "late_reject", "pipeline_and_rollback"})'
                  <=> Without({"approvals", "late_reject", "pipeline_and_rollback"})
    BY <2>1, ClientsInductive DEF Without
  <2> QED
    BY <2>1 DEF FailedIInv
<1>1. /\ FailedStays /\ OneApproval /\ RejectBeforeApproval /\ UndoAfterPipeline
      /\ "late_reject" \notin clients /\ UNCHANGED clients
  BY ClientsInductive DEF FailedIInv, OneApprovalIInv, Clients, Without
<1>2. /\ approvals \in [Approvals -> ApprovalRec] /\ undos \in [Undos -> UndoRec]
      /\ status \in [RunId -> RunStatus \union {"none"}]
      /\ session \in [RunId -> SessionStatus \union {"none"}]
  BY RequestTypesOf, StoreTypes
<1>3. ASSUME UNCHANGED <<approvals, undos>>,
             \A r \in RunId : status'[r] = "failed" => status[r] = "failed"
      PROVE  FailedStays'
  BY <1>1, <1>3 DEF FailedStays
<1>4. ASSUME NEW a \in Approvals, ApprovalStep(a) \/ PipelineError(a) \/ ApprovalAbort(a), UNCHANGED undos
      PROVE  FailedStays'
  <2> DEFINE r == approvals[a].run
  <2>1. /\ approvals[a].pc \in ApprovalBusy /\ approvals'[a].run = r
        /\ approvals'[a].pc \in ToIngest => approvals[a].pc \in ToIngest
        /\ \A b \in Approvals \ {a} : approvals'[b] = approvals[b]
        /\ \A q \in RunId \ {r} : status'[q] = status[q]
    BY <1>4, ApprovalFrame, ApprovalStore
  <2>2. \A b \in Undos : undos[b].pc \in UndoBusy => undos[b].run # r
    BY <1>1, <2>1 DEF UndoAfterPipeline
  <2>3. CASE status'[r] = "failed" /\ status[r] # "failed"
    <3>1. PipelineFail(a) \/ PipelineReport(a)
      BY <1>2, <1>4, <2>3
      DEF ApprovalStep, ApproveCommit, ApproveSpawn, PipelineLoad, PipelineRead, PipelineStart,
          PipelineUpsert, PipelineBadRow, PipelineFinish, PipelineSelectPolicies, PipelineCalculate,
          PipelineError, ApprovalAbort, SetStatus, store
    <3>2. approvals[a].pc \in ApprovalPast /\ approvals'[a].pc \notin ToIngest
      <4>1. /\ approvals[a].pc \in {"failing", "reporting"}
            /\ \E pc \in {"reporting", "failed"} : Goto(a, pc)
        BY <3>1 DEF PipelineFail, PipelineReport
      <4>2. approvals'[a].pc \in {"reporting", "failed"}
        BY <1>2, <4>1 DEF Goto, ApprovalRec
      <4> QED
        BY <4>1, <4>2 DEF ApprovalPast, ApprovalPC, ToIngest
    <3>3. \A b \in Approvals \ {a} : approvals[b].pc \in ToIngest => approvals[b].run # r
      BY <1>1, <3>2, ToIngestFacts DEF OneApproval
    <3> QED
      BY <1>1, <1>4, <2>1, <2>2, <3>2, <3>3 DEF FailedStays
  <2>4. CASE ~(status'[r] = "failed" /\ status[r] # "failed")
    BY <1>1, <1>4, <2>1, <2>2, <2>4 DEF FailedStays
  <2> QED
    BY <2>3, <2>4
<1>5. ASSUME NEW a \in Approvals, NEW r \in RunId, ApproveCheck(a, r), UNCHANGED undos
      PROVE  FailedStays'
  <2>1. UNCHANGED status /\ \A b \in Approvals \ {a} : approvals'[b] = approvals[b]
    BY <1>2, <1>5 DEF ApproveCheck, store
  <2>2. /\ approvals'[a].run = r
        /\ approvals'[a].pc = "refused" \/ session[r] = "PENDING_REVIEW"
    BY <1>2, <1>5 DEF ApproveCheck, ApprovalRec
  <2>3. session[r] = "PENDING_REVIEW" => status[r] # "failed"
    BY DEF GateIInv, PendingUntouched, Untouched
  <2> QED
    BY <1>1, <1>5, <2>1, <2>2, <2>3, ToIngestFacts DEF FailedStays
<1>6. ASSUME NEW b \in Undos,
             (\E r \in RunId : UndoRequest(b, r)) \/ UndoStep(b) \/ UndoError(b) \/ UndoAbort(b),
             UNCHANGED approvals
      PROVE  FailedStays'
  <2>1. \A r \in RunId : status'[r] = "failed" => status[r] = "failed"
    BY <1>6, UndoFrame
  <2>2. \A c \in Undos \ {b} : undos'[c] = undos[c]
    BY <1>6, UndoFrame
  <2>3. \/ undos[b].pc \in UndoBusy /\ undos'[b].run = undos[b].run
        \/ /\ undos'[b].run \in RunId /\ UNCHANGED status
           /\ undos'[b].pc \in UndoBusy => status[undos'[b].run] \in {"complete", "partial"}
    BY <1>6, UndoFrame DEF UndoBusy, store
  <2> QED
    BY <1>1, <1>6, <2>1, <2>2, <2>3 DEF FailedStays
<1>7. ASSUME NEW r \in RunId, Reject(r), UNCHANGED undos, Clients'
      PROVE  FailedStays'
  <2>1. /\ UNCHANGED approvals /\ session'[r] = "REJECTED"
        /\ \A q \in RunId \ {r} : status'[q] = status[q]
    BY <1>2, <1>7 DEF Reject, SetStatus, SetSession, api
  <2>2. RejectBeforeApproval'
    BY <1>1, <1>7 DEF Clients
  <2>3. \A a \in Approvals : approvals[a].pc \notin {"idle", "refused"} => approvals[a].run # r
    BY <2>1, <2>2 DEF RejectBeforeApproval
  <2>4. ~Approved(r)
    BY <2>3 DEF Approved, ApprovalPast
  <2>5. \A b \in Undos : undos[b].pc \in UndoBusy => undos[b].run # r
    BY <2>4 DEF ApprovedIInv
  <2> QED
    BY <1>1, <1>7, <2>1, <2>3, <2>5, ToIngestFacts DEF FailedStays
<1>8. ASSUME NEW u \in Uploads, UploadStep(u) \/ UploadAbort(u), UNCHANGED undos
      PROVE  FailedStays'
  <2>1. CASE UploadMapFails(u)
    <3>1. uploads[u].pc = "mapping" /\ uploads[u].run \in RunId
      BY <2>1 DEF UploadMapFails, TypeInv, RunsKnown
    <3>2. uploads[u].run \in Unseen
      BY <3>1 DEF GateIInv, MappingUnseen, BeforeSession
    <3>3. /\ \A a \in Approvals : approvals[a].pc \in ToIngest => approvals[a].run # uploads[u].run
          /\ \A b \in Undos : undos[b].pc \in UndoBusy => undos[b].run # uploads[u].run
      BY <3>2, ToIngestFacts DEF Unseen, Untouched
    <3>4. UNCHANGED approvals /\ \A q \in RunId \ {uploads[u].run} : status'[q] = status[q]
      BY <1>2, <2>1, <3>1 DEF UploadMapFails, SetStatus
    <3> QED
      BY <1>1, <1>8, <3>3, <3>4 DEF FailedStays
  <2>2. CASE ~UploadMapFails(u)
    BY <1>2, <1>3, <1>8, <2>2
    DEF UploadStep, UploadAbort, UploadCreateRun, UploadSetSkip, UploadMap, UploadStoreBytes, store
  <2> QED
    BY <2>1, <2>2
<1>9. CASE ApiRequest /\ UNCHANGED <<undos, cleanups>> /\ Clients'
  BY <1>3, <1>5, <1>7, <1>9 DEF ApiRequest, UploadCheckMode, EditProposals, api, store
<1>10. CASE ApiStep /\ UNCHANGED <<undos, cleanups>>
  BY <1>4, <1>8, <1>10 DEF ApiStep
<1>11. CASE CleanupNext /\ UNCHANGED <<api, undos>>
  BY <1>3, <1>11
  DEF CleanupNext, CleanupStep, CleanupRecord, CleanupDeleteFacts, CleanupCommit, CleanupFail,
      CleanupError, CleanupAbort, api, store
<1>12. CASE UNCHANGED vars
  BY <1>3, <1>12 DEF vars, api, store
<1> QED
  BY <1>6, <1>9, <1>10, <1>11, <1>12 DEF Next, Request, UndoNext, api

-----------------------------------------------------------------------------
(* One mode of a carrier.                                                  *)

SameModes == \A c \in Carriers : \A r, q \in LockingRuns(c) : owner[r].mode = owner[q].mode

(* What an upload read before its await is still so when it inserts. *)
CheckedModes ==
    \A u \in Uploads : uploads[u].pc = "checked" =>
        \A r \in LockingRuns(uploads[u].carrier) : owner[r].mode = uploads[u].mode

LockIInv ==
    Without({"uploads", "approvals", "late_reject", "pipeline_and_rollback"}) =>
        SameModes /\ CheckedModes

LEMMA LockInit == Init => LockIInv
BY DEF Init, StoreInit, ApiInit, LockIInv, SameModes, CheckedModes, LockingRuns

(* The lowest of the runs that lock a carrier exists, so the query that    *)
(* returns its mode finds one.                                             *)
LEMMA LowestRun ==
    ASSUME NEW S \in SUBSET RunId, S # {}
    PROVE  \E r \in S : \A q \in S : r <= q
<1>1. IsWellFoundedOn(OpToRel(<, Nat), Nat)
  BY NatLessThanWellFounded
<1>2. S \subseteq Nat
  BY RunIdFacts
<1>3. PICK r \in S : \A q \in S : ~ (<<q, r>> \in OpToRel(<, Nat))
  BY <1>1, <1>2, WFMin
<1>4. \A q \in S : ~ (q < r)
  BY <1>2, <1>3 DEF OpToRel
<1> QED
  BY <1>2, <1>4

LEMMA UncheckedModes ==
    ASSUME TypeInv, SameModes, NEW c \in Carriers, NEW m \in Modes,
           ~ \E other \in Modes \ {m} : LockedMode(c, other)
    PROVE  \A r \in LockingRuns(c) : owner[r].mode = m
<1> SUFFICES ASSUME NEW q \in LockingRuns(c) PROVE owner[q].mode = m
  OBVIOUS
<1>1. LockingRuns(c) \in SUBSET RunId
  BY DEF LockingRuns
<1>2. PICK r \in LockingRuns(c) : \A p \in LockingRuns(c) : r <= p
  BY <1>1, LowestRun
<1>3. owner[r].mode \in Modes
  BY <1>1, <1>2, StoreTypes DEF OwnerRec
<1>4. LockedMode(c, owner[r].mode)
  BY <1>2 DEF LockedMode
<1> QED
  BY <1>2, <1>3, <1>4 DEF SameModes

(* A step that brings no run under the lock keeps it. *)
LEMMA NoNewLock ==
    ASSUME SameModes, CheckedModes,
           \A r \in RunId : /\ owner'[r].mode = owner[r].mode /\ owner'[r].carrier = owner[r].carrier
                            /\ status'[r] \notin {"none", "failed"} => status[r] \notin {"none", "failed"},
           \A u \in Uploads : uploads'[u].pc = "checked" => uploads'[u] = uploads[u]
    PROVE  SameModes' /\ CheckedModes'
<1>1. \A c : LockingRuns(c)' \subseteq LockingRuns(c)
  BY DEF LockingRuns
<1>2. \A c : LockingRuns(c)' \subseteq RunId
  BY DEF LockingRuns
<1>3. SameModes'
  BY <1>1, <1>2 DEF SameModes
<1>4. ASSUME NEW u \in Uploads, uploads'[u].pc = "checked", NEW r \in LockingRuns(uploads[u].carrier)'
      PROVE  owner'[r].mode = uploads'[u].mode
  <2>1. uploads'[u] = uploads[u]
    BY <1>4
  <2>2. r \in RunId /\ status'[r] \notin {"none", "failed"} /\ owner'[r].carrier = uploads[u].carrier
    BY <1>4, <2>1 DEF LockingRuns
  <2>3. r \in LockingRuns(uploads[u].carrier)
    BY <2>2 DEF LockingRuns
  <2> QED
    BY <1>4, <2>1, <2>2, <2>3 DEF CheckedModes
<1> QED
  BY <1>3, <1>4 DEF CheckedModes

LEMMA CreateKeepsLock ==
    ASSUME TypeInv, SameModes, CheckedModes, UploadsSerial, NEW u \in Uploads, UploadCreateRun(u)
    PROVE  SameModes' /\ CheckedModes'
<1>1. /\ uploads \in [Uploads -> UploadRec] /\ owner \in [RunId -> OwnerRec]
      /\ status \in [RunId -> RunStatus \union {"none"}]
  BY RequestTypesOf, StoreTypes
<1>2. /\ uploads[u].pc = "checked" /\ uploads'[u].pc # "checked"
      /\ \A v \in Uploads \ {u} : uploads'[v] = uploads[v]
      /\ uploads[u].carrier \in Carriers
  BY <1>1 DEF UploadCreateRun, UploadRec
<1>3. \A v \in Uploads : uploads'[v].pc # "checked"
  BY <1>2 DEF UploadsSerial, UploadBusy
<1>4. nextRun \in RunId
  BY StoreTypes, StoreAssumption DEF UploadCreateRun, StoreAssumption, RunId
<1>5. /\ owner'[nextRun].carrier = uploads[u].carrier /\ owner'[nextRun].mode = uploads[u].mode
      /\ \A r \in RunId \ {nextRun} : owner'[r] = owner[r] /\ status'[r] = status[r]
  BY <1>1, <1>4 DEF UploadCreateRun
<1>6. \A c : \A r \in LockingRuns(c)' : r \in RunId /\ owner'[r].carrier = c
                                         /\ (r # nextRun => r \in LockingRuns(c))
  BY <1>5 DEF LockingRuns
<1>7. ASSUME NEW c \in Carriers, NEW r \in LockingRuns(c)', NEW q \in LockingRuns(c)'
      PROVE  owner'[r].mode = owner'[q].mode
  <2>1. CASE r # nextRun /\ q # nextRun
    BY <1>5, <1>6, <1>7, <2>1 DEF SameModes
  <2>2. CASE nextRun \in {r, q}
    <3>1. c = uploads[u].carrier
      BY <1>5, <1>6, <1>7, <2>2
    <3>2. \A p \in {r, q} : owner'[p].mode = uploads[u].mode
      BY <1>2, <1>5, <1>6, <1>7, <3>1 DEF CheckedModes
    <3> QED
      BY <3>2
  <2> QED
    BY <2>1, <2>2
<1> QED
  BY <1>3, <1>7 DEF SameModes, CheckedModes

LEMMA LockInductive ==
    TypeInv /\ Clients /\ FailedIInv /\ LockIInv /\ [Next]_vars => LockIInv'
<1> SUFFICES ASSUME TypeInv, Clients, FailedIInv, LockIInv, [Next]_vars,
                    Without({"uploads", "approvals", "late_reject", "pipeline_and_rollback"})
             PROVE  SameModes' /\ CheckedModes'
  <2>1. ASSUME [Next]_vars, Clients
        PROVE  Without({"uploads", "approvals", "late_reject", "pipeline_and_rollback"})'
                  <=> Without({"uploads", "approvals", "late_reject", "pipeline_and_rollback"})
    BY <2>1, ClientsInductive DEF Without
  <2> QED
    BY <2>1 DEF LockIInv
<1>1. SameModes /\ CheckedModes /\ FailedStays /\ UploadsSerial
  BY DEF LockIInv, FailedIInv, Clients, Without
<1>2. /\ uploads \in [Uploads -> UploadRec] /\ owner \in [RunId -> OwnerRec]
      /\ status \in [RunId -> RunStatus \union {"none"}]
  BY RequestTypesOf, StoreTypes
<1>3. ASSUME UNCHANGED <<owner, uploads>>,
             \A r \in RunId : status'[r] \notin {"none", "failed"} => status[r] \notin {"none", "failed"}
      PROVE  SameModes' /\ CheckedModes'
  BY <1>1, <1>3, NoNewLock
<1>4. ASSUME NEW a \in Approvals, ApprovalStep(a) \/ PipelineError(a) \/ ApprovalAbort(a)
      PROVE  SameModes' /\ CheckedModes'
  <2>1. UNCHANGED <<owner, uploads>>
    BY <1>4, ApprovalFrame
  <2>2. status[approvals[a].run] = "failed" => approvals[a].pc \notin ToIngest
    BY <1>1, RequestTypesOf DEF FailedStays
  <2>3. \A r \in RunId : status'[r] \notin {"none", "failed"} => status[r] \notin {"none", "failed"}
    BY <1>4, <2>2, ApprovalStore
  <2> QED
    BY <1>3, <2>1, <2>3
<1>5. ASSUME NEW b \in Undos,
             (\E r \in RunId : UndoRequest(b, r)) \/ UndoStep(b) \/ UndoError(b) \/ UndoAbort(b),
             UNCHANGED api
      PROVE  SameModes' /\ CheckedModes'
  <2>1. UNCHANGED <<owner, uploads>>
    BY <1>5, UndoFrame DEF api
  <2>2. \A r \in RunId : status'[r] \notin {"none", "failed"} => status[r] \notin {"none", "failed"}
    BY <1>1, <1>5, UndoFrame DEF FailedStays
  <2> QED
    BY <1>3, <2>1, <2>2
<1>6. ASSUME NEW u \in Uploads, NEW c \in Carriers, NEW m \in Modes, NEW sk \in BOOLEAN,
             NEW f \in Files, UploadCheckMode(u, c, m, sk, f)
      PROVE  SameModes' /\ CheckedModes'
  <2>1. /\ UNCHANGED <<owner, status>> /\ \A v \in Uploads \ {u} : uploads'[v] = uploads[v]
        /\ uploads'[u].carrier = c /\ uploads'[u].mode = m
        /\ uploads'[u].pc = "checked" => ~ \E other \in Modes \ {m} : LockedMode(c, other)
    BY <1>2, <1>6 DEF UploadCheckMode, store
  <2>2. uploads'[u].pc = "checked" => \A r \in LockingRuns(c) : owner[r].mode = m
    BY <1>1, <2>1, UncheckedModes
  <2>3. \A d : LockingRuns(d)' = LockingRuns(d)
    BY <2>1 DEF LockingRuns
  <2>4. SameModes'
    BY <1>1, <2>1, <2>3 DEF SameModes
  <2>5. \A v \in Uploads : uploads'[v].pc = "checked" =>
           \A r \in LockingRuns(uploads'[v].carrier) : owner[r].mode = uploads'[v].mode
    BY <1>1, <2>1, <2>2 DEF CheckedModes
  <2>6. CheckedModes'
    BY <2>1, <2>5 DEF CheckedModes, LockingRuns
  <2> QED
    BY <2>4, <2>6
<1>7. ASSUME NEW u \in Uploads, UploadStep(u) \/ UploadAbort(u)
      PROVE  SameModes' /\ CheckedModes'
  <2>1. CASE UploadCreateRun(u)
    BY <1>1, <2>1, CreateKeepsLock
  <2>2. CASE UploadSetSkip(u)
    <3>1. \A v \in Uploads : uploads'[v].pc = "checked" => uploads'[v] = uploads[v]
      BY <1>2, <2>2 DEF UploadSetSkip, UploadRec
    <3>2. \A r \in RunId : owner'[r].mode = owner[r].mode /\ owner'[r].carrier = owner[r].carrier
      BY <1>2, <2>2 DEF UploadSetSkip, OwnerRec
    <3> QED
      BY <1>1, <2>2, <3>1, <3>2, NoNewLock DEF UploadSetSkip
  <2>3. CASE UploadMap(u) \/ UploadMapFails(u) \/ UploadStoreBytes(u) \/ UploadAbort(u)
    <3>1. \A v \in Uploads : uploads'[v].pc = "checked" => uploads'[v] = uploads[v]
      BY <1>2, <2>3 DEF UploadMap, UploadMapFails, UploadStoreBytes, UploadAbort, UploadRec
    <3>2. /\ UNCHANGED owner
          /\ \A r \in RunId : status'[r] \notin {"none", "failed"} => status[r] \notin {"none", "failed"}
      BY <1>2, <2>3 DEF UploadMap, UploadMapFails, UploadStoreBytes, UploadAbort, SetStatus, store
    <3> QED
      BY <1>1, <3>1, <3>2, NoNewLock
  <2> QED
    BY <1>7, <2>1, <2>2, <2>3 DEF UploadStep
<1>8. CASE ApiRequest
  <2>1. ASSUME NEW r \in RunId, EditProposals(r) \/ Reject(r) PROVE SameModes' /\ CheckedModes'
    BY <1>2, <1>3, <2>1 DEF EditProposals, Reject, SetStatus, api
  <2>2. ASSUME NEW a \in Approvals, NEW r \in RunId, ApproveCheck(a, r) PROVE SameModes' /\ CheckedModes'
    BY <1>3, <2>2 DEF ApproveCheck, store
  <2> QED
    BY <1>6, <1>8, <2>1, <2>2 DEF ApiRequest
<1>9. CASE ApiStep
  BY <1>4, <1>7, <1>9 DEF ApiStep
<1>10. CASE CleanupNext /\ UNCHANGED <<api, undos>>
  BY <1>3, <1>10
  DEF CleanupNext, CleanupStep, CleanupRecord, CleanupDeleteFacts, CleanupCommit, CleanupFail,
      CleanupError, CleanupAbort, api, store
<1>11. CASE UNCHANGED vars
  BY <1>3, <1>11 DEF vars, api, store
<1> QED
  BY <1>5, <1>8, <1>9, <1>10, <1>11 DEF Next, Request, UndoNext

(* When uploads do not overlap, a run is approved once and nobody rejects  *)
(* or rolls back under a pipeline, all runs that lock a carrier have one   *)
(* mode, although upload_file looks at the lowest run only and the INSERT  *)
(* comes after another await.                                              *)
THEOREM CarrierHasOneMode == Spec => []ModeLock
<1>1. Init => /\ TypeInv /\ Clients /\ GateIInv
              /\ OneApprovalIInv /\ ApprovedIInv /\ FailedIInv /\ LockIInv
  BY InitTypeInv, ClientsInit, GateInit, OneApprovalInit, ApprovedInit, FailedInit, LockInit
<1>2. /\ TypeInv /\ Clients /\ GateIInv
      /\ OneApprovalIInv /\ ApprovedIInv /\ FailedIInv /\ LockIInv
      /\ [Next]_vars
      => /\ TypeInv' /\ Clients' /\ GateIInv'
         /\ OneApprovalIInv' /\ ApprovedIInv' /\ FailedIInv' /\ LockIInv'
  BY TypeInvInductive, ClientsInductive, GateInductive, GateImplied, OneApprovalInductive,
     ApprovedInductive, FailedInductive, LockInductive
<1>3. LockIInv => ModeLock
  BY DEF LockIInv, SameModes, ModeLock
<1> QED
  BY <1>1, <1>2, <1>3, PTL DEF Spec

-----------------------------------------------------------------------------
(* Every transaction of a complete run, exactly once.                      *)

BeforeUpsert == {"checked", "saving", "loading", "reading", "starting"}
Ingested == {"complete", "partial"}

(* Every upload inserts a run of its own. *)
RunsUsed ==
    /\ \A u \in Uploads : uploads[u].run < nextRun
    /\ \A u, v \in Uploads : uploads[u].run = uploads[v].run /\ uploads[u].run # 0 => u = v

FilesStored ==
    \A u \in Uploads : uploads[u].pc = "done" /\ Exists(uploads[u].run) =>
        bytes[uploads[u].run] = uploads[u].file

EmptyBefore ==
    \A a \in Approvals : approvals[a].pc \in BeforeUpsert => facts[approvals[a].run] = NoRows

(* The pipeline ingests the file that was uploaded for its run ... *)
FilesRead ==
    \A a \in Approvals, u \in Uploads :
        /\ approvals[a].pc \in {"starting", "upserting"}
        /\ uploads[u].run = approvals[a].run /\ Exists(approvals[a].run)
        => approvals[a].file = uploads[u].file

(* ... and has committed the transactions before the next one, once each. *)
UpsertedOnce ==
    \A a \in Approvals : approvals[a].pc = "upserting" /\ Exists(approvals[a].run) =>
        /\ approvals[a].next <= approvals[a].file.commits + 1
        /\ \A k \in BatchId :
              facts[approvals[a].run][k] = IF k < approvals[a].next THEN 1 ELSE 0

(* Nothing ingests a run that is complete or being rolled back. *)
NotIngesting(r) == \A a \in Approvals : approvals[a].pc \in ToIngest => approvals[a].run # r

IngestedIsLeft ==
    /\ \A r \in RunId : status[r] \in Ingested => NotIngesting(r)
    /\ \A b \in Undos : undos[b].pc \in UndoBusy => NotIngesting(undos[b].run)

DeletingMarked ==
    \A b \in Undos : undos[b].pc = "deleting" => status[undos[b].run] \notin Ingested

IngestedWhole ==
    \A r \in RunId : status[r] \in Ingested =>
        \A u \in Uploads : uploads[u].run = r =>
            \A k \in BatchId : facts[r][k] = IF k <= uploads[u].file.commits THEN 1 ELSE 0

OnceInv ==
    /\ RunsUsed /\ FilesStored /\ EmptyBefore /\ FilesRead /\ UpsertedOnce
    /\ IngestedIsLeft /\ DeletingMarked /\ IngestedWhole

OnceIInv == Without({"approvals", "early_approval"}) => OnceInv

LEMMA OnceInit == Init => OnceIInv
BY DEF Init, StoreInit, ApiInit, UndoInit, OnceIInv, OnceInv, RunsUsed, FilesStored, EmptyBefore,
       FilesRead, UpsertedOnce, NotIngesting, IngestedIsLeft, DeletingMarked, IngestedWhole,
       BeforeUpsert, Ingested, UndoBusy

LEMMA OnceFacts ==
    /\ BeforeUpsert \subseteq ToIngest /\ "upserting" \in ToIngest \intersect ApprovalPast
    /\ BeforeUpsert \subseteq ApprovalPast \union {"checked"} /\ "upserting" \notin BeforeUpsert
    /\ {"starting", "checked"} \subseteq BeforeUpsert /\ "deleting" \in UndoBusy
    /\ {"awaiting_mapping", "none", "failed", "mapping_approved", "processing", "rolling_back",
        "rolled_back"} \intersect Ingested = {}
<1>1. /\ BeforeUpsert \subseteq ToIngest /\ "upserting" \in ToIngest \intersect ApprovalPast
      /\ BeforeUpsert \subseteq ApprovalPast \union {"checked"}
  BY DEF BeforeUpsert, ToIngest, ApprovalPast, ApprovalPC
<1>2. "upserting" \notin BeforeUpsert /\ {"starting", "checked"} \subseteq BeforeUpsert
  BY DEF BeforeUpsert
<1>3. "deleting" \in UndoBusy
  BY DEF UndoBusy, UndoPC
<1>4. {"awaiting_mapping", "none", "failed", "mapping_approved", "processing", "rolling_back",
       "rolled_back"} \intersect Ingested = {}
  BY DEF Ingested
<1> QED
  BY <1>1, <1>2, <1>3, <1>4

(* Steps that leave the approvals, the rollbacks and the fact tables alone *)
(* and neither insert a run nor complete one.                              *)
LEMMA OnceQuiet ==
    ASSUME TypeInv, OnceInv, UNCHANGED <<nextRun, approvals, undos, facts>>,
           \A u \in Uploads : uploads'[u].run = uploads[u].run /\ uploads'[u].file = uploads[u].file,
           \A r \in RunId : Exists(r)' => Exists(r),
           \A r \in RunId : status'[r] \in Ingested => status[r] = status'[r],
           FilesStored'
    PROVE  OnceInv'
<1>1. RunsUsed' /\ EmptyBefore'
  BY DEF OnceInv, RunsUsed, EmptyBefore
<1>2. FilesRead' /\ UpsertedOnce'
  BY RequestTypesOf DEF OnceInv, FilesRead, UpsertedOnce
<1>3. IngestedIsLeft' /\ DeletingMarked'
  BY RequestTypesOf DEF OnceInv, NotIngesting, IngestedIsLeft, DeletingMarked
<1>4. IngestedWhole'
  BY DEF OnceInv, IngestedWhole
<1> QED
  BY <1>1, <1>2, <1>3, <1>4 DEF OnceInv

LEMMA UploadKeepsOnce ==
    ASSUME TypeInv, OnceInv, ApprovalAfterUpload', UNCHANGED undos,
           NEW u \in Uploads, UploadStep(u) \/ UploadAbort(u)
    PROVE  OnceInv'
<1>1. /\ uploads \in [Uploads -> UploadRec] /\ approvals \in [Approvals -> ApprovalRec]
      /\ status \in [RunId -> RunStatus \union {"none"}]
      /\ bytes \in [RunId -> Files \union {NoFile}] /\ nextRun \in Nat \ {0}
      /\ uploads[u].run \in Int
  BY RequestTypesOf, StoreTypes DEF UploadRec, RunId
<1>2. FilesStored /\ RunsUsed
  BY DEF OnceInv
<1>3. CASE UploadCreateRun(u)
  <2>1. /\ nextRun' = nextRun + 1 /\ UNCHANGED <<facts, bytes, approvals, undos>>
        /\ uploads'[u].run = nextRun /\ uploads'[u].pc \in {"set_skip", "mapping"}
        /\ \A v \in Uploads \ {u} : uploads'[v] = uploads[v]
    BY <1>1, <1>3 DEF UploadCreateRun, UploadRec
  <2>2. nextRun \in RunId
    BY <1>1, <1>3, StoreAssumption DEF UploadCreateRun, StoreAssumption, RunId
  <2>3. /\ status'[nextRun] = "awaiting_mapping"
        /\ \A q \in RunId \ {nextRun} : Exists(q)' <=> Exists(q)
        /\ \A q \in RunId \ {nextRun} : status'[q] = status[q]
    BY <1>1, <1>3, <2>2 DEF UploadCreateRun, Exists
  <2>4. \A a \in Approvals : approvals[a].pc # "idle" => approvals[a].run # nextRun
    BY <2>1 DEF ApprovalAfterUpload
  <2>5. \A v \in Uploads \ {u} : uploads[v].run < nextRun /\ uploads[v].run \in Int
    BY <1>1, <1>2 DEF RunsUsed, UploadRec, RunId
  <2>6. RunsUsed'
    <3>1. \A v \in Uploads : uploads'[v].run < nextRun'
      BY <1>1, <2>1, <2>5
    <3>2. \A v, w \in Uploads : uploads'[v].run = uploads'[w].run /\ uploads'[v].run # 0 => v = w
      BY <1>1, <1>2, <2>1, <2>5 DEF RunsUsed
    <3> QED
      BY <3>1, <3>2 DEF RunsUsed
  <2>7. FilesStored'
    <3>1. \A v \in Uploads \ {u} : uploads[v].run # nextRun /\
              (uploads[v].pc = "done" => uploads[v].run \in RunId)
      BY <1>1, <2>5 DEF TypeInv, RunsKnown
    <3> QED
      BY <1>2, <2>1, <2>3, <3>1 DEF FilesStored
  <2>8. EmptyBefore' /\ FilesRead' /\ UpsertedOnce'
    <3>1. EmptyBefore'
      BY <2>1 DEF OnceInv, EmptyBefore
    <3>2. FilesRead'
      BY <2>1, <2>3, <2>4, RequestTypesOf DEF OnceInv, FilesRead
    <3>3. UpsertedOnce'
      BY <2>1, <2>3, <2>4, RequestTypesOf DEF OnceInv, UpsertedOnce
    <3> QED
      BY <3>1, <3>2, <3>3
  <2>9. \A r \in RunId : status'[r] \in Ingested => r # nextRun /\ status[r] \in Ingested
    BY <2>3, OnceFacts
  <2>10. IngestedIsLeft'
    BY <2>1, <2>9 DEF OnceInv, IngestedIsLeft, NotIngesting
  <2>11. DeletingMarked'
    BY <2>1, <2>9, RequestTypesOf DEF OnceInv, DeletingMarked
  <2>12. IngestedWhole'
    BY <2>1, <2>9 DEF OnceInv, IngestedWhole
  <2> QED
    BY <2>6, <2>7, <2>8, <2>10, <2>11, <2>12 DEF OnceInv
<1>4. CASE ~UploadCreateRun(u)
  <2>1. UNCHANGED <<nextRun, approvals, undos, facts>>
    BY <1>4
    DEF UploadStep, UploadAbort, UploadSetSkip, UploadMap, UploadMapFails, UploadStoreBytes, store
  <2>2. /\ uploads'[u].run = uploads[u].run /\ uploads'[u].file = uploads[u].file
        /\ \A v \in Uploads \ {u} : uploads'[v] = uploads[v]
        /\ uploads'[u].pc # "done" \/ UploadStoreBytes(u)
    BY <1>1, <1>4
    DEF UploadStep, UploadAbort, UploadSetSkip, UploadMap, UploadMapFails, UploadStoreBytes, UploadRec
  <2>3. /\ \A r \in RunId : Exists(r)' => Exists(r)
        /\ \A r \in RunId : status'[r] \in Ingested => status[r] = status'[r]
    <3>1. CASE UploadMapFails(u)
      <4>1. uploads[u].run \in RunId
        BY <3>1 DEF UploadMapFails, TypeInv, RunsKnown
      <4>2. \A r \in RunId \ {uploads[u].run} : status'[r] = status[r]
        BY <1>1, <3>1, <4>1 DEF UploadMapFails, SetStatus
      <4> QED
        BY <1>1, <3>1, <4>1, <4>2, OnceFacts DEF UploadMapFails, SetStatus, Exists
    <3>2. CASE ~UploadMapFails(u)
      BY <1>4, <3>2
      DEF UploadStep, UploadAbort, UploadSetSkip, UploadMap, UploadStoreBytes, store, Exists
    <3> QED
      BY <3>1, <3>2
  <2>4. FilesStored'
    <3>1. CASE UploadStoreBytes(u)
      <4>1. uploads[u].run \in RunId /\ uploads[u].run # 0
        BY <3>1, RunIdFacts DEF UploadStoreBytes, TypeInv, RunsKnown
      <4>2. \A v \in Uploads \ {u} : uploads[v].run # uploads[u].run
        BY <1>2, <4>1 DEF RunsUsed
      <4>3. /\ UNCHANGED status
            /\ Exists(uploads[u].run) => bytes'[uploads[u].run] = uploads[u].file
            /\ \A r \in RunId \ {uploads[u].run} : bytes'[r] = bytes[r]
        BY <1>1, <3>1, <4>1 DEF UploadStoreBytes
      <4> QED
        BY <1>2, <2>2, <4>2, <4>3 DEF FilesStored, Exists, TypeInv, RunsKnown
    <3>2. CASE ~UploadStoreBytes(u)
      <4>1. UNCHANGED bytes
        BY <1>4, <3>2 DEF UploadStep, UploadAbort, UploadSetSkip, UploadMap, UploadMapFails, store
      <4> QED
        BY <1>2, <2>2, <2>3, <3>2, <4>1 DEF FilesStored, TypeInv, RunsKnown
    <3> QED
      BY <3>1, <3>2
  <2> QED
    BY <2>1, <2>2, <2>3, <2>4, OnceQuiet
<1> QED
  BY <1>3, <1>4

(* What the pipeline does to its own record and rows up to the end of the  *)
(* file.                                                                   *)
LEMMA PipelineFrame ==
    ASSUME TypeInv, NEW a \in Approvals, ApprovalStep(a) \/ PipelineError(a) \/ ApprovalAbort(a)
    PROVE  /\ approvals'[a].pc \in BeforeUpsert => approvals[a].pc \in BeforeUpsert /\ UNCHANGED facts
           /\ approvals'[a].pc = "starting" => PipelineRead(a)
           /\ approvals'[a].pc = "upserting" => PipelineStart(a) \/ PipelineUpsert(a)
<1>1. approvals \in [Approvals -> ApprovalRec]
  BY RequestTypesOf
<1>2. approvals'[a].pc \in BeforeUpsert => approvals[a].pc \in BeforeUpsert /\ ~PipelineUpsert(a)
  BY <1>1
  DEF ApprovalStep, ApproveCommit, ApproveSpawn, PipelineLoad, PipelineRead, PipelineStart,
      PipelineUpsert, PipelineBadRow, PipelineFinish, PipelineFail, PipelineReport,
      PipelineSelectPolicies, PipelineCalculate, PipelineError, ApprovalAbort, Goto, ApprovalRec,
      BeforeUpsert
<1>3. /\ approvals'[a].pc = "starting" => PipelineRead(a)
      /\ approvals'[a].pc = "upserting" => PipelineStart(a) \/ PipelineUpsert(a)
  BY SMTT(20), <1>1
  DEF ApprovalStep, ApproveCommit, ApproveSpawn, PipelineLoad, PipelineRead, PipelineStart,
      PipelineUpsert, PipelineBadRow, PipelineFinish, PipelineFail, PipelineReport,
      PipelineSelectPolicies, PipelineCalculate, PipelineError, ApprovalAbort, Goto, ApprovalRec
<1> QED
  BY <1>2, <1>3, ApprovalStore

LEMMA UpsertRows ==
    ASSUME TypeInv, NEW a \in Approvals, PipelineUpsert(a)
    PROVE  /\ approvals[a].pc = "upserting" /\ approvals[a].next \in BatchId
           /\ approvals[a].next <= approvals[a].file.commits
           /\ approvals'[a].pc = "upserting" /\ approvals'[a].file = approvals[a].file
           /\ approvals'[a].next = approvals[a].next + 1
           /\ \A k \in BatchId : facts'[approvals[a].run][k] =
                 IF k = approvals[a].next THEN facts[approvals[a].run][k] + 1
                                          ELSE facts[approvals[a].run][k]
           /\ \A q \in RunId \ {approvals[a].run} : facts'[q] = facts[q]
           /\ UNCHANGED status
<1>1. /\ approvals \in [Approvals -> ApprovalRec] /\ facts \in [RunId -> [BatchId -> Nat]]
      /\ approvals[a].run \in RunId
  BY RequestTypesOf, StoreTypes
<1>2. approvals[a].file.commits \in 0 .. MaxCommits /\ approvals[a].next \in 1 .. MaxCommits + 1
  BY <1>1, StoreAssumption DEF ApprovalRec, StoreAssumption, FileType, NoFile
<1>3. approvals[a].next <= approvals[a].file.commits
  BY DEF PipelineUpsert
<1>4. approvals[a].next \in BatchId
  BY <1>2, <1>3, StoreAssumption DEF StoreAssumption, BatchId
<1> QED
  BY <1>1, <1>3, <1>4 DEF PipelineUpsert, ApprovalRec

LEMMA ApprovalKeepsOnce ==
    ASSUME TypeInv, OnceInv, OneApproval, ApprovalAfterUpload, UNCHANGED undos,
           NEW a \in Approvals, ApprovalStep(a) \/ PipelineError(a) \/ ApprovalAbort(a)
    PROVE  OnceInv'
<1>1. /\ approvals \in [Approvals -> ApprovalRec] /\ facts \in [RunId -> [BatchId -> Nat]]
      /\ status \in [RunId -> RunStatus \union {"none"}] /\ approvals[a].run \in RunId
      /\ \A b \in Approvals : approvals[b].run \in RunId
  BY RequestTypesOf, StoreTypes
<1>2. /\ UNCHANGED <<uploads, nextRun, bytes>>
      /\ approvals[a].pc \in ApprovalBusy /\ approvals'[a].run = approvals[a].run
      /\ approvals'[a].pc \in ToIngest => approvals[a].pc \in ToIngest
      /\ \A b \in Approvals \ {a} : approvals'[b] = approvals[b]
  BY ApprovalFrame
<1>3. \A q \in RunId : Exists(q)' => Exists(q)
  BY ApprovalStore DEF Exists
<1>4. \A q \in RunId : status'[q] \in Ingested =>
         status[q] \in Ingested \/ (PipelineFinish(a) /\ q = approvals[a].run)
  <2>1. ASSUME NEW q \in RunId, q # approvals[a].run PROVE status'[q] = status[q]
    BY <2>1, ApprovalStore
  <2>2. status'[approvals[a].run] \in Ingested => UNCHANGED status \/ PipelineFinish(a)
    BY ApprovalStore DEF Ingested
  <2> QED
    BY <2>1, <2>2
<1>5. \A b \in Approvals \ {a} : approvals[b].pc \in BeforeUpsert \union {"upserting"} =>
         facts'[approvals[b].run] = facts[approvals[b].run]
  <2>1. CASE PipelineUpsert(a)
    BY <1>1, <2>1, UpsertRows, OnceFacts DEF OneApproval
  <2>2. CASE UNCHANGED facts
    BY <2>2
  <2> QED
    BY <2>1, <2>2, ApprovalStore
<1>6. RunsUsed' /\ FilesStored'
  <2>1. RunsUsed'
    BY <1>2 DEF OnceInv, RunsUsed
  <2>2. \A u \in Uploads : uploads[u].pc = "done" => uploads[u].run \in RunId
    BY DEF TypeInv, RunsKnown
  <2> QED
    BY <1>2, <1>3, <2>1, <2>2 DEF OnceInv, FilesStored
<1>7. EmptyBefore'
  BY <1>2, <1>5, PipelineFrame DEF OnceInv, EmptyBefore
<1>8. FilesRead'
  <2>1. ASSUME NEW u \in Uploads, PipelineRead(a), uploads[u].run = approvals[a].run,
               Exists(approvals[a].run)
        PROVE  approvals'[a].file = uploads[u].file
    <3>1. approvals[a].pc = "reading" /\ approvals'[a].file = bytes[approvals[a].run]
      BY <1>1, <2>1 DEF PipelineRead, ApprovalRec
    <3>2. uploads[u].pc = "done"
      BY <2>1, <3>1 DEF ApprovalAfterUpload
    <3> QED
      BY <2>1, <3>1, <3>2 DEF OnceInv, FilesStored
  <2>2. PipelineStart(a) \/ PipelineUpsert(a) =>
           approvals[a].pc \in {"starting", "upserting"} /\ approvals'[a].file = approvals[a].file
    BY <1>1 DEF PipelineStart, PipelineUpsert, ApprovalRec
  <2>3. ASSUME NEW u \in Uploads, approvals'[a].pc \in {"starting", "upserting"},
               uploads[u].run = approvals[a].run, Exists(approvals[a].run)
        PROVE  approvals'[a].file = uploads[u].file
    BY <2>1, <2>2, <2>3, PipelineFrame DEF OnceInv, FilesRead
  <2>4. ASSUME NEW b \in Approvals, NEW u \in Uploads, approvals'[b].pc \in {"starting", "upserting"},
               uploads'[u].run = approvals'[b].run, Exists(approvals[b].run)'
        PROVE  approvals'[b].file = uploads'[u].file
    <3>1. approvals'[b].run = approvals[b].run /\ approvals[b].run \in RunId
      BY <1>1, <1>2
    <3>2. Exists(approvals[b].run)
      BY <1>3, <2>4, <3>1 DEF Exists
    <3>3. CASE b = a
      BY <1>2, <2>3, <2>4, <3>1, <3>2, <3>3
    <3>4. CASE b # a
      BY <1>2, <2>4, <3>1, <3>2, <3>4 DEF OnceInv, FilesRead
    <3> QED
      BY <3>3, <3>4
  <2> QED
    BY <2>4 DEF FilesRead
<1>9. UpsertedOnce'
  <2>1. ASSUME approvals'[a].pc = "upserting", Exists(approvals[a].run)
        PROVE  /\ approvals'[a].next <= approvals'[a].file.commits + 1
               /\ \A k \in BatchId :
                     facts'[approvals[a].run][k] = IF k < approvals'[a].next THEN 1 ELSE 0
    <3>1. CASE PipelineStart(a)
      <4>1. /\ approvals[a].pc = "starting" /\ UNCHANGED facts
            /\ approvals'[a].next = 1 /\ approvals'[a].file = approvals[a].file
        BY <1>1, <3>1 DEF PipelineStart, ApprovalRec
      <4>2. approvals[a].file.commits \in Nat
        BY <1>1, StoreAssumption DEF ApprovalRec, StoreAssumption, FileType, NoFile
      <4>3. facts[approvals[a].run] = NoRows
        BY <4>1, OnceFacts DEF OnceInv, EmptyBefore
      <4> QED
        BY <4>1, <4>2, <4>3 DEF NoRows, BatchId
    <3>2. CASE PipelineUpsert(a)
      <4>1. \A k \in BatchId : facts[approvals[a].run][k] = IF k < approvals[a].next THEN 1 ELSE 0
        BY <2>1, <3>2, UpsertRows DEF OnceInv, UpsertedOnce
      <4>2. /\ approvals[a].next \in BatchId /\ approvals[a].next <= approvals[a].file.commits
            /\ approvals'[a].file = approvals[a].file /\ approvals'[a].next = approvals[a].next + 1
            /\ \A k \in BatchId : facts'[approvals[a].run][k] =
                  IF k = approvals[a].next THEN facts[approvals[a].run][k] + 1
                                           ELSE facts[approvals[a].run][k]
        BY <3>2, UpsertRows
      <4>3. approvals[a].file.commits \in Nat
        BY <1>1, StoreAssumption DEF ApprovalRec, StoreAssumption, FileType, NoFile
      <4>4. approvals'[a].next <= approvals'[a].file.commits + 1
        BY <4>2, <4>3 DEF BatchId
      <4>5. \A k \in BatchId : k \in Int /\ approvals[a].next \in Int
        BY <4>2 DEF BatchId
      <4>6. ASSUME NEW k \in BatchId
            PROVE  facts'[approvals[a].run][k] = IF k < approvals'[a].next THEN 1 ELSE 0
        <5>1. CASE k = approvals[a].next
          BY <4>1, <4>2, <4>5, <5>1
        <5>2. CASE k # approvals[a].next
          BY <4>1, <4>2, <4>5, <5>2
        <5> QED
          BY <5>1, <5>2
      <4> QED
        BY <4>4, <4>6
    <3> QED
      BY <2>1, <3>1, <3>2, PipelineFrame
  <2>2. ASSUME NEW b \in Approvals, approvals'[b].pc = "upserting", Exists(approvals[b].run)'
        PROVE  /\ approvals'[b].next <= approvals'[b].file.commits + 1
               /\ \A k \in BatchId :
                     facts'[approvals'[b].run][k] = IF k < approvals'[b].next THEN 1 ELSE 0
    <3>1. approvals'[b].run = approvals[b].run /\ approvals[b].run \in RunId
      BY <1>1, <1>2
    <3>2. Exists(approvals[b].run)
      BY <1>3, <2>2, <3>1 DEF Exists
    <3>3. CASE b = a
      BY <2>1, <2>2, <3>1, <3>2, <3>3
    <3>4. CASE b # a
      BY <1>2, <1>5, <2>2, <3>2, <3>4 DEF OnceInv, UpsertedOnce
    <3> QED
      BY <3>3, <3>4
  <2> QED
    BY <2>2 DEF UpsertedOnce
<1>10. \A q \in RunId : NotIngesting(q) => NotIngesting(q)'
  BY <1>2 DEF NotIngesting
<1>11. PipelineFinish(a) =>
          /\ approvals[a].pc = "upserting" /\ approvals[a].next > approvals[a].file.commits
          /\ UNCHANGED facts /\ approvals'[a].pc = "selecting"
          /\ Exists(approvals[a].run) \/ status'[approvals[a].run] = "none"
  BY <1>1 DEF PipelineFinish, Goto, SetStatus, ApprovalRec
<1>12. IngestedIsLeft'
  <2>1. ASSUME PipelineFinish(a), NEW q \in RunId, q = approvals[a].run PROVE NotIngesting(q)'
    <3>1. "selecting" \notin ToIngest
      BY DEF ToIngest
    <3>2. ToIngest \subseteq ApprovalPast \union {"checked"} /\ "upserting" \in ApprovalPast
      BY ToIngestFacts, OnceFacts
    <3>3. \A b \in Approvals \ {a} : approvals[b].pc \in ToIngest => approvals[b].run # q
      BY <1>11, <2>1, <3>2 DEF OneApproval
    <3> QED
      BY <1>2, <1>11, <2>1, <3>1, <3>3 DEF NotIngesting
  <2>2. \A q \in RunId : status'[q] \in Ingested => NotIngesting(q)'
    <3>1. \A q \in RunId : status[q] \in Ingested => NotIngesting(q)'
      BY <1>10 DEF OnceInv, IngestedIsLeft
    <3> QED
      BY <1>4, <2>1, <3>1
  <2>3. \A b \in Undos : undos[b].pc \in UndoBusy => NotIngesting(undos[b].run)'
    BY <1>10, RequestTypesOf DEF OnceInv, IngestedIsLeft
  <2> QED
    BY <2>2, <2>3 DEF IngestedIsLeft
<1>13. DeletingMarked'
  <2>1. ASSUME NEW b \in Undos, undos[b].pc = "deleting", status'[undos[b].run] \in Ingested
        PROVE  FALSE
    <3>1. undos[b].run \in RunId /\ NotIngesting(undos[b].run) /\ status[undos[b].run] \notin Ingested
      BY <2>1, RequestTypesOf, OnceFacts DEF OnceInv, IngestedIsLeft, DeletingMarked
    <3>2. PipelineFinish(a) /\ undos[b].run = approvals[a].run
      BY <1>4, <2>1, <3>1
    <3> QED
      BY <1>11, <3>1, <3>2, OnceFacts DEF NotIngesting
  <2> QED
    BY <2>1 DEF DeletingMarked
<1>14. IngestedWhole'
  <2>1. ASSUME NEW q \in RunId, status[q] \in Ingested PROVE facts'[q] = facts[q]
    <3>1. NotIngesting(q)
      BY <2>1 DEF OnceInv, IngestedIsLeft
    <3>2. PipelineUpsert(a) => approvals[a].run # q
      BY <3>1, OnceFacts, UpsertRows DEF NotIngesting
    <3> QED
      BY <3>2, UpsertRows, ApprovalStore
  <2>2. ASSUME PipelineFinish(a), Exists(approvals[a].run), NEW u \in Uploads,
               uploads[u].run = approvals[a].run, NEW k \in BatchId
        PROVE  facts[approvals[a].run][k] = IF k <= uploads[u].file.commits THEN 1 ELSE 0
    <3>1. approvals[a].file = uploads[u].file
      BY <1>11, <2>2 DEF OnceInv, FilesRead
    <3>2. /\ approvals[a].next <= approvals[a].file.commits + 1
          /\ facts[approvals[a].run][k] = IF k < approvals[a].next THEN 1 ELSE 0
      BY <1>11, <2>2 DEF OnceInv, UpsertedOnce
    <3>3. approvals[a].next \in Int /\ approvals[a].file.commits \in Int /\ k \in Int
      BY <1>1, <2>2, StoreAssumption DEF ApprovalRec, StoreAssumption, FileType, NoFile, BatchId
    <3>4. approvals[a].next > approvals[a].file.commits
      BY <1>11, <2>2
    <3>5. k < approvals[a].next <=> k <= approvals[a].file.commits
      BY <3>2, <3>3, <3>4
    <3> QED
      BY <3>1, <3>2, <3>5
  <2>3. ASSUME NEW q \in RunId, status'[q] \in Ingested, NEW u \in Uploads, uploads[u].run = q,
               NEW k \in BatchId
        PROVE  facts'[q][k] = IF k <= uploads[u].file.commits THEN 1 ELSE 0
    <3>1. CASE status[q] \in Ingested
      BY <2>1, <2>3, <3>1 DEF OnceInv, IngestedWhole
    <3>2. CASE PipelineFinish(a) /\ q = approvals[a].run
      <4>1. Exists(approvals[a].run)
        BY <1>11, <2>3, <3>2, OnceFacts
      <4> QED
        BY <1>11, <2>2, <2>3, <3>2, <4>1
    <3> QED
      BY <1>4, <2>3, <3>1, <3>2
  <2> QED
    BY <1>2, <2>3 DEF IngestedWhole
<1> QED
  BY <1>6, <1>7, <1>8, <1>9, <1>12, <1>13, <1>14 DEF OnceInv

LEMMA RequestKeepsOnce ==
    ASSUME TypeInv, GateIInv, OnceInv, UNCHANGED undos, ApiRequest
    PROVE  OnceInv'
<1>1. /\ uploads \in [Uploads -> UploadRec] /\ approvals \in [Approvals -> ApprovalRec]
      /\ status \in [RunId -> RunStatus \union {"none"}]
  BY RequestTypesOf, StoreTypes
<1>2. ASSUME NEW u \in Uploads, NEW c \in Carriers, NEW m \in Modes, NEW sk \in BOOLEAN,
             NEW f \in Files, UploadCheckMode(u, c, m, sk, f)
      PROVE  OnceInv'
  <2>1. /\ UNCHANGED <<store, approvals>> /\ \A v \in Uploads \ {u} : uploads'[v] = uploads[v]
        /\ uploads'[u].run = 0 /\ uploads'[u].pc # "done"
    BY <1>1, <1>2 DEF UploadCheckMode
  <2>2. UNCHANGED <<status, facts, bytes, nextRun>>
    BY <2>1 DEF store
  <2>3. RunsUsed'
    <3>1. nextRun > 0
      BY StoreTypes
    <3>2. \A v \in Uploads : uploads'[v].run < nextRun'
      BY <2>1, <2>2, <3>1 DEF OnceInv, RunsUsed
    <3>3. \A v, w \in Uploads : uploads'[v].run = uploads'[w].run /\ uploads'[v].run # 0 => v = w
      BY <2>1 DEF OnceInv, RunsUsed
    <3> QED
      BY <3>2, <3>3 DEF RunsUsed
  <2>4. FilesStored'
    BY <2>1, <2>2 DEF OnceInv, FilesStored, Exists
  <2>5. EmptyBefore' /\ UpsertedOnce'
    BY <2>1, <2>2 DEF OnceInv, EmptyBefore, UpsertedOnce, Exists
  <2>6. 0 \notin RunId
    BY RunIdFacts
  <2>7. FilesRead'
    BY <2>1, <2>2, <2>6, RequestTypesOf DEF OnceInv, FilesRead, Exists
  <2>8. IngestedIsLeft' /\ DeletingMarked'
    BY <2>1, <2>2 DEF OnceInv, IngestedIsLeft, DeletingMarked, NotIngesting
  <2>9. IngestedWhole'
    BY <2>1, <2>2, <2>6 DEF OnceInv, IngestedWhole
  <2> QED
    BY <2>3, <2>4, <2>5, <2>7, <2>8, <2>9 DEF OnceInv
<1>3. ASSUME NEW a \in Approvals, NEW r \in RunId, ApproveCheck(a, r)
      PROVE  OnceInv'
  <2>1. /\ UNCHANGED <<status, facts, bytes, nextRun, uploads>>
        /\ approvals'[a].run = r /\ \A b \in Approvals \ {a} : approvals'[b] = approvals[b]
        /\ \/ approvals'[a].pc = "refused"
           \/ approvals'[a].pc = "checked" /\ session[r] = "PENDING_REVIEW"
    BY <1>1, <1>3 DEF ApproveCheck, ApprovalRec, store
  <2>2. session[r] = "PENDING_REVIEW" =>
           /\ facts[r] = NoRows /\ status[r] \notin Ingested
           /\ \A b \in Undos : undos[b].pc \in UndoBusy => undos[b].run # r
    BY DEF GateIInv, PendingUntouched, Untouched, Ingested
  <2>3. RunsUsed' /\ FilesStored' /\ IngestedWhole'
    BY <2>1 DEF OnceInv, RunsUsed, FilesStored, IngestedWhole, Exists
  <2>4. EmptyBefore'
    BY <2>1, <2>2 DEF OnceInv, EmptyBefore, BeforeUpsert
  <2>5. FilesRead' /\ UpsertedOnce'
    BY <2>1 DEF OnceInv, FilesRead, UpsertedOnce, Exists
  <2>6. \A q \in RunId : NotIngesting(q) /\ (session[r] = "PENDING_REVIEW" => q # r) => NotIngesting(q)'
    BY <2>1, ToIngestFacts DEF NotIngesting
  <2>7. \A q \in RunId : status[q] \in Ingested => NotIngesting(q)'
    BY <2>2, <2>6 DEF OnceInv, IngestedIsLeft
  <2>8. \A b \in Undos : undos[b].pc \in UndoBusy => NotIngesting(undos[b].run)'
    BY <2>2, <2>6, RequestTypesOf DEF OnceInv, IngestedIsLeft
  <2>9. IngestedIsLeft' /\ DeletingMarked'
    BY <2>1, <2>7, <2>8 DEF OnceInv, IngestedIsLeft, DeletingMarked
  <2> QED
    BY <2>3, <2>4, <2>5, <2>9 DEF OnceInv
<1>4. ASSUME NEW r \in RunId, EditProposals(r) \/ Reject(r)
      PROVE  OnceInv'
  <2>1. UNCHANGED <<nextRun, approvals, undos, facts, bytes, uploads>>
    BY <1>4 DEF EditProposals, Reject, api
  <2>2. status' = status \/ status' = [status EXCEPT ![r] = IF Exists(r) THEN "failed" ELSE "none"]
    BY <1>4 DEF EditProposals, Reject, SetStatus
  <2>3. /\ \A q \in RunId : Exists(q)' => Exists(q)
        /\ \A q \in RunId : status'[q] \in Ingested => status[q] = status'[q]
    BY <1>1, <1>4, <2>2, OnceFacts DEF Exists
  <2>4. FilesStored'
    <3>1. \A u \in Uploads : uploads[u].pc = "done" => uploads[u].run \in RunId
      BY DEF TypeInv, RunsKnown
    <3> QED
      BY <2>1, <2>3, <3>1 DEF OnceInv, FilesStored
  <2> QED
    BY <2>1, <2>3, <2>4, OnceQuiet
<1> QED
  BY <1>2, <1>3, <1>4 DEF ApiRequest

LEMMA RollbackKeepsOnce ==
    ASSUME TypeInv, OnceInv, UNCHANGED api, NEW b \in Undos,
           (\E r \in RunId : UndoRequest(b, r)) \/ UndoStep(b) \/ UndoError(b) \/ UndoAbort(b)
    PROVE  OnceInv'
<1>1. /\ undos \in [Undos -> UndoRec] /\ \A c \in Undos : undos[c].run \in RunId
      /\ status \in [RunId -> RunStatus \union {"none"}]
      /\ facts \in [RunId -> [BatchId -> Nat]]
      /\ \A a \in Approvals : approvals[a].run \in RunId
  BY RequestTypesOf, StoreTypes
<1>2. /\ UNCHANGED <<uploads, approvals, nextRun, bytes>>
      /\ \A c \in Undos \ {b} : undos'[c] = undos[c]
  BY UndoFrame DEF api
<1>3. /\ \A q \in RunId : Exists(q)' => Exists(q)
      /\ \A q \in RunId : status'[q] \in Ingested => status'[q] = status[q]
  <2>1. \A q \in RunId : status'[q] \in Ingested => status'[q] = status[q]
    BY UndoFrame, OnceFacts
  <2> QED
    BY <2>1, UndoFrame DEF Exists
<1>4. CASE UndoDeleteRows(b)
  <2>1. /\ undos[b].pc = "deleting" /\ undos'[b].pc = "marking" /\ undos'[b].run = undos[b].run
        /\ UNCHANGED status /\ facts'[undos[b].run] = NoRows
        /\ \A q \in RunId \ {undos[b].run} : facts'[q] = facts[q]
    BY <1>1, <1>4 DEF UndoDeleteRows, UndoRec
  <2>2. NotIngesting(undos[b].run) /\ status[undos[b].run] \notin Ingested
    BY <2>1, OnceFacts DEF OnceInv, IngestedIsLeft, DeletingMarked
  <2>3. RunsUsed' /\ FilesStored' /\ FilesRead'
    <3>1. RunsUsed' /\ FilesStored'
      BY <1>2, <2>1 DEF OnceInv, RunsUsed, FilesStored, Exists
    <3>2. FilesRead'
      BY <1>2, <2>1 DEF OnceInv, FilesRead, Exists
    <3> QED
      BY <3>1, <3>2
  <2>4. EmptyBefore'
    BY <1>1, <1>2, <2>1 DEF OnceInv, EmptyBefore
  <2>5. UpsertedOnce'
    <3>1. \A a \in Approvals : approvals[a].pc = "upserting" => approvals[a].run # undos[b].run
      BY <2>2, OnceFacts DEF NotIngesting
    <3> QED
      BY <1>1, <1>2, <2>1, <3>1 DEF OnceInv, UpsertedOnce, Exists
  <2>6. IngestedIsLeft'
    <3>1. \A c \in Undos : undos'[c].pc \in UndoBusy => undos[c].pc \in UndoBusy /\ undos'[c].run = undos[c].run
      BY <1>2, <2>1, OnceFacts
    <3> QED
      BY <1>2, <2>1, <3>1 DEF OnceInv, IngestedIsLeft, NotIngesting
  <2>7. DeletingMarked'
    BY <1>2, <2>1 DEF OnceInv, DeletingMarked
  <2>8. IngestedWhole'
    BY <1>2, <2>1, <2>2 DEF OnceInv, IngestedWhole
  <2> QED
    BY <2>3, <2>4, <2>5, <2>6, <2>7, <2>8 DEF OnceInv
<1>5. CASE UNCHANGED facts
  <2>1. RunsUsed' /\ EmptyBefore'
    BY <1>2, <1>5 DEF OnceInv, RunsUsed, EmptyBefore
  <2>2. \A u \in Uploads : uploads[u].pc = "done" => uploads[u].run \in RunId
    BY DEF TypeInv, RunsKnown
  <2>3. FilesStored'
    BY <1>2, <1>3, <2>2 DEF OnceInv, FilesStored
  <2>4. FilesRead'
    BY <1>1, <1>2, <1>3 DEF OnceInv, FilesRead
  <2>5. UpsertedOnce'
    BY <1>1, <1>2, <1>3, <1>5 DEF OnceInv, UpsertedOnce
  <2>6. IngestedIsLeft'
    <3>1. \/ undos[b].pc \in UndoBusy /\ undos'[b].run = undos[b].run
          \/ /\ undos'[b].run \in RunId
             /\ undos'[b].pc \in UndoBusy => status[undos'[b].run] \in Ingested
      BY UndoFrame DEF UndoBusy, Ingested
    <3>2. \A q : NotIngesting(q)' <=> NotIngesting(q)
      BY <1>2 DEF NotIngesting
    <3>3. undos'[b].pc \in UndoBusy => NotIngesting(undos'[b].run)
      BY <3>1 DEF OnceInv, IngestedIsLeft
    <3>4. \A c \in Undos : undos'[c].pc \in UndoBusy => NotIngesting(undos'[c].run)
      BY <1>2, <3>3 DEF OnceInv, IngestedIsLeft
    <3>5. \A r \in RunId : status'[r] \in Ingested => NotIngesting(r)
      BY <1>3 DEF OnceInv, IngestedIsLeft
    <3> QED
      BY <1>2, <3>4, <3>5 DEF IngestedIsLeft, NotIngesting
  <2>7. DeletingMarked'
    <3>1. CASE UndoMarkRun(b)
      <4>1. /\ undos'[b].run = undos[b].run
            /\ status'[undos[b].run] \in {"rolling_back", "none"}
        BY <1>1, <3>1 DEF UndoMarkRun, SetStatus, UndoRec
      <4> QED
        BY <1>1, <1>2, <1>3, <4>1, OnceFacts DEF OnceInv, DeletingMarked
    <3>2. CASE ~UndoMarkRun(b)
      <4>1. undos'[b].pc = "deleting" => undos[b].pc = "deleting" /\ undos'[b].run = undos[b].run
        BY <3>2, UndoFrame
      <4> QED
        BY <1>1, <1>2, <1>3, <4>1 DEF OnceInv, DeletingMarked
    <3> QED
      BY <3>1, <3>2
  <2>8. IngestedWhole'
    BY <1>2, <1>3, <1>5 DEF OnceInv, IngestedWhole
  <2> QED
    BY <2>1, <2>3, <2>4, <2>5, <2>6, <2>7, <2>8 DEF OnceInv
<1> QED
  BY <1>4, <1>5, UndoFrame

LEMMA CleanupKeepsOnce ==
    ASSUME TypeInv, OnceInv, UNCHANGED <<api, undos>>, CleanupNext
    PROVE  OnceInv'
<1>1. UNCHANGED <<uploads, approvals, undos, nextRun>>
  BY DEF api, CleanupNext, CleanupStep, CleanupRecord, CleanupDeleteFacts, CleanupCommit, CleanupFail,
         CleanupError, CleanupAbort, store
<1>2. ASSUME NEW d \in Cleanups, CleanupCommit(d)
      PROVE  OnceInv'
  <2>1. \A r \in RunId : ~Exists(r)' /\ status'[r] \notin Ingested
    BY <1>2, OnceFacts DEF CleanupCommit, Exists
  <2>2. \A r \in RunId : facts[r] = NoRows => facts'[r] = NoRows
    <3>1. /\ facts' = [r \in RunId |-> [k \in BatchId |-> Left(facts[r][k], cleanups[d].facts[r][k])]]
          /\ cleanups[d].facts \in [RunId -> [BatchId -> Nat]]
      BY <1>2, RequestTypesOf DEF CleanupCommit
    <3>2. \A r \in RunId, k \in BatchId : facts[r] = NoRows =>
             Left(facts[r][k], cleanups[d].facts[r][k]) = 0
      BY <3>1 DEF NoRows, Left
    <3> QED
      BY <3>1, <3>2 DEF NoRows
  <2>3. RunsUsed' /\ EmptyBefore'
    BY <1>1, <2>2, RequestTypesOf DEF OnceInv, RunsUsed, EmptyBefore
  <2>4. FilesStored'
    <3>1. \A u \in Uploads : uploads[u].pc = "done" => uploads[u].run \in RunId
      BY DEF TypeInv, RunsKnown
    <3> QED
      BY <1>1, <2>1, <3>1 DEF FilesStored, Exists
  <2>5. FilesRead' /\ UpsertedOnce'
    BY <1>1, <2>1, RequestTypesOf DEF FilesRead, UpsertedOnce, Exists
  <2>6. IngestedIsLeft' /\ DeletingMarked' /\ IngestedWhole'
    <3>1. \A b \in Undos : NotIngesting(undos[b].run)' <=> NotIngesting(undos[b].run)
      BY <1>1 DEF NotIngesting
    <3> QED
      BY <1>1, <2>1, <3>1, RequestTypesOf DEF OnceInv, IngestedIsLeft, DeletingMarked, IngestedWhole
  <2> QED
    BY <2>3, <2>4, <2>5, <2>6 DEF OnceInv
<1>3. CASE UNCHANGED store
  <2>1. FilesStored'
    BY <1>1, <1>3 DEF OnceInv, FilesStored, Exists, store
  <2> QED
    BY <1>1, <1>3, <2>1, OnceQuiet DEF store, Exists
<1> QED
  BY <1>2, <1>3
  DEF CleanupNext, CleanupStep, CleanupRecord, CleanupDeleteFacts, CleanupFail, CleanupError,
      CleanupAbort

LEMMA OnceInductive ==
    TypeInv /\ Clients /\ GateIInv /\ OneApprovalIInv /\ OnceIInv /\ [Next]_vars => OnceIInv'
<1> SUFFICES ASSUME TypeInv, Clients, GateIInv, OneApprovalIInv, OnceIInv, [Next]_vars,
                    Without({"approvals", "early_approval"})
             PROVE  OnceInv'
  <2>1. ASSUME [Next]_vars, Clients
        PROVE  Without({"approvals", "early_approval"})' <=> Without({"approvals", "early_approval"})
    BY <2>1, ClientsInductive DEF Without
  <2> QED
    BY <2>1 DEF OnceIInv
<1>1. OnceInv /\ OneApproval /\ ApprovalAfterUpload /\ ApprovalAfterUpload'
  <2>1. Clients' /\ UNCHANGED clients
    BY ClientsInductive
  <2> QED
    BY <2>1 DEF OnceIInv, OneApprovalIInv, Clients, Without
<1>2. CASE ApiRequest /\ UNCHANGED <<undos, cleanups>>
  BY <1>1, <1>2, RequestKeepsOnce
<1>3. CASE ApiStep /\ UNCHANGED <<undos, cleanups>>
  BY <1>1, <1>3, UploadKeepsOnce, ApprovalKeepsOnce DEF ApiStep
<1>4. CASE UndoNext /\ UNCHANGED <<api, cleanups>>
  BY <1>1, <1>4, RollbackKeepsOnce DEF UndoNext
<1>5. CASE CleanupNext /\ UNCHANGED <<api, undos>>
  BY <1>1, <1>5, CleanupKeepsOnce
<1>6. CASE UNCHANGED vars
  <2>1. UNCHANGED <<nextRun, approvals, undos, facts, uploads, bytes, status>>
    BY <1>6 DEF vars, store, api
  <2>2. FilesStored'
    BY <1>1, <2>1 DEF OnceInv, FilesStored, Exists
  <2> QED
    BY <1>1, <2>1, <2>2, OnceQuiet DEF Exists
<1> QED
  BY <1>2, <1>3, <1>4, <1>5, <1>6 DEF Next, Request

(* When a run is approved once, and only by someone who saw its upload     *)
(* succeed, a complete or partial run has every transaction of its file in *)
(* the fact tables and each of them once, whatever fails and whatever is   *)
(* rejected, rolled back or cleaned up meanwhile.                          *)
THEOREM CompleteRunsAreWhole == Spec => []CompleteExactlyOnce
<1>1. Init => TypeInv /\ Clients /\ GateIInv /\ OneApprovalIInv /\ OnceIInv
  BY InitTypeInv, ClientsInit, GateInit, OneApprovalInit, OnceInit
<1>2. TypeInv /\ Clients /\ GateIInv /\ OneApprovalIInv /\ OnceIInv /\ [Next]_vars
         => (TypeInv /\ Clients /\ GateIInv /\ OneApprovalIInv /\ OnceIInv)'
  BY TypeInvInductive, ClientsInductive, GateInductive, GateImplied, OneApprovalInductive,
     OnceInductive
<1>3. OnceIInv => CompleteExactlyOnce
  BY DEF OnceIInv, OnceInv, IngestedWhole, Ingested, CompleteExactlyOnce, Uploaded
<1> QED
  BY <1>1, <1>2, <1>3, PTL DEF Spec

-----------------------------------------------------------------------------
Calm == clients \subseteq {"uploads"}

(* An upload has no run before its INSERT, and every run was inserted by   *)
(* an upload.                                                              *)
BlankRuns == \A u \in Uploads : uploads[u].pc \in {"idle", "checked"} => uploads[u].run = 0

RunsUploaded == \A r \in RunId : r < nextRun => \E u \in Uploads : uploads[u].run = r

(* A run leaves awaiting_mapping other than to failed by an approval. *)
LeftApproved ==
    \A r \in RunId : status[r] \notin {"none", "awaiting_mapping", "failed"} => Approved(r)

(* The phase a run is in while a pipeline or a rollback works on it. *)
PipelineStatus ==
    \A a \in Approvals :
        LET s == status[approvals[a].run] IN
        /\ approvals[a].pc = "checked" => s = "awaiting_mapping"
        /\ approvals[a].pc \in {"saving", "loading", "reading", "starting"} => s = "mapping_approved"
        /\ approvals[a].pc = "upserting" => s = "processing"
        /\ approvals[a].pc = "failing" => s \in {"mapping_approved", "processing"}
        /\ approvals[a].pc = "reporting" => s \in {"mapping_approved", "failed"} \union Ingested
        /\ approvals[a].pc \in {"selecting", "calculating"} => s \in Ingested

UndoStatus ==
    \A b \in Undos :
        /\ undos[b].pc \in {"accepted", "validated", "recorded"} => status[undos[b].run] \in Ingested
        /\ undos[b].pc \in {"deleting", "marking"} => status[undos[b].run] = "rolling_back"

StatusInv == BlankRuns /\ RunsUploaded /\ LeftApproved /\ PipelineStatus /\ UndoStatus

StatusIInv == Calm => StatusInv

(* What the other modules have shown of a calm system. *)
CalmInv ==
    /\ TypeInv /\ GateIInv /\ GateInv /\ RollbackIInv /\ OneApproval /\ ApprovedIInv /\ OnceInv
    /\ OwnedRows /\ UploadsOwned /\ PipelinesOwned /\ AllMarked
    /\ MarkingClean /\ UndoneClean
    /\ ApprovalAfterUpload /\ RejectBeforeApproval /\ UndosSerial /\ UndoAfterPipeline
    /\ CleanupAlone

ShownInv ==
    /\ TypeInv /\ Clients /\ GateIInv /\ RollbackIInv /\ OrphanIInv /\ CleanIInv
    /\ OneApprovalIInv /\ ApprovedIInv /\ OnceIInv

LEMMA CalmHolds == ShownInv /\ Calm => CalmInv
<1>. SUFFICES ASSUME ShownInv, Calm PROVE CalmInv
  OBVIOUS
<1>1. /\ Without({"approvals"}) /\ Without({"approvals", "early_approval"})
      /\ Without({"cleanup"}) /\ Without({"pipeline_and_rollback"})
  BY DEF Calm, Without
<1>2. {"approvals", "early_approval", "late_reject", "rollbacks", "pipeline_and_rollback", "cleanup"}
        \intersect clients = {}
  BY DEF Calm
<1>3. /\ ApprovalAfterUpload /\ RejectBeforeApproval /\ UndosSerial /\ UndoAfterPipeline
      /\ CleanupAlone
  BY <1>2 DEF ShownInv, Clients
<1>4. GateInv
  BY GateImplied DEF ShownInv
<1>. QED  BY <1>1, <1>3, <1>4
     DEF ShownInv, CalmInv, OrphanIInv, CleanIInv, OneApprovalIInv, OnceIInv

LEMMA ShownInit == Init => ShownInv
BY InitTypeInv, ClientsInit, GateInit, RollbackInit, OrphanInit, CleanInit, OneApprovalInit,
   ApprovedInit, OnceInit DEF ShownInv

LEMMA ShownInductive == ShownInv /\ [Next]_vars => ShownInv'
BY TypeInvInductive, ClientsInductive, GateInductive, GateImplied, RollbackInductive,
   OrphanInductive, CleanInductive, OneApprovalInductive, ApprovedInductive, OnceInductive
   DEF ShownInv

LEMMA StatusInit == Init => StatusIInv
<1>. SUFFICES ASSUME Init PROVE StatusInv
  BY DEF StatusIInv
<1>1. \A u \in Uploads : uploads[u].pc = "idle" /\ uploads[u].run = 0
  BY DEF Init, ApiInit
<1>2. \A a \in Approvals : approvals[a].pc = "idle" /\ approvals[a].run = 1
  BY DEF Init, ApiInit
<1>3. \A b \in Undos : undos[b].pc = "idle" /\ undos[b].run = 1
  BY DEF Init, UndoInit
<1>4. nextRun = 1 /\ \A r \in RunId : status[r] = "none"
  BY DEF Init, StoreInit
<1>5. \A r \in RunId : ~ r < nextRun
  BY <1>4, RunIdFacts
<1>. QED  BY <1>1, <1>2, <1>3, <1>4, <1>5
     DEF StatusInv, BlankRuns, RunsUploaded, LeftApproved, PipelineStatus, UndoStatus

LEMMA CalmTypes ==
    ASSUME CalmInv
    PROVE  /\ TypeInv /\ status \in [RunId -> RunStatus \union {"none"}]
           /\ session \in [RunId -> SessionStatus \union {"none"}]
           /\ uploads \in [Uploads -> UploadRec] /\ approvals \in [Approvals -> ApprovalRec]
           /\ undos \in [Undos -> UndoRec]
           /\ \A a \in Approvals : approvals[a].run \in RunId
           /\ \A b \in Undos : undos[b].run \in RunId
           /\ nextRun \in Nat \ {0}
BY StoreTypes, RequestTypesOf DEF CalmInv

LEMMA UploadKeepsStatus ==
    ASSUME CalmInv, StatusInv, NEW u \in Uploads, UploadStep(u) \/ UploadAbort(u),
           UNCHANGED <<undos, cleanups, clients>>
    PROVE  StatusInv'
<1>. USE CalmTypes
<1>1. UNCHANGED approvals /\ \A v \in Uploads \ {u} : uploads'[v] = uploads[v]
  BY DEF UploadStep, UploadCreateRun, UploadSetSkip, UploadMap, UploadMapFails, UploadStoreBytes,
         UploadAbort, store
<1>2. /\ uploads'[u].pc \notin {"idle", "checked"}
      /\ \/ uploads'[u].run = uploads[u].run /\ UNCHANGED nextRun /\ uploads[u].pc # "checked"
         \/ uploads[u].pc = "checked" /\ uploads'[u].run = nextRun /\ nextRun' = nextRun + 1
         \/ uploads[u].pc = "checked" /\ uploads'[u].run = uploads[u].run /\ UNCHANGED nextRun
  BY DEF UploadStep, UploadCreateRun, UploadSetSkip, UploadMap, UploadMapFails, UploadStoreBytes,
         UploadAbort, store, UploadRec, UploadBusy
<1>3. PICK r \in RunId :
         /\ \A q \in RunId \ {r} : status'[q] = status[q]
         /\ \/ UNCHANGED status
            \/ r \in Unseen /\ status'[r] \in {"awaiting_mapping", "failed", "none"}
  <2>1. CASE UploadCreateRun(u)
    <3>1. nextRun \in RunId /\ nextRun \in Unseen
      BY <2>1 DEF UploadCreateRun, RunId, CalmInv, GateIInv, FutureUnseen
    <3>. QED  BY <2>1, <3>1 DEF UploadCreateRun
  <2>2. CASE UploadMapFails(u)
    <3>1. uploads[u].run \in RunId /\ uploads[u].run \in Unseen
      BY <2>2 DEF UploadMapFails, CalmInv, TypeInv, RunsKnown, GateIInv, MappingUnseen, BeforeSession
    <3>. QED  BY <2>2, <3>1 DEF UploadMapFails, SetStatus
  <2>3. CASE UploadSetSkip(u) \/ UploadMap(u) \/ UploadStoreBytes(u) \/ UploadAbort(u)
    <3>1. UNCHANGED status
      BY <2>3 DEF UploadSetSkip, UploadMap, UploadStoreBytes, UploadAbort, store
    <3>2. 1 \in RunId
      BY RunIdFacts
    <3>3. \A q \in RunId : status'[q] = status[q]
      BY <3>1
    <3>. QED  BY <3>1, <3>2, <3>3
  <2>. QED  BY <2>1, <2>2, <2>3 DEF UploadStep
<1>4. BlankRuns'
  BY <1>1, <1>2 DEF StatusInv, BlankRuns
<1>5. RunsUploaded'
  <2>. SUFFICES ASSUME NEW q \in RunId, q < nextRun' PROVE \E v \in Uploads : uploads'[v].run = q
    BY DEF RunsUploaded
  <2>1. CASE q < nextRun
    <3>1. PICK v \in Uploads : uploads[v].run = q
      BY <2>1 DEF StatusInv, RunsUploaded
    <3>2. v # u \/ uploads'[u].run = q
      BY <1>2, <3>1, RunIdFacts DEF StatusInv, BlankRuns
    <3>. QED  BY <1>1, <3>1, <3>2
  <2>2. CASE ~ q < nextRun
    BY <1>2, <2>2, RunIdFacts
  <2>. QED  BY <2>1, <2>2
<1>6. \A a \in Approvals :
         approvals[a].pc \in ApprovalPast \union {"checked"} =>
             approvals[a].run # r \/ UNCHANGED status
  BY <1>3 DEF Unseen, Untouched
<1>7. \A b \in Undos : undos[b].pc \in UndoBusy => undos[b].run # r \/ UNCHANGED status
  BY <1>3 DEF Unseen, Untouched
<1>8. LeftApproved'
  <2>1. \A q \in RunId : Approved(q) => Approved(q)'
    BY <1>1 DEF Approved
  <2>2. \A q \in RunId :
           status'[q] \notin {"none", "awaiting_mapping", "failed"} => status'[q] = status[q]
    BY <1>3
  <2>. QED  BY <2>1, <2>2 DEF StatusInv, LeftApproved
<1>9. PipelineStatus'
  BY <1>1, <1>3, <1>6 DEF StatusInv, PipelineStatus, ApprovalPast, ApprovalPC
<1>10. UndoStatus'
  BY <1>3, <1>7 DEF StatusInv, UndoStatus, UndoBusy, UndoPC
<1>. QED  BY <1>4, <1>5, <1>8, <1>9, <1>10 DEF StatusInv

(* What each step of a pipeline does to the status of its run. *)
LEMMA PipelineMoves ==
    ASSUME CalmInv, StatusInv, NEW a \in Approvals,
           ApprovalStep(a) \/ PipelineError(a) \/ ApprovalAbort(a)
    PROVE  LET s == status'[approvals[a].run]
               pc == approvals'[a].pc IN
           /\ pc \in {"saving", "loading", "reading", "starting"} => s = "mapping_approved"
           /\ pc = "upserting" => s = "processing"
           /\ pc = "failing" => s \in {"mapping_approved", "processing"}
           /\ pc = "reporting" => s \in {"mapping_approved", "failed"} \union Ingested
           /\ pc \in {"selecting", "calculating"} => s \in Ingested
           /\ pc = "refused" => UNCHANGED status
<1>. USE CalmTypes
<1>. DEFINE r == approvals[a].run
            pc == approvals[a].pc
<1>1. r \in RunId /\ approvals[a] \in ApprovalRec /\ DOMAIN status = RunId
  OBVIOUS
<1>2. Exists(r)
  BY ApprovalFrame DEF CalmInv, PipelinesOwned
<1>3. /\ pc \in {"saving", "loading", "reading", "starting"} => status[r] = "mapping_approved"
      /\ pc = "upserting" => status[r] = "processing"
      /\ pc = "failing" => status[r] \in {"mapping_approved", "processing"}
      /\ pc \in {"selecting", "calculating"} => status[r] \in Ingested
  BY DEF StatusInv, PipelineStatus
<1>. USE DEF ApprovalRec
<1>4. CASE ApproveCommit(a)
  BY <1>1, <1>2, <1>4 DEF ApproveCommit, SetStatus
<1>5. CASE ApproveSpawn(a) \/ PipelineLoad(a) \/ PipelineRead(a)
  BY <1>1, <1>3, <1>5 DEF ApproveSpawn, PipelineLoad, PipelineRead, Goto, store
<1>6. CASE PipelineStart(a)
  BY <1>1, <1>2, <1>6 DEF PipelineStart, SetStatus
<1>7. CASE PipelineUpsert(a) \/ PipelineBadRow(a)
  BY <1>1, <1>3, <1>7 DEF PipelineUpsert, PipelineBadRow, Goto, store
<1>8. CASE PipelineFinish(a)
  BY <1>1, <1>2, <1>8 DEF PipelineFinish, SetStatus, Goto, Ingested
<1>9. CASE PipelineFail(a) \/ PipelineReport(a)
  BY <1>1, <1>2, <1>9 DEF PipelineFail, PipelineReport, SetStatus, Goto
<1>10. CASE PipelineSelectPolicies(a) \/ PipelineCalculate(a)
  BY <1>1, <1>3, <1>10 DEF PipelineSelectPolicies, PipelineCalculate, Goto, store
<1>11. CASE PipelineError(a)
  BY <1>1, <1>3, <1>11 DEF PipelineError, Goto, store
<1>12. CASE ApprovalAbort(a)
  BY <1>1, <1>12 DEF ApprovalAbort, Goto, store
<1>. QED  BY <1>4, <1>5, <1>6, <1>7, <1>8, <1>9, <1>10, <1>11, <1>12 DEF ApprovalStep

LEMMA ApprovalKeepsStatus ==
    ASSUME CalmInv, StatusInv, OneApproval', NEW a \in Approvals,
           ApprovalStep(a) \/ PipelineError(a) \/ ApprovalAbort(a),
           UNCHANGED <<undos, cleanups, clients>>
    PROVE  StatusInv'
<1>. USE CalmTypes
<1>0. PICK r \in RunId : r = approvals[a].run
  OBVIOUS
<1>1. /\ UNCHANGED <<uploads, nextRun>> /\ approvals[a].pc \in ApprovalBusy
      /\ approvals'[a].run = r
      /\ approvals[a].pc \in ApprovalPast => approvals'[a].pc \in ApprovalPast
      /\ approvals'[a].pc # "checked"
      /\ approvals'[a].pc \in ApprovalPast \/ approvals'[a].pc = "refused"
      /\ \A c \in Approvals \ {a} : approvals'[c] = approvals[c]
  BY <1>0, ApprovalFrame
<1>2. \A q \in RunId \ {r} : status'[q] = status[q]
  BY <1>0, ApprovalStore
<1>3. approvals'[a].pc \in ApprovalPast \/ UNCHANGED status
  BY <1>1, PipelineMoves
<1>4. BlankRuns' /\ RunsUploaded'
  BY <1>1 DEF StatusInv, BlankRuns, RunsUploaded
<1>5. LeftApproved'
  <2>1. \A q \in RunId : Approved(q) => Approved(q)'
    <3>1. ASSUME NEW c \in Approvals, approvals[c].pc \in ApprovalPast
          PROVE  approvals'[c].pc \in ApprovalPast /\ approvals'[c].run = approvals[c].run
      BY <1>0, <1>1, <3>1
    <3>. QED  BY <3>1 DEF Approved
  <2>2. Approved(r)' \/ UNCHANGED status
    BY <1>0, <1>1, <1>3 DEF Approved
  <2>. QED  BY <1>2, <2>1, <2>2 DEF StatusInv, LeftApproved
<1>6. PipelineStatus'
  <2>1. ASSUME NEW c \in Approvals \ {a},
               approvals[c].pc \in ApprovalPast \union {"checked"}
        PROVE  status'[approvals[c].run] = status[approvals[c].run]
    <3>1. approvals[c].run # r \/ UNCHANGED status
      BY <1>0, <1>1, <1>3, <2>1 DEF OneApproval
    <3>. QED  BY <1>2, <3>1
  <2>2. ASSUME NEW c \in Approvals \ {a}
        PROVE  LET s == status'[approvals'[c].run] IN
               /\ approvals'[c].pc = "checked" => s = "awaiting_mapping"
               /\ approvals'[c].pc \in {"saving", "loading", "reading", "starting"} => s = "mapping_approved"
               /\ approvals'[c].pc = "upserting" => s = "processing"
               /\ approvals'[c].pc = "failing" => s \in {"mapping_approved", "processing"}
               /\ approvals'[c].pc = "reporting" => s \in {"mapping_approved", "failed"} \union Ingested
               /\ approvals'[c].pc \in {"selecting", "calculating"} => s \in Ingested
    BY <1>1, <2>1 DEF StatusInv, PipelineStatus, ApprovalPast, ApprovalPC
  <2>. QED  BY <1>0, <1>1, <2>2, PipelineMoves DEF PipelineStatus
<1>7. UndoStatus'
  <2>1. \A b \in Undos : undos[b].pc \in UndoBusy => undos[b].run # r
    BY <1>0, <1>1 DEF CalmInv, UndoAfterPipeline
  <2>. QED  BY <1>2, <2>1 DEF StatusInv, UndoStatus, UndoBusy, UndoPC
<1>. QED  BY <1>4, <1>5, <1>6, <1>7 DEF StatusInv

LEMMA RequestKeepsStatus ==
    ASSUME CalmInv, StatusInv, RejectBeforeApproval', ApiRequest,
           UNCHANGED <<undos, cleanups, clients>>
    PROVE  StatusInv'
<1>. USE CalmTypes
<1>1. CASE \E u \in Uploads, c \in Carriers, m \in Modes, sk \in BOOLEAN, f \in Files :
               UploadCheckMode(u, c, m, sk, f)
  <2>1. PICK u \in Uploads, c \in Carriers, m \in Modes, sk \in BOOLEAN, f \in Files :
            UploadCheckMode(u, c, m, sk, f)
    BY <1>1
  <2>2. /\ UNCHANGED <<status, nextRun, approvals>> /\ uploads[u].run = 0 /\ uploads'[u].run = 0
        /\ \A v \in Uploads \ {u} : uploads'[v] = uploads[v]
    BY <2>1 DEF UploadCheckMode, store, StatusInv, BlankRuns
  <2>3. BlankRuns'
    BY <2>2 DEF StatusInv, BlankRuns
  <2>4. RunsUploaded'
    BY <2>2, RunIdFacts DEF StatusInv, RunsUploaded
  <2>. QED  BY <2>2, <2>3, <2>4
       DEF StatusInv, LeftApproved, Approved, PipelineStatus, UndoStatus
<1>2. CASE \E a \in Approvals, r \in RunId : ApproveCheck(a, r)
  <2>1. PICK a \in Approvals, r \in RunId : ApproveCheck(a, r)
    BY <1>2
  <2>2. /\ UNCHANGED <<status, nextRun, uploads, session>> /\ approvals[a].pc = "idle"
        /\ approvals'[a].run = r /\ session[r] # "none"
        /\ \/ approvals'[a].pc = "checked" /\ session[r] = "PENDING_REVIEW"
           \/ approvals'[a].pc = "refused"
        /\ \A c \in Approvals \ {a} : approvals'[c] = approvals[c]
    BY <2>1 DEF ApproveCheck, store, ApprovalRec
  <2>3. session[r] = "PENDING_REVIEW" => status[r] = "awaiting_mapping"
    BY <2>2 DEF CalmInv, GateInv, OwnedRows, Exists
  <2>4. LeftApproved'
    <3>1. \A q \in RunId : Approved(q) => Approved(q)'
      BY <2>2 DEF Approved, ApprovalPast
    <3>. QED  BY <2>2, <3>1 DEF StatusInv, LeftApproved
  <2>5. PipelineStatus'
    BY <2>2, <2>3 DEF StatusInv, PipelineStatus
  <2>. QED  BY <2>2, <2>4, <2>5 DEF StatusInv, BlankRuns, RunsUploaded, UndoStatus
<1>3. CASE \E r \in RunId : EditProposals(r)
  BY <1>3 DEF EditProposals, api, StatusInv, BlankRuns, RunsUploaded, LeftApproved, Approved,
              PipelineStatus, UndoStatus
<1>4. CASE \E r \in RunId : Reject(r)
  <2>1. PICK r \in RunId : Reject(r)
    BY <1>4
  <2>2. /\ UNCHANGED <<nextRun, uploads, approvals>> /\ session'[r] = "REJECTED"
        /\ status'[r] \in {"none", "failed"}
        /\ \A q \in RunId \ {r} : status'[q] = status[q]
    BY <2>1 DEF Reject, api, SetSession, SetStatus
  <2>3. \A a \in Approvals : approvals[a].pc \notin {"idle", "refused"} => approvals[a].run # r
    BY <2>2 DEF RejectBeforeApproval
  <2>4. \A b \in Undos : undos[b].pc \in UndoBusy => undos[b].run # r
    BY <2>3 DEF CalmInv, ApprovedIInv, Approved, ApprovalPast
  <2>5. LeftApproved'
    BY <2>2 DEF StatusInv, LeftApproved, Approved
  <2>6. PipelineStatus'
    BY <2>2, <2>3 DEF StatusInv, PipelineStatus
  <2>7. UndoStatus'
    BY <2>2, <2>4 DEF StatusInv, UndoStatus, UndoBusy, UndoPC
  <2>. QED  BY <2>2, <2>5, <2>6, <2>7 DEF StatusInv, BlankRuns, RunsUploaded
<1>. QED  BY <1>1, <1>2, <1>3, <1>4 DEF ApiRequest

LEMMA RollbackKeepsStatus ==
    ASSUME CalmInv, StatusInv, UndoNext, UNCHANGED <<api, cleanups, clients>>
    PROVE  StatusInv'
<1>. USE CalmTypes
<1>1. PICK b \in Undos :
          (\E r \in RunId : UndoRequest(b, r)) \/ UndoStep(b) \/ UndoError(b) \/ UndoAbort(b)
  BY DEF UndoNext
<1>. DEFINE r == undos[b].run
<1>2. /\ UNCHANGED nextRun /\ \A c \in Undos \ {b} : undos'[c] = undos[c]
      /\ \A q \in RunId : \/ status'[q] = status[q]
                          \/ q = r /\ undos[b].pc \in UndoBusy
  BY <1>1, UndoFrame
<1>3. UNCHANGED <<uploads, approvals>>
  BY DEF api
<1>4. BlankRuns' /\ RunsUploaded'
  BY <1>2, <1>3 DEF StatusInv, BlankRuns, RunsUploaded
<1>5. LeftApproved'
  <2>1. undos[b].pc \in UndoBusy => Approved(r)
    BY DEF CalmInv, ApprovedIInv
  <2>. QED  BY <1>2, <1>3, <2>1 DEF StatusInv, LeftApproved, Approved
<1>6. PipelineStatus'
  <2>1. \A a \in Approvals :
            approvals[a].pc \in ApprovalBusy => status'[approvals[a].run] = status[approvals[a].run]
    BY <1>2 DEF CalmInv, UndoAfterPipeline
  <2>. QED  BY <1>3, <2>1 DEF StatusInv, PipelineStatus, ApprovalBusy, ApprovalPC
<1>7. UndoStatus'
  <2>1. \A c \in Undos \ {b} :
            undos[c].pc \in UndoBusy => status'[undos[c].run] = status[undos[c].run]
    BY <1>2 DEF CalmInv, UndosSerial
  <2>2. /\ undos'[b].pc \in {"accepted", "validated", "recorded"} => status'[undos'[b].run] \in Ingested
        /\ undos'[b].pc \in {"deleting", "marking"} => status'[undos'[b].run] = "rolling_back"
    <3>. USE DEF UndoRec
    <3>1. /\ undos[b].pc \in {"accepted", "validated", "recorded"} => status[r] \in Ingested
          /\ undos[b].pc \in {"deleting", "marking"} => status[r] = "rolling_back"
      BY DEF StatusInv, UndoStatus
    <3>2. CASE \E q \in RunId : UndoRequest(b, q)
      BY <3>2 DEF UndoRequest, Ingested, store
    <3>3. CASE UndoValidate(b) \/ UndoNoSchema(b)
      BY <3>1, <3>3 DEF UndoValidate, UndoNoSchema, store
    <3>4. CASE UndoRecord(b)
      BY <3>1, <3>4 DEF UndoRecord
    <3>5. CASE UndoMarkRun(b)
      BY <3>1, <3>5 DEF UndoMarkRun, SetStatus, Exists, Ingested
    <3>6. CASE UndoDeleteRows(b)
      BY <3>1, <3>6 DEF UndoDeleteRows
    <3>7. CASE UndoFinishRun(b) \/ UndoComplete(b) \/ UndoFail(b) \/ UndoError(b) \/ UndoAbort(b)
      BY <3>7 DEF UndoFinishRun, UndoComplete, UndoFail, UndoError, UndoAbort
    <3>. QED  BY <1>1, <3>2, <3>3, <3>4, <3>5, <3>6, <3>7 DEF UndoStep
  <2>. QED  BY <1>2, <2>1, <2>2 DEF StatusInv, UndoStatus, UndoBusy, UndoPC
<1>. QED  BY <1>4, <1>5, <1>6, <1>7 DEF StatusInv

LEMMA CleanupKeepsStatus ==
    ASSUME CalmInv, StatusInv, CleanupNext, UNCHANGED <<api, undos, clients>>
    PROVE  StatusInv'
<1>1. PICK d \in Cleanups :
          CleanupRecord(d) \/ CleanupStep(d) \/ CleanupError(d) \/ CleanupAbort(d)
  BY DEF CleanupNext
<1>2. CASE CleanupCommit(d)
  <2>1. /\ UNCHANGED <<nextRun, uploads, approvals, undos>>
        /\ \A q \in RunId : status'[q] = "none"
        /\ cleanups[d].pc \in CleanupBusy
    BY <1>2 DEF CleanupCommit, api, CleanupBusy
  <2>2. /\ \A a \in Approvals : approvals[a].pc \notin ApprovalBusy
        /\ \A b \in Undos : undos[b].pc \notin UndoBusy
    BY <2>1 DEF CalmInv, CleanupAlone
  <2>3. PipelineStatus'
    BY <2>1, <2>2 DEF PipelineStatus, ApprovalBusy, ApprovalPC
  <2>4. UndoStatus'
    BY <2>1, <2>2 DEF UndoStatus, UndoBusy, UndoPC
  <2>5. LeftApproved'
    BY <2>1 DEF LeftApproved
  <2>. QED  BY <2>1, <2>3, <2>4, <2>5 DEF StatusInv, BlankRuns, RunsUploaded
<1>3. CASE UNCHANGED <<store, api, undos>>
  BY <1>3 DEF store, api, StatusInv, BlankRuns, RunsUploaded, LeftApproved, Approved,
              PipelineStatus, UndoStatus
<1>4. CleanupCommit(d) \/ UNCHANGED <<store, api, undos>>
  BY <1>1 DEF CleanupRecord, CleanupStep, CleanupDeleteFacts, CleanupFail, CleanupError,
              CleanupAbort
<1>. QED  BY <1>2, <1>3, <1>4

LEMMA StatusInductive == ShownInv /\ StatusIInv /\ [Next]_vars => StatusIInv'
<1>. SUFFICES ASSUME ShownInv, StatusIInv, [Next]_vars, Calm'
              PROVE  StatusInv'
  BY DEF StatusIInv
<1>1. UNCHANGED clients /\ Calm
  BY DEF Next, vars, Calm
<1>2. CalmInv /\ StatusInv /\ CalmInv'
  <2>1. CalmInv
    BY <1>1, CalmHolds
  <2>2. ShownInv'
    BY ShownInductive
  <2>3. (ShownInv /\ Calm => CalmInv)'
    BY CalmHolds, PTL
  <2>. QED  BY <1>1, <2>1, <2>2, <2>3 DEF StatusIInv
<1>3. OneApproval' /\ RejectBeforeApproval'
  BY <1>2 DEF CalmInv
<1>4. CASE UNCHANGED vars
  BY <1>2, <1>4 DEF vars, store, api, StatusInv, BlankRuns, RunsUploaded, LeftApproved, Approved,
              PipelineStatus, UndoStatus
<1>5. CASE ApiRequest /\ UNCHANGED <<undos, cleanups>>
  BY <1>1, <1>2, <1>3, <1>5, RequestKeepsStatus
<1>6. CASE ApiStep /\ UNCHANGED <<undos, cleanups>>
  BY <1>1, <1>2, <1>3, <1>6, UploadKeepsStatus, ApprovalKeepsStatus DEF ApiStep
<1>7. CASE UndoNext /\ UNCHANGED <<api, cleanups>>
  BY <1>1, <1>2, <1>7, RollbackKeepsStatus
<1>8. CASE CleanupNext /\ UNCHANGED <<api, undos>>
  BY <1>1, <1>2, <1>8, CleanupKeepsStatus
<1>. QED  BY <1>4, <1>5, <1>6, <1>7, <1>8 DEF Next, Request

(* What the phases of a run tell of its row in ingestion_runs. *)
PhaseFacts ==
    /\ Phase = [r \in RunId |-> Phase[r]]
    /\ \A r \in RunId :
          /\ status[r] = "none" /\ r < nextRun => Phase[r] = "purged"
          /\ status[r] = "none" /\ r >= nextRun => Phase[r] = "absent"
          /\ status[r] = "awaiting_mapping" => Phase[r] = "pending"
          /\ status[r] = "mapping_approved" => Phase[r] = "approved"
          /\ status[r] = "processing" => Phase[r] = "ingesting"
          /\ status[r] \in Ingested => Phase[r] = "ingested"
          /\ status[r] = "failed" => Phase[r] = "failed"
          /\ status[r] = "rolling_back" => Phase[r] = "undoing"
          /\ status[r] = "rolled_back" => Phase[r] = "undone"

LEMMA Phases == (TypeInv => PhaseFacts) /\ (TypeInv => PhaseFacts)'
<1>1. ASSUME TypeInv PROVE PhaseFacts
  <2>1. Phase = [r \in RunId |-> Phase[r]]
    BY DEF Phase
  <2>2. ASSUME NEW r \in RunId
        PROVE  /\ status[r] = "none" /\ r < nextRun => Phase[r] = "purged"
               /\ status[r] = "none" /\ r >= nextRun => Phase[r] = "absent"
    <3>1. r \in Int /\ nextRun \in Int
      BY <1>1, StoreTypes, RunIdFacts
    <3>2. ASSUME status[r] = "none", r < nextRun PROVE PhaseOf(r) = "purged"
      BY <3>1, <3>2 DEF PhaseOf
    <3>3. ASSUME status[r] = "none", r >= nextRun PROVE PhaseOf(r) = "absent"
      BY <3>1, <3>3 DEF PhaseOf
    <3>. QED  BY <3>2, <3>3 DEF Phase
  <2>3. ASSUME NEW r \in RunId
        PROVE  /\ status[r] = "awaiting_mapping" => Phase[r] = "pending"
               /\ status[r] = "mapping_approved" => Phase[r] = "approved"
               /\ status[r] = "processing" => Phase[r] = "ingesting"
               /\ status[r] \in Ingested => Phase[r] = "ingested"
    BY DEF Phase, PhaseOf, Ingested
  <2>4. ASSUME NEW r \in RunId
        PROVE  /\ status[r] = "failed" => Phase[r] = "failed"
               /\ status[r] = "rolling_back" => Phase[r] = "undoing"
               /\ status[r] = "rolled_back" => Phase[r] = "undone"
    BY DEF Phase, PhaseOf
  <2>. QED  BY <2>1, <2>2, <2>3, <2>4 DEF PhaseFacts
<1>. QED  BY <1>1, PTL

RowsFacts ==
    /\ Rows = [r \in RunId |-> Rows[r]]
    /\ \A r \in RunId :
          /\ ~HasRows(r) => Rows[r] = "none"
          /\ HasRows(r) /\ Whole(r) => Rows[r] = "all"
          /\ HasRows(r) /\ ~Whole(r) => Rows[r] = "some"

LEMMA RowsCases == RowsFacts /\ RowsFacts'
<1>1. RowsFacts
  BY DEF RowsFacts, Rows
<1>. QED  BY <1>1, PTL

LEMMA PhaseKept ==
    ASSUME NEW S \in SUBSET RunId, TypeInv, TypeInv',
           \A q \in RunId \ S : status'[q] = status[q] /\ (q < nextRun <=> q < nextRun')
    PROVE  \A q \in RunId \ S : Phase'[q] = Phase[q]
<1>1. /\ status \in [RunId -> RunStatus \union {"none"}]
      /\ nextRun \in Nat /\ RunId \subseteq Nat
  BY StoreTypes, RunIdFacts
<1>2. nextRun' \in Nat
  BY DEF TypeInv, TypeOK, StoreTypeOK
<1>3. SUFFICES ASSUME NEW q \in RunId \ S PROVE Phase'[q] = Phase[q]
  OBVIOUS
<1>4. status'[q] = status[q] /\ (q < nextRun <=> q < nextRun') /\ (q >= nextRun <=> q >= nextRun')
  BY <1>1, <1>2
<1>5. status[q] \in {"none", "awaiting_mapping", "mapping_approved", "processing", "failed",
                    "rolling_back", "rolled_back"} \union Ingested
  BY <1>1 DEF RunStatus, Ingested
<1>6. PhaseFacts /\ PhaseFacts'
  BY Phases
<1>7. CASE status[q] = "none"
  BY <1>1, <1>4, <1>6, <1>7 DEF PhaseFacts
<1>8. CASE status[q] # "none"
  BY <1>4, <1>5, <1>6, <1>8 DEF PhaseFacts
<1>. QED  BY <1>7, <1>8

LEMMA PhaseMoves ==
    ASSUME TypeInv, TypeInv', NEW r \in RunId,
           \A q \in RunId \ {r} : status'[q] = status[q] /\ (q < nextRun <=> q < nextRun')
    PROVE  Phase' = [Phase EXCEPT ![r] = Phase'[r]]
<1>1. \A q \in RunId \ {r} : Phase'[q] = Phase[q]
  BY PhaseKept
<1>. QED  BY <1>1, Phases DEF PhaseFacts

LEMMA PhaseStays == UNCHANGED <<status, nextRun>> => UNCHANGED Phase
BY DEF Phase, PhaseOf

LEMMA RowsKept ==
    ASSUME NEW S \in SUBSET RunId,
           \A q \in RunId \ S : facts'[q] = facts[q],
           \A u \in Uploads : \/ uploads'[u].run = uploads[u].run /\ uploads'[u].file = uploads[u].file
                             \/ {uploads[u].run, uploads'[u].run} \intersect (RunId \ S) = {}
    PROVE  \A q \in RunId \ S : Rows'[q] = Rows[q]
<1>. SUFFICES ASSUME NEW q \in RunId \ S PROVE Rows'[q] = Rows[q]
  OBVIOUS
<1>1. HasRows(q)' <=> HasRows(q)
  BY DEF HasRows
<1>2. \A u \in Uploads : uploads'[u].run = q \/ uploads[u].run = q =>
          uploads'[u].run = uploads[u].run /\ uploads'[u].file = uploads[u].file
  OBVIOUS
<1>3. Whole(q)' <=> Whole(q)
  BY <1>2 DEF Whole, Uploaded
<1>. QED  BY <1>1, <1>3, RowsCases DEF RowsFacts

LEMMA RowsStay ==
    ASSUME UNCHANGED facts,
           \A u \in Uploads : \/ uploads'[u].run = uploads[u].run /\ uploads'[u].file = uploads[u].file
                             \/ {uploads[u].run, uploads'[u].run} \intersect RunId = {}
    PROVE  UNCHANGED Rows
<1>1. \A q \in RunId \ {} : Rows'[q] = Rows[q]
  BY RowsKept
<1>. QED  BY <1>1, RowsCases DEF RowsFacts

LEMMA RowsMove ==
    ASSUME NEW r \in RunId, UNCHANGED uploads, \A q \in RunId \ {r} : facts'[q] = facts[q]
    PROVE  Rows' = [Rows EXCEPT ![r] = Rows'[r]]
<1>1. \A q \in RunId \ {r} : Rows'[q] = Rows[q]
  BY RowsKept
<1>. QED  BY <1>1, RowsCases DEF RowsFacts

(* A step in the life of a run, or none. *)
Lives == [Lifecycle!LifecycleNext]_(Lifecycle!lifecycle)

(* A step that gives one run another status, and that touches neither the  *)
(* fact tables nor what was uploaded, is a move of that run.               *)
LEMMA StatusMoves ==
    ASSUME TypeInv, TypeInv', NEW r \in RunId, NEW s \in RunStatus, Exists(r), SetStatus(r, s),
           UNCHANGED nextRun
    PROVE  status'[r] = s /\ Phase' = [Phase EXCEPT ![r] = Phase'[r]]
<1>1. status'[r] = s /\ \A q \in RunId \ {r} : status'[q] = status[q]
  BY StoreTypes DEF SetStatus
<1>. QED  BY <1>1, PhaseMoves

LEMMA FailIsAMove ==
    ASSUME TypeInv, TypeInv', NEW r \in RunId, SetStatus(r, "failed"), UNCHANGED nextRun,
           UNCHANGED Rows,
           status[r] \in {"awaiting_mapping", "mapping_approved", "processing", "failed"}
                           \union Ingested
    PROVE  Lives
<1>1. CASE status[r] = "failed"
  <2>1. UNCHANGED status
    BY <1>1, StoreTypes DEF SetStatus, Exists
  <2>. QED  BY <2>1, PhaseStays DEF Lives, Lifecycle!lifecycle
<1>2. CASE status[r] # "failed"
  <2>1. status'[r] = "failed" /\ Phase' = [Phase EXCEPT ![r] = Phase'[r]]
    BY StatusMoves DEF Exists, RunStatus, Ingested
  <2>2. Phase'[r] = "failed" /\ Phase[r] \in {"pending", "approved", "ingesting", "ingested"}
    BY <1>2, <2>1, Phases DEF PhaseFacts, Ingested
  <2>3. Lifecycle!Fail(r)
    BY <2>1, <2>2 DEF Lifecycle!Fail, Lifecycle!Move
  <2>. QED  BY <2>3 DEF Lives, Lifecycle!LifecycleNext
<1>. QED  BY <1>1, <1>2

LEMMA QuietStep == UNCHANGED <<status, nextRun, Rows>> => Lives
BY PhaseStays DEF Lives, Lifecycle!lifecycle

LEMMA CalmRuns ==
    ASSUME CalmInv
    PROVE  /\ TypeInv /\ nextRun \in Nat /\ RunId \subseteq Nat \ {0}
           /\ \A r \in RunId : r >= nextRun => status[r] = "none"
           /\ \A r \in RunId : HasRows(r) => Exists(r)
BY StoreTypes, RunIdFacts DEF CalmInv, RollbackIInv, FutureAbsent, OwnedRows

LEMMA UploadLives ==
    ASSUME CalmInv, CalmInv', StatusInv, NEW u \in Uploads, UploadStep(u) \/ UploadAbort(u)
    PROVE  Lives
<1>. USE CalmTypes
<1>0. TypeInv /\ TypeInv'
  BY DEF CalmInv
<1>1. CASE UploadCreateRun(u)
  <2>1. PICK r \in RunId : r = nextRun
    BY <1>1 DEF UploadCreateRun, RunId
  <2>2. /\ nextRun' = nextRun + 1 /\ status'[r] = "awaiting_mapping" /\ UNCHANGED facts
        /\ \A q \in RunId \ {r} : status'[q] = status[q]
        /\ \A v \in Uploads \ {u} : uploads'[v] = uploads[v]
        /\ uploads[u].run = 0 /\ uploads'[u].run = r
    BY <1>1, <2>1 DEF UploadCreateRun, StatusInv, BlankRuns, UploadRec
  <2>3. status[r] = "none" /\ ~HasRows(r) /\ ~HasRows(r)'
    BY <2>1, <2>2, CalmRuns DEF Exists, HasRows
  <2>4. \A q \in RunId \ {r} : q < nextRun <=> q < nextRun'
    BY <2>1, <2>2, CalmRuns
  <2>5. Phase' = [Phase EXCEPT ![r] = Phase'[r]]
    BY <1>0, <2>2, <2>4, PhaseMoves
  <2>6. Phase[r] = "absent" /\ Phase'[r] = "pending"
    BY <1>0, <2>1, <2>2, <2>3, Phases, CalmRuns DEF PhaseFacts
  <2>7. UNCHANGED Rows
    <3>1. \A q \in RunId \ {r} : Rows'[q] = Rows[q]
      <4>1. {uploads[u].run, uploads'[u].run} \intersect (RunId \ {r}) = {}
        BY <2>2, CalmRuns
      <4>2. {r} \in SUBSET RunId
        OBVIOUS
      <4>. QED  BY <2>2, <4>1, <4>2, RowsKept
    <3>2. Rows'[r] = "none" /\ Rows[r] = "none"
      BY <2>3, RowsCases DEF RowsFacts
    <3>. QED  BY <3>1, <3>2, RowsCases DEF RowsFacts
  <2>8. Lifecycle!Register(r)
    BY <2>5, <2>6, <2>7 DEF Lifecycle!Register, Lifecycle!Move
  <2>. QED  BY <2>8 DEF Lives, Lifecycle!LifecycleNext
<1>2. CASE UploadMapFails(u)
  <2>1. PICK r \in RunId : r = uploads[u].run
    BY <1>2 DEF UploadMapFails, CalmInv, TypeInv, RunsKnown
  <2>2. status[r] = "awaiting_mapping"
    BY <1>2, <2>1 DEF UploadMapFails, CalmInv, GateIInv, MappingUnseen, BeforeSession, Unseen,
                      Untouched, UploadsOwned, Inserting, Exists
  <2>3. SetStatus(r, "failed") /\ UNCHANGED <<nextRun, facts>>
        /\ \A v \in Uploads : uploads'[v].run = uploads[v].run /\ uploads'[v].file = uploads[v].file
    BY <1>2, <2>1 DEF UploadMapFails, UploadRec
  <2>. QED  BY <1>0, <2>2, <2>3, RowsStay, FailIsAMove
<1>3. CASE UploadSetSkip(u) \/ UploadMap(u) \/ UploadStoreBytes(u) \/ UploadAbort(u)
  <2>1. /\ UNCHANGED <<status, nextRun, facts>>
        /\ \A v \in Uploads : uploads'[v].run = uploads[v].run /\ uploads'[v].file = uploads[v].file
    BY <1>3 DEF UploadSetSkip, UploadMap, UploadStoreBytes, UploadAbort, store, UploadRec
  <2>. QED  BY <2>1, RowsStay, QuietStep
<1>. QED  BY <1>1, <1>2, <1>3 DEF UploadStep

LEMMA RequestLives ==
    ASSUME CalmInv, CalmInv', StatusInv, ApiRequest
    PROVE  Lives
<1>. USE CalmTypes
<1>0. TypeInv /\ TypeInv'
  BY DEF CalmInv
<1>1. ASSUME NEW u \in Uploads, NEW c, NEW m, NEW sk, NEW f, UploadCheckMode(u, c, m, sk, f)
      PROVE  Lives
  <2>1. /\ UNCHANGED <<status, nextRun, facts>> /\ uploads[u].run = 0 /\ uploads'[u].run = 0
        /\ \A v \in Uploads \ {u} : uploads'[v] = uploads[v]
    BY <1>1 DEF UploadCheckMode, store, StatusInv, BlankRuns
  <2>2. UNCHANGED Rows
    BY <2>1, RowsStay, CalmRuns
  <2>. QED  BY <2>1, <2>2, QuietStep
<1>2. ASSUME NEW a \in Approvals, NEW r \in RunId, ApproveCheck(a, r)
      PROVE  Lives
  BY <1>2, RowsStay, QuietStep DEF ApproveCheck, store
<1>3. ASSUME NEW r \in RunId, EditProposals(r)
      PROVE  Lives
  BY <1>3, RowsStay, QuietStep DEF EditProposals, api
<1>4. ASSUME NEW r \in RunId, Reject(r)
      PROVE  Lives
  <2>1. SetStatus(r, "failed") /\ UNCHANGED <<nextRun, facts, uploads, approvals>>
        /\ session'[r] = "REJECTED"
    BY <1>4 DEF Reject, api, SetSession
  <2>2. UNCHANGED Rows
    BY <2>1, RowsStay
  <2>3. \A a \in Approvals : approvals[a].pc \notin {"idle", "refused"} => approvals[a].run # r
    BY <2>1 DEF CalmInv, RejectBeforeApproval
  <2>4. status[r] \in {"none", "awaiting_mapping", "failed"}
    BY <2>3 DEF StatusInv, LeftApproved, Approved, ApprovalPast
  <2>5. CASE status[r] = "none"
    <3>1. UNCHANGED status
      BY <2>1, <2>5 DEF SetStatus, Exists
    <3>. QED  BY <2>1, <2>2, <3>1, QuietStep
  <2>6. CASE status[r] # "none"
    BY <1>0, <2>1, <2>2, <2>4, <2>6, FailIsAMove
  <2>. QED  BY <2>5, <2>6
<1>. QED  BY <1>1, <1>2, <1>3, <1>4 DEF ApiRequest

LEMMA ApprovalLives ==
    ASSUME CalmInv, CalmInv', StatusInv, NEW a \in Approvals,
           ApprovalStep(a) \/ PipelineError(a) \/ ApprovalAbort(a)
    PROVE  Lives
<1>. USE CalmTypes
<1>0. TypeInv /\ TypeInv'
  BY DEF CalmInv
<1>1. PICK r \in RunId : r = approvals[a].run
  OBVIOUS
<1>2. /\ UNCHANGED <<uploads, nextRun>> /\ Exists(r)
      /\ \A q \in RunId \ {r} : status'[q] = status[q] /\ facts'[q] = facts[q]
  BY <1>1, ApprovalFrame, ApprovalStore DEF CalmInv, PipelinesOwned
<1>3. Rows' = [Rows EXCEPT ![r] = Rows'[r]] /\ (UNCHANGED facts => UNCHANGED Rows)
  BY <1>2, RowsMove, RowsStay
<1>4. Phase' = [Phase EXCEPT ![r] = Phase'[r]]
  BY <1>0, <1>2, PhaseMoves
<1>5. PhaseFacts /\ PhaseFacts'
  BY <1>0, Phases
<1>6. /\ approvals[a].pc = "checked" => status[r] = "awaiting_mapping"
      /\ approvals[a].pc \in {"saving", "loading", "reading", "starting"} => status[r] = "mapping_approved"
      /\ approvals[a].pc = "upserting" => status[r] = "processing"
      /\ approvals[a].pc = "failing" => status[r] \in {"mapping_approved", "processing"}
      /\ approvals[a].pc = "reporting" => status[r] \in {"mapping_approved", "failed"} \union Ingested
  BY <1>1 DEF StatusInv, PipelineStatus
<1>7. CASE ApproveCommit(a)
  <2>1. status[r] = "awaiting_mapping" /\ status'[r] = "mapping_approved" /\ UNCHANGED facts
    BY <1>1, <1>2, <1>6, <1>7 DEF ApproveCommit, SetStatus
  <2>2. Phase[r] = "pending" /\ Phase'[r] = "approved"
    BY <1>5, <2>1 DEF PhaseFacts
  <2>3. Lifecycle!Approve(r)
    BY <1>3, <1>4, <2>1, <2>2 DEF Lifecycle!Approve, Lifecycle!Move
  <2>. QED  BY <2>3 DEF Lives, Lifecycle!LifecycleNext
<1>8. CASE PipelineStart(a)
  <2>1. status[r] = "mapping_approved" /\ status'[r] = "processing" /\ UNCHANGED facts
    BY <1>1, <1>2, <1>6, <1>8 DEF PipelineStart, SetStatus
  <2>2. Phase[r] = "approved" /\ Phase'[r] = "ingesting"
    BY <1>5, <2>1 DEF PhaseFacts
  <2>3. Lifecycle!Begin(r)
    BY <1>3, <1>4, <2>1, <2>2 DEF Lifecycle!Begin, Lifecycle!Move
  <2>. QED  BY <2>3 DEF Lives, Lifecycle!LifecycleNext
<1>9. ASSUME approvals[a].pc = "upserting"
      PROVE  /\ \E u \in Uploads : uploads[u].run = r
             /\ \A u \in Uploads : uploads[u].run = r => approvals[a].file = uploads[u].file
             /\ approvals[a].next \in Nat \ {0} /\ approvals[a].file.commits \in 1 .. MaxCommits
             /\ approvals[a].next <= approvals[a].file.commits + 1
             /\ \A k \in BatchId : facts[r][k] = IF k < approvals[a].next THEN 1 ELSE 0
  <2>1. r < nextRun
    BY <1>2, CalmRuns DEF Exists
  <2>2. PICK u \in Uploads : uploads[u].run = r
    BY <2>1 DEF StatusInv, RunsUploaded
  <2>3. \A v \in Uploads : uploads[v].run = r => approvals[a].file = uploads[v].file
    BY <1>1, <1>2, <1>9 DEF CalmInv, OnceInv, FilesRead
  <2>4. approvals[a].file \in Files
    BY <2>2, <2>3 DEF UploadRec
  <2>5. approvals[a].file.commits \in 1 .. MaxCommits
    BY <2>4, StoreAssumption DEF StoreAssumption, FileType
  <2>6. approvals[a].next \in Nat \ {0}
    BY StoreAssumption DEF ApprovalRec, StoreAssumption
  <2>7. /\ approvals[a].next <= approvals[a].file.commits + 1
        /\ \A k \in BatchId : facts[r][k] = IF k < approvals[a].next THEN 1 ELSE 0
    BY <1>1, <1>2, <1>9 DEF CalmInv, OnceInv, UpsertedOnce
  <2>. QED  BY <2>2, <2>3, <2>5, <2>6, <2>7
<1>10. CASE PipelineUpsert(a)
  <2>. DEFINE k == approvals[a].next
  <2>1. /\ approvals[a].pc = "upserting" /\ k \in BatchId /\ k <= approvals[a].file.commits
        /\ facts'[r][k] = facts[r][k] + 1 /\ UNCHANGED status
    BY <1>0, <1>1, <1>10, UpsertRows
  <2>2. facts[r][k] = 0 /\ facts'[r][k] = 1 /\ k \in Nat \ {0}
    BY <1>9, <2>1
  <2>3. ~Whole(r)
    <3>1. PICK u \in Uploads : uploads[u].run = r
      BY <1>9, <2>1
    <3>2. k \in 1 .. uploads[u].file.commits
      BY <1>9, <2>1, <2>2, <3>1
    <3>. QED  BY <2>2, <3>1, <3>2 DEF Whole, Uploaded
  <2>4. HasRows(r)'
    BY <2>1, <2>2 DEF HasRows
  <2>5. Rows[r] # "all" /\ Rows'[r] \in {"some", "all"}
    BY <2>3, <2>4, RowsCases DEF RowsFacts
  <2>6. Phase[r] = "ingesting" /\ UNCHANGED Phase
    BY <1>2, <1>5, <1>6, <2>1, PhaseStays DEF PhaseFacts
  <2>7. Lifecycle!Ingest(r)
    BY <1>3, <2>5, <2>6 DEF Lifecycle!Ingest
  <2>. QED  BY <2>7 DEF Lives, Lifecycle!LifecycleNext
<1>11. CASE PipelineFinish(a)
  <2>1. /\ approvals[a].pc = "upserting" /\ approvals[a].next > approvals[a].file.commits
        /\ status'[r] \in Ingested /\ UNCHANGED facts
    BY <1>1, <1>2, <1>11 DEF PipelineFinish, SetStatus, Ingested
  <2>2. Phase[r] = "ingesting" /\ Phase'[r] = "ingested"
    BY <1>5, <1>6, <2>1 DEF PhaseFacts
  <2>3. \A k \in 1 .. approvals[a].file.commits : k \in BatchId /\ facts[r][k] = 1
    BY <1>9, <2>1, StoreAssumption DEF BatchId, StoreAssumption
  <2>4. HasRows(r)
    <3>1. 1 \in 1 .. approvals[a].file.commits
      BY <1>9, <2>1
    <3>. QED  BY <2>3, <3>1 DEF HasRows
  <2>5. Whole(r)
    BY <1>9, <2>1, <2>3 DEF Whole, Uploaded
  <2>6. Rows[r] = "all"
    BY <2>4, <2>5, RowsCases DEF RowsFacts
  <2>7. Lifecycle!Finish(r)
    BY <1>3, <1>4, <2>1, <2>2, <2>6 DEF Lifecycle!Finish, Lifecycle!Move
  <2>. QED  BY <2>7 DEF Lives, Lifecycle!LifecycleNext
<1>12. CASE PipelineFail(a) \/ PipelineReport(a)
  <2>1. SetStatus(r, "failed") /\ UNCHANGED facts /\ approvals[a].pc \in {"failing", "reporting"}
    BY <1>1, <1>12 DEF PipelineFail, PipelineReport
  <2>. QED  BY <1>0, <1>2, <1>3, <1>6, <2>1, FailIsAMove
<1>13. CASE ApproveSpawn(a) \/ PipelineLoad(a) \/ PipelineRead(a) \/ PipelineBadRow(a)
            \/ PipelineSelectPolicies(a) \/ PipelineCalculate(a) \/ PipelineError(a)
            \/ ApprovalAbort(a)
  <2>1. UNCHANGED <<status, facts>>
    BY <1>13 DEF ApproveSpawn, PipelineLoad, PipelineRead, PipelineBadRow, PipelineSelectPolicies,
                 PipelineCalculate, PipelineError, ApprovalAbort, store
  <2>. QED  BY <1>2, <1>3, <2>1, QuietStep
<1>. QED  BY <1>7, <1>8, <1>10, <1>11, <1>12, <1>13 DEF ApprovalStep

LEMMA RollbackLives ==
    ASSUME CalmInv, CalmInv', StatusInv, UndoNext, UNCHANGED api
    PROVE  Lives
<1>. USE CalmTypes
<1>0. TypeInv /\ TypeInv' /\ UNCHANGED uploads
  BY DEF CalmInv, api
<1>1. PICK b \in Undos :
          (\E q \in RunId : UndoRequest(b, q)) \/ UndoStep(b) \/ UndoError(b) \/ UndoAbort(b)
  BY DEF UndoNext
<1>2. PICK r \in RunId : r = undos[b].run
  OBVIOUS
<1>3. UNCHANGED nextRun /\ \A q \in RunId \ {r} : status'[q] = status[q]
  BY <1>0, <1>1, <1>2, UndoFrame
<1>4. Phase' = [Phase EXCEPT ![r] = Phase'[r]]
  BY <1>0, <1>3, PhaseMoves
<1>5. PhaseFacts /\ PhaseFacts'
  BY <1>0, Phases
<1>6. UNCHANGED facts => UNCHANGED Rows
  BY <1>0, RowsStay
<1>7. /\ undos[b].pc = "recorded" => status[r] \in Ingested
      /\ undos[b].pc \in {"deleting", "marking"} => status[r] = "rolling_back"
  BY <1>2 DEF StatusInv, UndoStatus
<1>8. CASE UndoMarkRun(b)
  <2>1. status[r] \in Ingested /\ status'[r] = "rolling_back" /\ UNCHANGED facts
    BY <1>2, <1>7, <1>8 DEF UndoMarkRun, SetStatus, Exists, Ingested
  <2>2. Phase[r] = "ingested" /\ Phase'[r] = "undoing"
    BY <1>5, <2>1 DEF PhaseFacts
  <2>3. Lifecycle!BeginUndo(r)
    BY <1>4, <1>6, <2>1, <2>2 DEF Lifecycle!BeginUndo, Lifecycle!Move
  <2>. QED  BY <2>3 DEF Lives, Lifecycle!LifecycleNext
<1>9. CASE UndoDeleteRows(b)
  <2>1. /\ status[r] = "rolling_back" /\ UNCHANGED status /\ facts' = [facts EXCEPT ![r] = NoRows]
    BY <1>2, <1>7, <1>9 DEF UndoDeleteRows
  <2>2. facts'[r] = NoRows /\ \A q \in RunId \ {r} : facts'[q] = facts[q]
    BY <1>0, <2>1, StoreTypes
  <2>3. ~HasRows(r)'
    BY <2>2 DEF HasRows, NoRows
  <2>4. Rows' = [Rows EXCEPT ![r] = "none"]
    BY <1>0, <2>2, <2>3, RowsMove, RowsCases DEF RowsFacts
  <2>5. Phase[r] = "undoing" /\ UNCHANGED Phase
    BY <1>3, <1>5, <2>1, PhaseStays DEF PhaseFacts
  <2>6. Lifecycle!EraseRows(r)
    BY <2>4, <2>5 DEF Lifecycle!EraseRows
  <2>. QED  BY <2>6 DEF Lives, Lifecycle!LifecycleNext
<1>10. CASE UndoFinishRun(b)
  <2>1. status[r] = "rolling_back" /\ status'[r] = "rolled_back" /\ UNCHANGED facts
    BY <1>2, <1>7, <1>10 DEF UndoFinishRun, SetStatus, Exists
  <2>2. Phase[r] = "undoing" /\ Phase'[r] = "undone"
    BY <1>5, <2>1 DEF PhaseFacts
  <2>3. facts[r] = NoRows
    BY <1>2, <1>10 DEF UndoFinishRun, CalmInv, MarkingClean, Clean
  <2>4. Rows[r] = "none"
    BY <2>3, RowsCases DEF RowsFacts, HasRows, NoRows
  <2>5. Lifecycle!FinishUndo(r)
    BY <1>4, <1>6, <2>1, <2>2, <2>4 DEF Lifecycle!FinishUndo, Lifecycle!Move
  <2>. QED  BY <2>5 DEF Lives, Lifecycle!LifecycleNext
<1>11. CASE UNCHANGED <<status, facts>>
  BY <1>3, <1>6, <1>11, QuietStep
<1>12. UndoMarkRun(b) \/ UndoDeleteRows(b) \/ UndoFinishRun(b) \/ UNCHANGED <<status, facts>>
  BY <1>1 DEF UndoStep, UndoRequest, UndoValidate, UndoNoSchema, UndoRecord, UndoComplete,
              UndoFail, UndoError, UndoAbort, store
<1>. QED  BY <1>8, <1>9, <1>10, <1>11, <1>12

LEMMA CleanupLives ==
    ASSUME CalmInv, CalmInv', CleanupNext, UNCHANGED api
    PROVE  Lives
<1>0. TypeInv /\ TypeInv' /\ UNCHANGED uploads
  BY DEF CalmInv, api
<1>1. PICK d \in Cleanups :
          CleanupRecord(d) \/ CleanupStep(d) \/ CleanupError(d) \/ CleanupAbort(d)
  BY DEF CleanupNext
<1>2. CASE CleanupCommit(d)
  <2>1. UNCHANGED nextRun /\ \A r \in RunId : status'[r] = "none"
    BY <1>2 DEF CleanupCommit
  <2>2. cleanups[d].facts = facts
    BY <1>2 DEF CleanupCommit, CalmInv, AllMarked
  <2>3. ASSUME NEW r \in RunId, NEW k \in BatchId
        PROVE  facts'[r][k] = 0
    <3>1. facts[r][k] \in Nat
      BY <1>0, StoreTypes
    <3>2. facts'[r][k] = Left(facts[r][k], facts[r][k])
      BY <1>2, <2>2 DEF CleanupCommit
    <3>. QED  BY <3>1, <3>2 DEF Left
  <2>4. Rows' = [r \in RunId |-> "none"]
    BY <2>3, RowsCases DEF RowsFacts, HasRows
  <2>5. ASSUME NEW r \in RunId
        PROVE  Phase'[r] = IF Phase[r] = "absent" THEN "absent" ELSE "purged"
    <3>1. r \in Nat /\ nextRun \in Nat /\ (r >= nextRun => status[r] = "none")
      BY CalmRuns
    <3>2. PhaseFacts /\ PhaseFacts'
      BY <1>0, Phases
    <3>3. CASE r >= nextRun
      BY <2>1, <3>1, <3>2, <3>3 DEF PhaseFacts
    <3>4. CASE r < nextRun
      <4>1. Phase'[r] = "purged"
        BY <2>1, <3>2, <3>4 DEF PhaseFacts
      <4>2. status[r] \in {"none", "awaiting_mapping", "mapping_approved", "processing", "failed",
                           "rolling_back", "rolled_back"} \union Ingested
        BY <1>0, StoreTypes DEF RunStatus, Ingested
      <4>3. Phase[r] # "absent"
        BY <3>2, <3>4, <4>2 DEF PhaseFacts
      <4>. QED  BY <4>1, <4>3
    <3>. QED  BY <3>1, <3>3, <3>4
  <2>6. Phase' = [r \in RunId |-> IF Phase[r] = "absent" THEN "absent" ELSE "purged"]
    BY <1>0, <2>5, Phases DEF PhaseFacts
  <2>7. Lifecycle!Purge
    BY <2>4, <2>6 DEF Lifecycle!Purge
  <2>. QED  BY <2>7 DEF Lives, Lifecycle!LifecycleNext
<1>3. CASE UNCHANGED store
  <2>1. UNCHANGED <<status, nextRun, facts>>
    BY <1>3 DEF store
  <2>. QED  BY <1>0, <2>1, RowsStay, QuietStep
<1>4. CleanupCommit(d) \/ UNCHANGED store
  BY <1>1 DEF CleanupRecord, CleanupStep, CleanupDeleteFacts, CleanupFail, CleanupError,
              CleanupAbort
<1>. QED  BY <1>2, <1>3, <1>4

LEMMA StepLives == ShownInv /\ StatusIInv /\ Calm /\ [Next]_vars => Lives
<1>. SUFFICES ASSUME ShownInv, StatusIInv, Calm, [Next]_vars
              PROVE  Lives
  OBVIOUS
<1>1. CalmInv /\ StatusInv /\ CalmInv'
  <2>1. ShownInv' /\ Calm'
    BY ShownInductive, ClientsInductive DEF ShownInv, Calm
  <2>2. (ShownInv /\ Calm => CalmInv)'
    BY CalmHolds, PTL
  <2>. QED  BY <2>1, <2>2, CalmHolds DEF StatusIInv
<1>2. CASE UNCHANGED vars
  BY <1>2, RowsStay, QuietStep DEF vars, store, api
<1>3. CASE ApiRequest
  BY <1>1, <1>3, RequestLives
<1>4. CASE ApiStep
  BY <1>1, <1>4, UploadLives, ApprovalLives DEF ApiStep
<1>5. CASE UndoNext /\ UNCHANGED api
  BY <1>1, <1>5, RollbackLives
<1>6. CASE CleanupNext /\ UNCHANGED api
  BY <1>1, <1>6, CleanupLives
<1>. QED  BY <1>2, <1>3, <1>4, <1>5, <1>6 DEF Next, Request, api

LEMMA LifeBegins == Init => Lifecycle!LifecycleInit
<1>. SUFFICES ASSUME Init PROVE Lifecycle!LifecycleInit
  OBVIOUS
<1>1. TypeInv /\ nextRun = 1 /\ \A r \in RunId : status[r] = "none" /\ facts[r] = NoRows
  BY InitTypeInv DEF Init, StoreInit
<1>2. \A r \in RunId : ~HasRows(r)
  BY <1>1 DEF HasRows, NoRows
<1>3. Rows = [r \in RunId |-> "none"]
  BY <1>2, RowsCases DEF RowsFacts
<1>4. \A r \in RunId : r >= nextRun
  BY <1>1, RunIdFacts
<1>5. \A r \in RunId : Phase[r] = "absent"
  BY <1>1, <1>4, Phases DEF PhaseFacts
<1>6. Phase = [r \in RunId |-> "absent"]
  BY <1>1, <1>5, Phases DEF PhaseFacts
<1>. QED  BY <1>3, <1>6 DEF Lifecycle!LifecycleInit

LEMMA CalmStays ==
    Spec /\ Calm => [](ShownInv /\ StatusIInv /\ Calm)
<1>1. Init /\ Calm => ShownInv /\ StatusIInv /\ Calm
  BY ShownInit, StatusInit
<1>2. (ShownInv /\ StatusIInv /\ Calm) /\ [Next]_vars => (ShownInv /\ StatusIInv /\ Calm)'
  BY ShownInductive, StatusInductive, ClientsInductive DEF ShownInv, Calm
<1>. QED  BY <1>1, <1>2, PTL DEF Spec

(* The ingestion subsystem implements the life of a run as RunLifecycle    *)
(* states it, when at most uploads overlap: whatever upload_file, the      *)
(* approval, the pipeline, a rollback or a cleanup commits, for any number *)
(* of runs, files and requests and with every failure, is one step in the  *)
(* life of one run, a purge of all, or nothing.                            *)
THEOREM SystemImplementsLifecycle == Spec /\ clients \subseteq {"uploads"} => RefinesLifecycle
<1>1. Init => Lifecycle!LifecycleInit
  BY LifeBegins
<1>2. (ShownInv /\ StatusIInv /\ Calm) /\ [Next]_vars
        => [Lifecycle!LifecycleNext]_(Lifecycle!lifecycle)
  BY StepLives DEF Lives
<1>3. Spec /\ Calm => [](ShownInv /\ StatusIInv /\ Calm)
  BY CalmStays
<1>4. Spec /\ Calm => Lifecycle!LifecycleSpec
  BY <1>1, <1>2, <1>3, PTL DEF Spec, Lifecycle!LifecycleSpec
<1>. QED  BY <1>4 DEF Calm, RefinesLifecycle

(* What RunLifecycle promises is inductive in it. *)
WholeInv == Lifecycle!LifecycleTypeOK /\ Lifecycle!WholeOrNothing

LEMMA WholeInductive ==
    WholeInv /\ [Lifecycle!LifecycleNext]_(Lifecycle!lifecycle) => WholeInv'
<1>. SUFFICES ASSUME WholeInv, Lives PROVE WholeInv'
  BY DEF Lives
<1>. USE DEF WholeInv, Lifecycle!LifecycleTypeOK, Lifecycle!WholeOrNothing, Lifecycle!Phase,
             Lifecycle!Rows
<1>1. ASSUME NEW r \in RunId,
             Lifecycle!Register(r) \/ Lifecycle!Approve(r) \/ Lifecycle!Begin(r) \/ Lifecycle!Finish(r)
      PROVE  WholeInv'
  BY <1>1 DEF Lifecycle!Register, Lifecycle!Approve, Lifecycle!Begin, Lifecycle!Finish,
              Lifecycle!Move
<1>2. ASSUME NEW r \in RunId, Lifecycle!Fail(r) \/ Lifecycle!BeginUndo(r) \/ Lifecycle!FinishUndo(r)
      PROVE  WholeInv'
  BY <1>2 DEF Lifecycle!Fail, Lifecycle!BeginUndo, Lifecycle!FinishUndo, Lifecycle!Move
<1>3. ASSUME NEW r \in RunId, Lifecycle!Ingest(r) \/ Lifecycle!EraseRows(r)
      PROVE  WholeInv'
  BY <1>3 DEF Lifecycle!Ingest, Lifecycle!EraseRows
<1>4. CASE Lifecycle!Purge
  BY <1>4 DEF Lifecycle!Purge
<1>5. CASE UNCHANGED Lifecycle!lifecycle
  BY <1>5 DEF Lifecycle!lifecycle
<1>. QED  BY <1>1, <1>2, <1>3, <1>4, <1>5 DEF Lives, Lifecycle!LifecycleNext

(* In such a system the file of a run that is complete, or partial, is in  *)
(* the fact tables as a whole, and nothing is there of a run that waits    *)
(* for its approval or for its pipeline, that was rolled back or purged.   *)
THEOREM CalmRunsAreWholeOrNothing ==
    Spec /\ clients \subseteq {"uploads"} => []Lifecycle!WholeOrNothing
<1>1. Lifecycle!LifecycleInit => WholeInv
  BY DEF Lifecycle!LifecycleInit, WholeInv, Lifecycle!LifecycleTypeOK, Lifecycle!WholeOrNothing,
         Lifecycle!Phase, Lifecycle!Rows
<1>2. WholeInv => Lifecycle!WholeOrNothing
  BY DEF WholeInv
<1>3. Spec /\ clients \subseteq {"uploads"} => Lifecycle!LifecycleSpec
  BY SystemImplementsLifecycle DEF RefinesLifecycle
<1>. QED  BY <1>1, <1>2, <1>3, WholeInductive, PTL DEF Lifecycle!LifecycleSpec
================================================================================
