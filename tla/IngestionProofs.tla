---------------------------- MODULE IngestionProofs ----------------------------
(***************************************************************************)
(* Safety of IngestionSystem for every number of runs, requests, files and *)
(* failures. First what holds for every set of overlaps: types, nothing of *)
(* a run is ingested before its approval, each transaction of its file at  *)
(* most once per approval, and who rolls a run back has left a record of   *)
(* it. Then two properties that need the clients to leave some overlap     *)
(* out: one rollback at a time, and rows that belong to a run.             *)
(***************************************************************************)
EXTENDS IngestionSystem, TLAPS, SequenceTheorems, FiniteSetTheorems, WellFoundedInduction

(* What the program counters say about identifiers: a request past its     *)
(* INSERT knows the row it inserted.                                       *)
RunsKnown ==
    \A u \in Uploads :
        uploads[u].pc \in {"set_skip", "mapping", "storing", "done"} => uploads[u].run \in RunId

IdsKnown ==
    \A b \in Undos :
        undos[b].pc \in {"recorded", "deleting", "marking", "closing", "failing"}
            => /\ undos[b].id \in 1 .. Len(rollbacks)
               /\ rollbacks[undos[b].id].run = undos[b].run

TypeInv == TypeOK /\ RunsKnown /\ IdsKnown

(* RunId and BatchId are intervals of positive numbers. *)
LEMMA RunIdFacts == RunId \subseteq Nat \ {0} /\ 1 \in RunId /\ BatchId \subseteq Nat /\ 1 \in BatchId
BY StoreAssumption DEF StoreAssumption, RunId, BatchId

(* The arbitrary rows of the initial state are of the right type. *)
LEMMA InitChoices ==
    /\ (CHOOSE c \in Carriers : TRUE) \in Carriers
    /\ (CHOOSE m \in Modes : TRUE) \in Modes
    /\ (CHOOSE f \in Files : TRUE) \in Files
BY StoreAssumption DEF StoreAssumption

THEOREM InitTypeInv == Init => TypeInv
<1> SUFFICES ASSUME Init PROVE TypeInv
  OBVIOUS
<1> USE RunIdFacts, InitChoices, StoreAssumption
<1>1. StoreTypeOK
  <2>1. rollbacks \in Seq(RollbackRow)
    BY DEF Init, StoreInit
  <2> QED
    BY <2>1 DEF Init, StoreInit, StoreTypeOK, OwnerRec, StoreAssumption, NoRows, RunStatus, SessionStatus
<1>2. ApiTypeOK
  BY DEF Init, ApiInit, ApiTypeOK, UploadRec, ApprovalRec, StoreAssumption, UploadPC, ApprovalPC
<1>3. UndoTypeOK
  BY DEF Init, UndoInit, UndoTypeOK, UndoRec, UndoPC
<1>4. CleanupTypeOK
  BY DEF Init, CleanupInit, NothingMarked, CleanupTypeOK, CleanupRec, CleanupPC, CleanupStatus, NoRows
<1>5. clients \in ClientChoices /\ RunsKnown /\ IdsKnown
  BY DEF Init, ApiInit, UndoInit, RunsKnown, IdsKnown
<1> QED
  BY <1>1, <1>2, <1>3, <1>4, <1>5 DEF TypeInv, TypeOK

-----------------------------------------------------------------------------
(* Every step keeps the type invariant: one lemma for each kind of         *)
(* request, one step for each action.                                      *)

(* An UPDATE without a condition writes what it is given. *)
LEMMA SetTypes ==
    ASSUME StoreTypeOK, NEW r \in RunId
    PROVE  /\ \A s \in RunStatus : SetStatus(r, s) => status' \in [RunId -> RunStatus \union {"none"}]
           /\ \A s \in SessionStatus :
                 SetSession(r, s) => session' \in [RunId -> SessionStatus \union {"none"}]
BY DEF StoreTypeOK, SetStatus, SetSession

LEMMA UploadTypes ==
    ASSUME TypeInv, NEW u \in Uploads, UploadStep(u) \/ UploadAbort(u),
           UNCHANGED <<undos, cleanups, clients>>
    PROVE  TypeInv'
<1> USE RunIdFacts
<1> DEFINE Kept == uploads' \in [Uploads -> UploadRec] /\ RunsKnown'
<1>1. TypeOK /\ RunsKnown /\ IdsKnown /\ uploads \in [Uploads -> UploadRec] /\ uploads[u] \in UploadRec
  BY DEF TypeInv, TypeOK, ApiTypeOK
<1>2. StoreTypeOK' /\ Kept /\ UNCHANGED <<approvals, rollbacks>> => TypeInv'
  BY <1>1 DEF TypeInv, TypeOK, ApiTypeOK, UndoTypeOK, CleanupTypeOK, IdsKnown
<1>3. CASE UploadCreateRun(u)
  <2>1. nextRun \in RunId /\ nextRun' \in 1 .. MaxRuns + 1
    BY <1>1, <1>3, StoreAssumption DEF UploadCreateRun, RunId, TypeOK, StoreTypeOK, StoreAssumption
  <2>2. Kept
    BY <1>1, <1>3, <2>1 DEF UploadCreateRun, UploadRec, UploadPC, RunsKnown
  <2>3. StoreTypeOK'
    BY <1>1, <1>3, <2>1 DEF UploadCreateRun, RunStatus, OwnerRec, UploadRec, TypeOK, StoreTypeOK
  <2> QED
    BY <1>2, <1>3, <2>2, <2>3 DEF UploadCreateRun
<1>4. CASE UploadSetSkip(u)
  <2>1. Kept
    BY <1>1, <1>4 DEF UploadSetSkip, UploadRec, UploadPC, RunsKnown
  <2>2. StoreTypeOK'
    <3>1. uploads[u].run \in RunId /\ owner \in [RunId -> OwnerRec]
      BY <1>1, <1>4 DEF UploadSetSkip, RunsKnown, TypeOK, StoreTypeOK
    <3>2. Exists(uploads[u].run) \in BOOLEAN
      BY DEF Exists
    <3>3. owner' \in [RunId -> OwnerRec]
      BY <1>4, <3>1, <3>2 DEF UploadSetSkip, OwnerRec
    <3> QED
      BY <1>1, <1>4, <3>3 DEF UploadSetSkip, TypeOK, StoreTypeOK
  <2> QED
    BY <1>2, <1>4, <2>1, <2>2 DEF UploadSetSkip
<1>5. CASE UploadMap(u)
  <2>1. Kept
    BY <1>1, <1>5 DEF UploadMap, UploadRec, UploadPC, RunsKnown
  <2>2. StoreTypeOK'
    BY <1>1, <1>5 DEF UploadMap, SessionStatus, TypeOK, StoreTypeOK
  <2> QED
    BY <1>2, <1>5, <2>1, <2>2 DEF UploadMap
<1>6. CASE UploadMapFails(u)
  <2>1. Kept
    BY <1>1, <1>6 DEF UploadMapFails, UploadRec, UploadPC, RunsKnown
  <2>2. StoreTypeOK'
    BY <1>1, <1>6, SetTypes DEF UploadMapFails, RunStatus, RunsKnown, TypeOK, StoreTypeOK
  <2> QED
    BY <1>2, <1>6, <2>1, <2>2 DEF UploadMapFails
<1>7. CASE UploadStoreBytes(u)
  <2>1. Kept
    BY <1>1, <1>7 DEF UploadStoreBytes, UploadRec, UploadPC, RunsKnown
  <2>2. StoreTypeOK'
    BY <1>1, <1>7 DEF UploadStoreBytes, UploadRec, TypeOK, StoreTypeOK
  <2> QED
    BY <1>2, <1>7, <2>1, <2>2 DEF UploadStoreBytes
<1>8. CASE UploadAbort(u)
  <2>1. Kept
    BY <1>1, <1>8 DEF UploadAbort, UploadRec, UploadPC, RunsKnown
  <2>2. StoreTypeOK'
    BY <1>1, <1>8 DEF UploadAbort, store, TypeOK, StoreTypeOK
  <2> QED
    BY <1>2, <1>8, <2>1, <2>2 DEF UploadAbort, store
<1> QED
  BY <1>3, <1>4, <1>5, <1>6, <1>7, <1>8 DEF UploadStep

LEMMA ApprovalTypes ==
    ASSUME TypeInv, NEW a \in Approvals, ApprovalStep(a) \/ PipelineError(a) \/ ApprovalAbort(a),
           UNCHANGED <<undos, cleanups, clients>>
    PROVE  TypeInv'
<1> USE RunIdFacts
<1> DEFINE Kept == approvals' \in [Approvals -> ApprovalRec]
<1>1. /\ TypeOK /\ StoreTypeOK /\ RunsKnown /\ IdsKnown
      /\ approvals \in [Approvals -> ApprovalRec] /\ approvals[a] \in ApprovalRec
      /\ approvals[a].run \in RunId
  BY DEF TypeInv, TypeOK, ApiTypeOK, ApprovalRec
<1>2. StoreTypeOK' /\ Kept /\ UNCHANGED <<uploads, rollbacks>> => TypeInv'
  BY <1>1 DEF TypeInv, TypeOK, ApiTypeOK, UndoTypeOK, CleanupTypeOK, RunsKnown, IdsKnown
<1>3. CASE ApproveCommit(a)
  <2>1. Kept
    BY <1>1, <1>3 DEF ApproveCommit, ApprovalRec, ApprovalPC
  <2>2. StoreTypeOK'
    BY <1>1, <1>3, SetTypes DEF ApproveCommit, RunStatus, SessionStatus, StoreTypeOK
  <2> QED
    BY <1>2, <1>3, <2>1, <2>2 DEF ApproveCommit
<1>4. CASE ApproveSpawn(a)
  <2>1. Kept
    BY <1>1, <1>4 DEF ApproveSpawn, ApprovalRec, ApprovalPC
  <2>2. StoreTypeOK'
    BY <1>1, <1>4 DEF ApproveSpawn, store, StoreTypeOK
  <2> QED
    BY <1>2, <1>4, <2>1, <2>2 DEF ApproveSpawn, store
<1>5. CASE PipelineLoad(a)
  <2>1. Kept
    BY <1>1, <1>5 DEF PipelineLoad, ApprovalRec, ApprovalPC, Goto
  <2>2. StoreTypeOK'
    BY <1>1, <1>5 DEF PipelineLoad, store, StoreTypeOK
  <2> QED
    BY <1>2, <1>5, <2>1, <2>2 DEF PipelineLoad, Goto, store
<1>6. CASE PipelineRead(a)
  <2>1. Kept
    BY <1>1, <1>6 DEF PipelineRead, ApprovalRec, ApprovalPC
  <2>2. StoreTypeOK'
    BY <1>1, <1>6 DEF PipelineRead, store, StoreTypeOK
  <2> QED
    BY <1>2, <1>6, <2>1, <2>2 DEF PipelineRead, store
<1>7. CASE PipelineStart(a)
  <2>1. Kept
    BY <1>1, <1>7 DEF PipelineStart, ApprovalRec, ApprovalPC
  <2>2. StoreTypeOK'
    BY <1>1, <1>7, SetTypes DEF PipelineStart, RunStatus, StoreTypeOK
  <2> QED
    BY <1>2, <1>7, <2>1, <2>2 DEF PipelineStart
<1>8. CASE PipelineUpsert(a)
  <2>1. approvals[a].file.commits \in 0 .. MaxCommits
    BY <1>1, StoreAssumption DEF StoreAssumption, FileType, NoFile, ApprovalRec
  <2>2. approvals[a].next \in 1 .. MaxCommits /\ approvals[a].next \in BatchId
    BY <1>1, <1>8, <2>1, StoreAssumption DEF PipelineUpsert, ApprovalRec, BatchId, StoreAssumption
  <2>3. Kept
    <3>1. approvals[a].next + 1 \in 1 .. MaxCommits + 1
      BY <2>2, StoreAssumption DEF StoreAssumption
    <3> QED
      BY <1>1, <1>8, <3>1 DEF PipelineUpsert, ApprovalRec
  <2>4. facts' \in [RunId -> [BatchId -> Nat]]
    <3> DEFINE r == approvals[a].run
               k == approvals[a].next
    <3> r \in RunId /\ k \in BatchId
      BY <1>1, <2>2
    <3> HIDE DEF r, k
    <3>1. facts \in [RunId -> [BatchId -> Nat]] /\ facts[r][k] + 1 \in Nat
      BY <1>1 DEF StoreTypeOK
    <3>2. [facts[r] EXCEPT ![k] = facts[r][k] + 1] \in [BatchId -> Nat]
      BY <3>1
    <3>3. facts' = [facts EXCEPT ![r] = [facts[r] EXCEPT ![k] = facts[r][k] + 1]]
      BY <1>8 DEF PipelineUpsert, r, k
    <3> QED
      BY <3>1, <3>2, <3>3
  <2>5. skipped' \in [RunId -> Nat]
    BY <1>1, <1>8 DEF PipelineUpsert, StoreTypeOK
  <2>6. StoreTypeOK'
    BY <1>1, <1>8, <2>4, <2>5 DEF PipelineUpsert, StoreTypeOK
  <2> QED
    BY <1>2, <1>8, <2>3, <2>6 DEF PipelineUpsert
<1>9. CASE PipelineBadRow(a)
  <2>1. Kept
    BY <1>1, <1>9 DEF PipelineBadRow, ApprovalRec, ApprovalPC, Goto
  <2>2. StoreTypeOK'
    BY <1>1, <1>9 DEF PipelineBadRow, store, StoreTypeOK
  <2> QED
    BY <1>2, <1>9, <2>1, <2>2 DEF PipelineBadRow, Goto, store
<1>10. CASE PipelineFinish(a)
  <2>1. Kept
    BY <1>1, <1>10 DEF PipelineFinish, ApprovalRec, ApprovalPC, Goto
  <2>2. StoreTypeOK'
    BY <1>1, <1>10, SetTypes DEF PipelineFinish, RunStatus, StoreTypeOK
  <2> QED
    BY <1>2, <1>10, <2>1, <2>2 DEF PipelineFinish, Goto
<1>11. CASE PipelineFail(a)
  <2>1. Kept
    BY <1>1, <1>11 DEF PipelineFail, ApprovalRec, ApprovalPC, Goto
  <2>2. StoreTypeOK'
    BY <1>1, <1>11, SetTypes DEF PipelineFail, RunStatus, StoreTypeOK
  <2> QED
    BY <1>2, <1>11, <2>1, <2>2 DEF PipelineFail, Goto
<1>12. CASE PipelineReport(a)
  <2>1. Kept
    BY <1>1, <1>12 DEF PipelineReport, ApprovalRec, ApprovalPC, Goto
  <2>2. StoreTypeOK'
    BY <1>1, <1>12, SetTypes DEF PipelineReport, RunStatus, StoreTypeOK
  <2> QED
    BY <1>2, <1>12, <2>1, <2>2 DEF PipelineReport, Goto
<1>13. CASE PipelineSelectPolicies(a)
  <2>1. Kept
    BY <1>1, <1>13 DEF PipelineSelectPolicies, ApprovalRec, ApprovalPC, Goto
  <2>2. StoreTypeOK'
    BY <1>1, <1>13 DEF PipelineSelectPolicies, store, StoreTypeOK
  <2> QED
    BY <1>2, <1>13, <2>1, <2>2 DEF PipelineSelectPolicies, Goto, store
<1>14. CASE PipelineCalculate(a)
  <2>1. Kept
    BY <1>1, <1>14 DEF PipelineCalculate, ApprovalRec, ApprovalPC, Goto
  <2>2. StoreTypeOK'
    BY SMTT(20), <1>1, <1>14 DEF PipelineCalculate, StoreTypeOK
  <2> QED
    BY <1>2, <1>14, <2>1, <2>2 DEF PipelineCalculate, Goto
<1>15. CASE PipelineError(a)
  <2>1. Kept
    BY <1>1, <1>15 DEF PipelineError, ApprovalRec, ApprovalPC, Goto
  <2>2. StoreTypeOK'
    BY <1>1, <1>15 DEF PipelineError, store, StoreTypeOK
  <2> QED
    BY <1>2, <1>15, <2>1, <2>2 DEF PipelineError, Goto, store
<1>16. CASE ApprovalAbort(a)
  <2>1. Kept
    BY <1>1, <1>16 DEF ApprovalAbort, ApprovalRec, ApprovalPC, Goto
  <2>2. StoreTypeOK'
    BY <1>1, <1>16 DEF ApprovalAbort, store, StoreTypeOK
  <2> QED
    BY <1>2, <1>16, <2>1, <2>2 DEF ApprovalAbort, Goto, store
<1> QED
  BY <1>3, <1>4, <1>5, <1>6, <1>7, <1>8, <1>9, <1>10, <1>11, <1>12, <1>13, <1>14, <1>15, <1>16 DEF ApprovalStep

LEMMA RequestTypes ==
    ASSUME TypeInv, ApiRequest, UNCHANGED <<undos, cleanups, clients>>
    PROVE  TypeInv'
<1> USE RunIdFacts
<1>1. TypeOK /\ StoreTypeOK /\ ApiTypeOK /\ RunsKnown /\ IdsKnown
  BY DEF TypeInv, TypeOK
<1>2. StoreTypeOK' /\ ApiTypeOK' /\ RunsKnown' /\ UNCHANGED rollbacks => TypeInv'
  BY <1>1 DEF TypeInv, TypeOK, UndoTypeOK, CleanupTypeOK, IdsKnown
<1>3. ASSUME NEW u \in Uploads, NEW c \in Carriers, NEW m \in Modes, NEW sk \in BOOLEAN,
             NEW f \in Files, UploadCheckMode(u, c, m, sk, f)
      PROVE  TypeInv'
  <2>1. ApiTypeOK' /\ RunsKnown'
    BY <1>1, <1>3 DEF UploadCheckMode, ApiTypeOK, UploadRec, UploadPC, RunsKnown
  <2>2. StoreTypeOK'
    BY <1>1, <1>3 DEF UploadCheckMode, store, StoreTypeOK
  <2> QED
    BY <1>2, <1>3, <2>1, <2>2 DEF UploadCheckMode, store
<1>4. ASSUME NEW a \in Approvals, NEW r \in RunId, ApproveCheck(a, r)
      PROVE  TypeInv'
  <2>1. ApiTypeOK' /\ RunsKnown'
    BY <1>1, <1>4 DEF ApproveCheck, ApiTypeOK, ApprovalRec, ApprovalPC, RunsKnown
  <2>2. StoreTypeOK'
    BY <1>1, <1>4 DEF ApproveCheck, store, StoreTypeOK
  <2> QED
    BY <1>2, <1>4, <2>1, <2>2 DEF ApproveCheck, store
<1>5. ASSUME NEW r \in RunId, EditProposals(r)
      PROVE  TypeInv'
  <2>1. StoreTypeOK'
    BY <1>1, <1>5 DEF EditProposals, StoreTypeOK
  <2> QED
    BY <1>1, <1>2, <1>5, <2>1 DEF EditProposals, api, ApiTypeOK, RunsKnown
<1>6. ASSUME NEW r \in RunId, Reject(r)
      PROVE  TypeInv'
  <2>1. StoreTypeOK'
    BY <1>1, <1>6, SetTypes DEF Reject, RunStatus, SessionStatus, StoreTypeOK
  <2> QED
    BY <1>1, <1>2, <1>6, <2>1 DEF Reject, api, ApiTypeOK, RunsKnown
<1> QED
  BY <1>3, <1>4, <1>5, <1>6 DEF ApiRequest

(* Closing a record keeps every row of ingestion_rollbacks in its place.   *)
ClosedBy(b, s) ==
    /\ rollbacks' \in Seq(RollbackRow)
    /\ Len(rollbacks') = Len(rollbacks)
    /\ \A i \in 1 .. Len(rollbacks) :
          /\ rollbacks'[i].run = rollbacks[i].run
          /\ rollbacks[i].status = "deleted" <=> rollbacks'[i].status = "deleted"
          /\ IF i = undos[b].id THEN rollbacks'[i].status \in {s, "deleted"}
                                ELSE rollbacks'[i] = rollbacks[i]

LEMMA ClosedRows ==
    ASSUME rollbacks \in Seq(RollbackRow), NEW b \in Undos, undos[b].id \in 1 .. Len(rollbacks),
           NEW s \in {"COMPLETE", "FAILED"}, CloseRecord(b, s)
    PROVE  ClosedBy(b, s)
<1> DEFINE i == undos[b].id
           row == [rollbacks[i] EXCEPT !.status = IF @ = "deleted" THEN "deleted" ELSE s]
<1>1. rollbacks[i] \in RollbackRow
  BY ElementOfSeq
<1>2. row \in RollbackRow /\ row.run = rollbacks[i].run
      /\ (row.status = "deleted" <=> rollbacks[i].status = "deleted")
      /\ row.status \in {s, "deleted"}
  BY <1>1 DEF RollbackRow
<1>3. rollbacks' = [rollbacks EXCEPT ![i] = row]
  BY DEF CloseRecord
<1>4. /\ rollbacks' \in Seq(RollbackRow) /\ Len(rollbacks') = Len(rollbacks)
      /\ \A j \in 1 .. Len(rollbacks) : rollbacks'[j] = IF j = i THEN row ELSE rollbacks[j]
  BY <1>2, <1>3, ExceptSeq
<1> QED
  BY <1>2, <1>4 DEF ClosedBy

LEMMA RollbackTypes ==
    ASSUME TypeInv, UndoNext, UNCHANGED <<api, cleanups, clients>>
    PROVE  TypeInv'
<1> USE RunIdFacts
<1>1. PICK b \in Undos : \/ \E r \in RunId : UndoRequest(b, r)
                         \/ UndoStep(b) \/ UndoError(b) \/ UndoAbort(b)
  BY DEF UndoNext
<1> DEFINE Kept == undos' \in [Undos -> UndoRec]
<1>2. /\ TypeOK /\ StoreTypeOK /\ RunsKnown /\ IdsKnown
      /\ undos \in [Undos -> UndoRec] /\ undos[b] \in UndoRec /\ undos[b].run \in RunId
      /\ rollbacks \in Seq(RollbackRow)
  BY DEF TypeInv, TypeOK, UndoTypeOK, UndoRec, StoreTypeOK
<1>3. StoreTypeOK' /\ Kept /\ IdsKnown' => TypeInv'
  BY <1>2 DEF TypeInv, TypeOK, ApiTypeOK, UndoTypeOK, CleanupTypeOK, RunsKnown, api
<1>4. ASSUME NEW r \in RunId, UndoRequest(b, r)
      PROVE  TypeInv'
  <2>1. Kept
    BY <1>2, <1>4 DEF UndoRequest, UndoRec, UndoPC
  <2>2. StoreTypeOK'
    BY <1>2, <1>4 DEF UndoRequest, store, StoreTypeOK
  <2>3. IdsKnown'
    BY <1>2, <1>4 DEF UndoRequest, store, UndoRec, IdsKnown
  <2> QED
    BY <1>3, <2>1, <2>2, <2>3
<1>5. CASE UndoValidate(b)
  <2>1. Kept
    BY <1>2, <1>5 DEF UndoValidate, UndoRec, UndoPC
  <2>2. StoreTypeOK'
    BY <1>2, <1>5 DEF UndoValidate, store, StoreTypeOK
  <2>3. IdsKnown'
    BY <1>2, <1>5 DEF UndoValidate, store, UndoRec, IdsKnown
  <2> QED
    BY <1>3, <2>1, <2>2, <2>3
<1>6. CASE UndoNoSchema(b)
  <2>1. Kept
    BY <1>2, <1>6 DEF UndoNoSchema, UndoRec, UndoPC
  <2>2. StoreTypeOK'
    BY <1>2, <1>6 DEF UndoNoSchema, store, StoreTypeOK
  <2>3. IdsKnown'
    BY <1>2, <1>6 DEF UndoNoSchema, store, UndoRec, IdsKnown
  <2> QED
    BY <1>3, <2>1, <2>2, <2>3
<1>7. CASE UndoMarkRun(b)
  <2>1. Kept
    BY <1>2, <1>7 DEF UndoMarkRun, UndoRec, UndoPC
  <2>2. StoreTypeOK'
    BY <1>2, <1>7, SetTypes DEF UndoMarkRun, RunStatus, StoreTypeOK
  <2>3. IdsKnown'
    BY <1>2, <1>7 DEF UndoMarkRun, UndoRec, IdsKnown
  <2> QED
    BY <1>3, <2>1, <2>2, <2>3
<1>8. CASE UndoDeleteRows(b)
  <2>1. Kept
    BY <1>2, <1>8 DEF UndoDeleteRows, UndoRec, UndoPC
  <2>2. StoreTypeOK'
    BY <1>2, <1>8 DEF UndoDeleteRows, NoRows, StoreTypeOK
  <2>3. IdsKnown'
    BY <1>2, <1>8 DEF UndoDeleteRows, UndoRec, IdsKnown
  <2> QED
    BY <1>3, <2>1, <2>2, <2>3
<1>9. CASE UndoFinishRun(b)
  <2>1. Kept
    BY <1>2, <1>9 DEF UndoFinishRun, UndoRec, UndoPC
  <2>2. StoreTypeOK'
    BY <1>2, <1>9, SetTypes DEF UndoFinishRun, RunStatus, StoreTypeOK
  <2>3. IdsKnown'
    BY <1>2, <1>9 DEF UndoFinishRun, UndoRec, IdsKnown
  <2> QED
    BY <1>3, <2>1, <2>2, <2>3
<1>10. CASE UndoError(b)
  <2>1. Kept
    BY <1>2, <1>10 DEF UndoError, UndoRec, UndoPC
  <2>2. StoreTypeOK'
    BY <1>2, <1>10 DEF UndoError, store, StoreTypeOK
  <2>3. IdsKnown'
    BY <1>2, <1>10 DEF UndoError, store, UndoRec, IdsKnown
  <2> QED
    BY <1>3, <2>1, <2>2, <2>3
<1>11. CASE UndoAbort(b)
  <2>1. Kept
    BY <1>2, <1>11 DEF UndoAbort, UndoRec, UndoPC
  <2>2. StoreTypeOK'
    BY <1>2, <1>11 DEF UndoAbort, store, StoreTypeOK
  <2>3. IdsKnown'
    BY <1>2, <1>11 DEF UndoAbort, store, UndoRec, IdsKnown
  <2> QED
    BY <1>3, <2>1, <2>2, <2>3
<1>12. CASE UndoRecord(b)
  <2> DEFINE row == [run |-> undos[b].run, status |-> "IN_PROGRESS"]
  <2>1. row \in RollbackRow
    BY <1>2 DEF RollbackRow
  <2>2. /\ rollbacks' \in Seq(RollbackRow)
        /\ Len(rollbacks') = Len(rollbacks) + 1
        /\ \A i \in 1 .. Len(rollbacks) : rollbacks'[i] = rollbacks[i]
        /\ rollbacks'[Len(rollbacks) + 1] = row
    BY <1>2, <1>12, <2>1, AppendProperties DEF UndoRecord
  <2>3. Len(rollbacks) \in Nat
    BY <1>2, LenProperties
  <2>4. Kept
    BY <1>2, <1>12, <2>3 DEF UndoRecord, UndoRec, UndoPC
  <2>5. StoreTypeOK'
    BY <1>2, <1>12, <2>2 DEF UndoRecord, StoreTypeOK
  <2>6. IdsKnown'
    BY <1>2, <1>12, <2>2, <2>3 DEF UndoRecord, UndoRec, IdsKnown
  <2> QED
    BY <1>3, <2>4, <2>5, <2>6
<1>13. CASE UndoComplete(b)
  <2>1. Kept
    BY <1>2, <1>13 DEF UndoComplete, UndoRec, UndoPC
  <2>2. ClosedBy(b, "COMPLETE")
    BY <1>2, <1>13, ClosedRows DEF UndoComplete, IdsKnown
  <2>3. StoreTypeOK'
    BY <1>2, <1>13, <2>2 DEF UndoComplete, ClosedBy, StoreTypeOK
  <2>4. IdsKnown'
    BY <1>2, <1>13, <2>2 DEF UndoComplete, ClosedBy, UndoRec, IdsKnown
  <2> QED
    BY <1>3, <2>1, <2>3, <2>4
<1>14. CASE UndoFail(b)
  <2>1. Kept
    BY <1>2, <1>14 DEF UndoFail, UndoRec, UndoPC
  <2>2. ClosedBy(b, "FAILED")
    BY <1>2, <1>14, ClosedRows DEF UndoFail, IdsKnown
  <2>3. StoreTypeOK'
    BY <1>2, <1>14, <2>2 DEF UndoFail, ClosedBy, StoreTypeOK
  <2>4. IdsKnown'
    BY <1>2, <1>14, <2>2 DEF UndoFail, ClosedBy, UndoRec, IdsKnown
  <2> QED
    BY <1>3, <2>1, <2>3, <2>4
<1> QED
  BY <1>1, <1>4, <1>5, <1>6, <1>7, <1>8, <1>9, <1>10, <1>11, <1>12, <1>13, <1>14 DEF UndoStep

(* A cleanup keeps the numbers of the rows it deletes. *)
LEMMA CleanupTypes ==
    ASSUME TypeInv, CleanupNext, UNCHANGED <<api, undos, clients>>
    PROVE  TypeInv'
<1> USE RunIdFacts
<1>1. PICK d \in Cleanups : CleanupRecord(d) \/ CleanupStep(d) \/ CleanupError(d) \/ CleanupAbort(d)
  BY DEF CleanupNext
<1>2. /\ TypeOK /\ StoreTypeOK /\ RunsKnown /\ IdsKnown
      /\ cleanups \in [Cleanups -> CleanupRec] /\ cleanups[d] \in CleanupRec
  BY DEF TypeInv, TypeOK, CleanupTypeOK
<1>3. StoreTypeOK' /\ CleanupTypeOK' /\ IdsKnown' => TypeInv'
  BY <1>2 DEF TypeInv, TypeOK, ApiTypeOK, UndoTypeOK, RunsKnown, api
<1>4. CASE CleanupRecord(d)
  <2>1. CleanupTypeOK'
    BY <1>2, <1>4 DEF CleanupRecord, CleanupTypeOK, CleanupRec, CleanupPC, CleanupStatus
  <2> QED
    BY <1>2, <1>3, <1>4, <2>1 DEF CleanupRecord, store, StoreTypeOK, IdsKnown
<1>5. CASE CleanupDeleteFacts(d)
  <2>1. CleanupTypeOK'
    BY <1>2, <1>5 DEF CleanupDeleteFacts, CleanupTypeOK, CleanupRec, CleanupPC, StoreTypeOK
  <2> QED
    BY <1>2, <1>3, <1>5, <2>1 DEF CleanupDeleteFacts, store, StoreTypeOK, IdsKnown
<1>6. CASE CleanupError(d)
  <2>1. CleanupTypeOK'
    BY <1>2, <1>6 DEF CleanupError, CleanupTypeOK, CleanupRec, CleanupPC
  <2> QED
    BY <1>2, <1>3, <1>6, <2>1 DEF CleanupError, store, StoreTypeOK, IdsKnown
<1>7. CASE CleanupFail(d)
  <2>1. CleanupTypeOK'
    BY <1>2, <1>7 DEF CleanupFail, CleanupTypeOK, CleanupRec, CleanupPC, CleanupStatus
  <2> QED
    BY <1>2, <1>3, <1>7, <2>1 DEF CleanupFail, store, StoreTypeOK, IdsKnown
<1>8. CASE CleanupAbort(d)
  <2>1. CleanupTypeOK'
    BY <1>2, <1>8 DEF CleanupAbort, CleanupTypeOK, CleanupRec, CleanupPC
  <2> QED
    BY <1>2, <1>3, <1>8, <2>1 DEF CleanupAbort, store, StoreTypeOK, IdsKnown
<1>9. CASE CleanupCommit(d)
  <2>1. CleanupTypeOK'
    BY <1>2, <1>9 DEF CleanupCommit, CleanupTypeOK, CleanupRec, CleanupPC, CleanupStatus
  <2>2. /\ rollbacks \in Seq(RollbackRow) /\ Len(rollbacks) \in Nat
        /\ DOMAIN rollbacks = 1 .. Len(rollbacks)
        /\ \A i \in 1 .. Len(rollbacks) : rollbacks[i] \in RollbackRow
    BY <1>2, LenProperties, ElementOfSeq DEF StoreTypeOK
  <2>3. /\ rollbacks' \in [1 .. Len(rollbacks) -> RollbackRow]
        /\ \A i \in 1 .. Len(rollbacks) : rollbacks'[i].run = rollbacks[i].run
    BY <1>9, <2>2 DEF CleanupCommit, RollbackRow
  <2>4. rollbacks' \in Seq(RollbackRow) /\ Len(rollbacks') = Len(rollbacks)
    BY <2>2, <2>3, SeqDef, LenProperties
  <2>5. facts' \in [RunId -> [BatchId -> Nat]] /\ derived' \in [RunId -> Nat]
    <3>1. \A n, m \in Nat : Left(n, m) \in Nat
      BY DEF Left
    <3>2. /\ facts \in [RunId -> [BatchId -> Nat]] /\ derived \in [RunId -> Nat]
          /\ cleanups[d].facts \in [RunId -> [BatchId -> Nat]]
          /\ cleanups[d].derived \in [RunId -> Nat]
      BY <1>2 DEF StoreTypeOK, CleanupRec
    <3> QED
      BY <1>9, <3>1, <3>2 DEF CleanupCommit
  <2>6. StoreTypeOK'
    BY <1>2, <1>9, <2>4, <2>5 DEF CleanupCommit, StoreTypeOK
  <2>7. IdsKnown'
    BY <1>2, <1>9, <2>2, <2>3, <2>4 DEF CleanupCommit, UndoTypeOK, UndoRec, TypeOK, IdsKnown
  <2> QED
    BY <1>3, <2>1, <2>6, <2>7
<1> QED
  BY <1>1, <1>4, <1>5, <1>6, <1>7, <1>8, <1>9 DEF CleanupStep

(* Every variable keeps its type, whatever overlaps and whatever fails: no *)
(* handler writes a status the schema does not know, and no rollback       *)
(* record is closed that was not inserted.                                 *)
LEMMA TypeInvInductive == TypeInv /\ [Next]_vars => TypeInv'
<1> SUFFICES ASSUME TypeInv, [Next]_vars
             PROVE  TypeInv'
  OBVIOUS
<1>1. CASE Next
  <2>1. Request /\ UNCHANGED clients
    BY <1>1 DEF Next
  <2>2. CASE ApiRequest /\ UNCHANGED <<undos, cleanups>>
    BY <2>1, <2>2, RequestTypes
  <2>3. CASE ApiStep /\ UNCHANGED <<undos, cleanups>>
    BY <2>1, <2>3, UploadTypes, ApprovalTypes DEF ApiStep
  <2>4. CASE UndoNext /\ UNCHANGED <<api, cleanups>>
    BY <2>1, <2>4, RollbackTypes
  <2>5. CASE CleanupNext /\ UNCHANGED <<api, undos>>
    BY <2>1, <2>5, CleanupTypes
  <2> QED
    BY <2>1, <2>2, <2>3, <2>4, <2>5 DEF Request
<1>2. CASE UNCHANGED vars
  BY <1>2 DEF TypeInv, TypeOK, StoreTypeOK, ApiTypeOK, UndoTypeOK, CleanupTypeOK, RunsKnown,
              IdsKnown, vars, store, api
<1> QED
  BY <1>1, <1>2

-----------------------------------------------------------------------------
(* The overlaps that clients does not name are absent from every state. *)
LEMMA ClientsInit == Init => Clients
<1> SUFFICES ASSUME Init PROVE Clients
  OBVIOUS
<1>1. /\ \A u \in Uploads : uploads[u].pc = "idle"
      /\ \A a \in Approvals : approvals[a].pc = "idle"
      /\ \A b \in Undos : undos[b].pc = "idle"
      /\ \A d \in Cleanups : cleanups[d].pc = "idle"
  BY DEF Init, ApiInit, UndoInit, CleanupInit, NothingMarked
<1>2. UploadsSerial /\ ApprovalsSerial /\ ApprovalAfterUpload /\ RejectBeforeApproval
  BY <1>1 DEF UploadsSerial, ApprovalsSerial, ApprovalAfterUpload, RejectBeforeApproval, UploadBusy
<1>3. UndosSerial /\ UndoAfterPipeline /\ CleanupAlone
  BY <1>1 DEF UndosSerial, UndoAfterPipeline, CleanupAlone, UndoBusy, ApprovalBusy, CleanupBusy
<1> QED
  BY <1>2, <1>3 DEF Clients

LEMMA ClientsInductive == Clients /\ [Next]_vars => Clients' /\ UNCHANGED clients
BY DEF Next, vars, store, api, Clients, UploadsSerial, ApprovalsSerial, ApprovalAfterUpload,
       RejectBeforeApproval, UndosSerial, UndoAfterPipeline, CleanupAlone

-----------------------------------------------------------------------------
THEOREM TypeCorrect == Spec => []TypeOK
<1>1. Init => TypeInv
  BY InitTypeInv
<1>2. TypeInv /\ [Next]_vars => TypeInv'
  BY TypeInvInductive
<1>3. TypeInv => TypeOK
  BY DEF TypeInv
<1> QED
  BY <1>1, <1>2, <1>3, PTL DEF Spec

-----------------------------------------------------------------------------
(* The runs to which nothing has happened beyond their upload. *)
Untouched ==
    {r \in RunId :
        /\ status[r] \in {"awaiting_mapping", "none"}
        /\ facts[r] = NoRows /\ derived[r] = 0 /\ skipped[r] = 0
        /\ \A a \in Approvals : approvals[a].pc \in ApprovalPast => approvals[a].run # r
        /\ \A b \in Undos : undos[b].pc \in UndoBusy => undos[b].run # r}

(* Those among them that never had a session a reviewer could have seen. *)
Unseen ==
    {r \in Untouched :
        /\ session[r] = "none"
        /\ \A a \in Approvals : approvals[a].pc = "checked" => approvals[a].run # r}

BeforeSession == {"set_skip", "mapping"}

PendingUntouched == \A r \in RunId : session[r] = "PENDING_REVIEW" => r \in Untouched
FutureUnseen == \A r \in RunId : r >= nextRun => r \in Unseen
MappingUnseen ==
    \A u \in Uploads : uploads[u].pc \in BeforeSession =>
        uploads[u].run < nextRun /\ uploads[u].run \in Unseen
MappingDistinct ==
    \A u, v \in Uploads :
        /\ {uploads[u].pc, uploads[v].pc} \subseteq BeforeSession
        /\ uploads[u].run = uploads[v].run
        => u = v

(* GateInv is not inductive: that UploadMap opens the gate of a run only   *)
(* once, and before anybody else reaches it, is what the other parts say.  *)
GateIInv == PendingUntouched /\ FutureUnseen /\ MappingUnseen /\ MappingDistinct

gateVars == <<status, session, facts, derived, skipped, nextRun, uploads, approvals, undos>>

LEMMA GateImplied == GateIInv => GateInv
BY DEF GateIInv, PendingUntouched, Untouched, GateInv

LEMMA GateInit == Init => GateIInv
<1> SUFFICES ASSUME Init PROVE GateIInv
  OBVIOUS
<1>1. \A r \in RunId : r \in Unseen
  BY DEF Init, StoreInit, ApiInit, UndoInit, Unseen, Untouched, ApprovalPast, UndoBusy
<1> QED
  BY <1>1 DEF Init, StoreInit, ApiInit, BeforeSession, GateIInv, PendingUntouched, FutureUnseen,
              MappingUnseen, MappingDistinct

LEMMA GateStutter == GateIInv /\ UNCHANGED gateVars => GateIInv'
BY DEF gateVars, GateIInv, PendingUntouched, FutureUnseen, MappingUnseen, MappingDistinct,
       Untouched, Unseen

(* A request that is past the gate, or that closes it, touches the rows of *)
(* one run that others have seen, and no other request.                    *)
OnlyRun(r) ==
    /\ UNCHANGED <<nextRun, uploads>>
    /\ \A q \in RunId \ {r} :
          /\ status'[q] = status[q] /\ session'[q] = session[q] /\ facts'[q] = facts[q]
          /\ derived'[q] = derived[q] /\ skipped'[q] = skipped[q]
    /\ \A a \in Approvals : approvals'[a] = approvals[a] \/ approvals'[a].run = r
    /\ \A b \in Undos : undos'[b] = undos[b] \/ undos'[b].run = r

LEMMA OnlyRunKeepsGate ==
    ASSUME TypeInv, GateIInv, NEW r \in RunId, r \notin Unseen, OnlyRun(r),
           session'[r] # "PENDING_REVIEW"
    PROVE  GateIInv'
<1>1. \A q \in RunId \ {r} : /\ q \in Untouched => q \in Untouched'
                             /\ q \in Unseen => q \in Unseen'
  BY DEF OnlyRun, Untouched, Unseen
<1>2. PendingUntouched'
  BY <1>1 DEF OnlyRun, GateIInv, PendingUntouched
<1>3. FutureUnseen'
  BY <1>1 DEF OnlyRun, GateIInv, FutureUnseen
<1>4. MappingUnseen'
  <2> SUFFICES ASSUME NEW u \in Uploads, uploads[u].pc \in BeforeSession
               PROVE  uploads[u].run < nextRun /\ uploads[u].run \in Unseen'
    BY DEF OnlyRun, MappingUnseen
  <2>1. uploads[u].run < nextRun /\ uploads[u].run \in Unseen
    BY DEF GateIInv, MappingUnseen
  <2>2. uploads[u].run \in RunId \ {r}
    BY <2>1 DEF TypeInv, RunsKnown, BeforeSession
  <2> QED
    BY <1>1, <2>1, <2>2
<1>5. MappingDistinct'
  BY DEF OnlyRun, GateIInv, MappingDistinct
<1> QED
  BY <1>2, <1>3, <1>4, <1>5 DEF GateIInv

-----------------------------------------------------------------------------
(* Uploads *)

LEMMA UploadKeepsGate ==
    ASSUME TypeInv, GateIInv, NEW u \in Uploads, UploadStep(u) \/ UploadAbort(u),
           UNCHANGED <<undos, cleanups, clients>>
    PROVE  GateIInv'
<1> USE RunIdFacts
<1>1. /\ uploads \in [Uploads -> UploadRec] /\ status \in [RunId -> RunStatus \union {"none"}]
      /\ session \in [RunId -> SessionStatus \union {"none"}]
      /\ nextRun \in Nat \ {0} /\ MaxRuns \in Nat /\ RunsKnown
  BY StoreAssumption DEF TypeInv, TypeOK, StoreTypeOK, ApiTypeOK, StoreAssumption
<1>2. CASE UploadCreateRun(u)
  <2>1. nextRun \in RunId /\ nextRun \in Unseen
    BY <1>1, <1>2 DEF UploadCreateRun, RunId, GateIInv, FutureUnseen
  <2>2. \A r \in RunId : /\ r \in Untouched => r \in Untouched'
                         /\ r \in Unseen => r \in Unseen'
    BY <1>1, <1>2, <2>1 DEF UploadCreateRun, Untouched, Unseen
  <2>3. PendingUntouched' /\ FutureUnseen'
    BY <1>1, <1>2, <2>2 DEF UploadCreateRun, GateIInv, PendingUntouched, FutureUnseen, RunId
  <2>4. MappingUnseen'
    <3> SUFFICES ASSUME NEW v \in Uploads, uploads'[v].pc \in BeforeSession
                 PROVE  uploads'[v].run < nextRun' /\ uploads'[v].run \in Unseen'
      BY DEF MappingUnseen
    <3>1. CASE v = u
      BY <1>1, <1>2, <2>1, <2>2, <3>1 DEF UploadCreateRun, UploadRec
    <3>2. CASE v # u
      <4>1. uploads[v].pc \in BeforeSession /\ uploads'[v] = uploads[v]
        BY <1>1, <1>2, <3>2 DEF UploadCreateRun
      <4>2. uploads[v].run \in RunId /\ uploads[v].run < nextRun /\ uploads[v].run \in Unseen
        BY <1>1, <4>1 DEF RunsKnown, BeforeSession, GateIInv, MappingUnseen
      <4>3. uploads[v].run < nextRun'
        BY <1>1, <1>2, <4>2 DEF UploadCreateRun
      <4> QED
        BY <2>2, <4>1, <4>2, <4>3
    <3> QED
      BY <3>1, <3>2
  <2>5. MappingDistinct'
    <3>1. \A v \in Uploads : uploads[v].pc \in BeforeSession => uploads[v].run # nextRun
      BY <1>1 DEF GateIInv, MappingUnseen
    <3>2. uploads'[u].run = nextRun /\ \A v \in Uploads \ {u} : uploads'[v] = uploads[v]
      BY <1>1, <1>2 DEF UploadCreateRun, UploadRec
    <3> QED
      BY <3>1, <3>2 DEF GateIInv, MappingDistinct
  <2> QED
    BY <2>3, <2>4, <2>5 DEF GateIInv
<1>3. CASE UploadSetSkip(u)
  <2>1. uploads[u].pc \in BeforeSession
    BY <1>3 DEF UploadSetSkip, BeforeSession
  <2>2. \A v \in Uploads : /\ uploads'[v].run = uploads[v].run
                           /\ uploads'[v].pc \in BeforeSession => uploads[v].pc \in BeforeSession
    BY <1>1, <1>3, <2>1 DEF UploadSetSkip, UploadRec
  <2>3. Untouched' = Untouched /\ Unseen' = Unseen
    BY <1>3 DEF UploadSetSkip, Untouched, Unseen
  <2> QED
    BY <1>3, <2>2, <2>3 DEF UploadSetSkip, GateIInv, PendingUntouched, FutureUnseen, MappingUnseen,
                            MappingDistinct
<1>4. CASE UploadMap(u)
  <2> DEFINE r == uploads[u].run
  <2>1. uploads[u].pc \in BeforeSession /\ r \in RunId /\ r < nextRun /\ r \in Unseen
    BY <1>1, <1>4 DEF UploadMap, BeforeSession, RunsKnown, GateIInv, MappingUnseen
  <2>2. \A q \in RunId : q \in Untouched => q \in Untouched'
    BY <1>4 DEF UploadMap, Untouched
  <2>3. \A q \in RunId \ {r} : session'[q] = session[q] /\ (q \in Unseen => q \in Unseen')
    BY <1>1, <1>4 DEF UploadMap, Untouched, Unseen
  <2>4. PendingUntouched'
    BY <2>1, <2>2, <2>3 DEF Unseen, GateIInv, PendingUntouched
  <2>5. FutureUnseen'
    BY <1>1, <1>4, <2>1, <2>3 DEF UploadMap, GateIInv, FutureUnseen
  <2>6. \A v \in Uploads : uploads'[v].pc \in BeforeSession =>
           v # u /\ uploads[v].pc \in BeforeSession /\ uploads'[v] = uploads[v]
    BY <1>1, <1>4 DEF UploadMap, UploadRec, BeforeSession
  <2>7. MappingUnseen'
    <3> SUFFICES ASSUME NEW v \in Uploads, uploads'[v].pc \in BeforeSession
                 PROVE  uploads'[v].run < nextRun' /\ uploads'[v].run \in Unseen'
      BY DEF MappingUnseen
    <3>1. v # u /\ uploads[v].pc \in BeforeSession /\ uploads'[v] = uploads[v]
      BY <2>6
    <3>2. uploads[v].run \in RunId \ {r}
      BY <1>1, <2>1, <3>1 DEF RunsKnown, BeforeSession, GateIInv, MappingDistinct
    <3>3. uploads[v].run < nextRun /\ uploads[v].run \in Unseen
      BY <3>1 DEF GateIInv, MappingUnseen
    <3> QED
      BY <1>4, <2>3, <3>1, <3>2, <3>3 DEF UploadMap
  <2>8. MappingDistinct'
    BY <2>6 DEF GateIInv, MappingDistinct
  <2> QED
    BY <2>4, <2>5, <2>7, <2>8 DEF GateIInv
<1>5. CASE UploadMapFails(u)
  <2> DEFINE r == uploads[u].run
  <2>1. r \in RunId /\ r < nextRun /\ r \in Unseen
    BY <1>1, <1>5 DEF UploadMapFails, BeforeSession, RunsKnown, GateIInv, MappingUnseen
  <2>2. \A q \in RunId \ {r} : /\ q \in Untouched => q \in Untouched'
                               /\ q \in Unseen => q \in Unseen'
    BY <1>1, <1>5 DEF UploadMapFails, SetStatus, Untouched, Unseen
  <2>3. PendingUntouched' /\ FutureUnseen'
    BY <1>1, <1>5, <2>1, <2>2 DEF UploadMapFails, Unseen, GateIInv, PendingUntouched, FutureUnseen
  <2>4. \A v \in Uploads : uploads'[v].pc \in BeforeSession =>
           v # u /\ uploads[v].pc \in BeforeSession /\ uploads'[v] = uploads[v]
    BY <1>1, <1>5 DEF UploadMapFails, UploadRec, BeforeSession
  <2>5. MappingUnseen'
    <3> SUFFICES ASSUME NEW v \in Uploads, uploads'[v].pc \in BeforeSession
                 PROVE  uploads'[v].run < nextRun' /\ uploads'[v].run \in Unseen'
      BY DEF MappingUnseen
    <3>1. v # u /\ uploads[v].pc \in BeforeSession /\ uploads'[v] = uploads[v]
      BY <2>4
    <3>2. uploads[v].run \in RunId \ {r}
      BY <1>1, <1>5, <3>1 DEF UploadMapFails, RunsKnown, BeforeSession, GateIInv, MappingDistinct
    <3>3. uploads[v].run < nextRun /\ uploads[v].run \in Unseen
      BY <3>1 DEF GateIInv, MappingUnseen
    <3> QED
      BY <1>5, <2>2, <3>1, <3>2, <3>3 DEF UploadMapFails
  <2>6. MappingDistinct'
    BY <2>4 DEF GateIInv, MappingDistinct
  <2> QED
    BY <2>3, <2>5, <2>6 DEF GateIInv
<1>6. CASE UploadStoreBytes(u) \/ UploadAbort(u)
  <2>1. UNCHANGED <<status, session, facts, derived, skipped, nextRun, approvals, undos>>
    BY <1>6 DEF UploadStoreBytes, UploadAbort, store
  <2>2. \A v \in Uploads : uploads'[v].pc \in BeforeSession => uploads'[v] = uploads[v]
    BY <1>1, <1>6 DEF UploadStoreBytes, UploadAbort, UploadRec, BeforeSession
  <2>3. Untouched' = Untouched /\ Unseen' = Unseen
    BY <2>1 DEF Untouched, Unseen
  <2> QED
    BY <2>1, <2>2, <2>3 DEF GateIInv, PendingUntouched, FutureUnseen, MappingUnseen, MappingDistinct
<1> QED
  BY <1>2, <1>3, <1>4, <1>5, <1>6 DEF UploadStep

-----------------------------------------------------------------------------
(* Approvals and their pipelines *)

LEMMA ApprovalKeepsGate ==
    ASSUME TypeInv, GateIInv, NEW a \in Approvals,
           ApprovalStep(a) \/ PipelineError(a) \/ ApprovalAbort(a),
           UNCHANGED <<undos, cleanups, clients>>
    PROVE  GateIInv'
<1> DEFINE r == approvals[a].run
<1>1. /\ approvals \in [Approvals -> ApprovalRec] /\ r \in RunId
      /\ status \in [RunId -> RunStatus \union {"none"}]
      /\ session \in [RunId -> SessionStatus \union {"none"}]
      /\ facts \in [RunId -> [BatchId -> Nat]] /\ derived \in [RunId -> Nat]
      /\ skipped \in [RunId -> Nat]
  BY DEF TypeInv, TypeOK, StoreTypeOK, ApiTypeOK, ApprovalRec
<1>2. CASE ApproveCommit(a)
  <2>1. r \notin Unseen
    BY <1>1, <1>2 DEF ApproveCommit, Unseen
  <2>2. OnlyRun(r)
    BY <1>1, <1>2 DEF ApproveCommit, SetSession, SetStatus, OnlyRun, ApprovalRec
  <2>3. session'[r] # "PENDING_REVIEW"
    BY <1>1, <1>2 DEF ApproveCommit, SetSession
  <2> QED
    BY <1>1, <2>1, <2>2, <2>3, OnlyRunKeepsGate
<1>3. CASE ApprovalAbort(a) /\ approvals[a].pc = "checked"
  <2>1. UNCHANGED <<store, uploads, undos>>
    BY <1>3 DEF ApprovalAbort
  <2>2. \A b \in Approvals : approvals'[b] = approvals[b] \/ approvals'[b].pc = "refused"
    BY <1>1, <1>3 DEF ApprovalAbort, Goto, ApprovalRec
  <2>3. /\ \A q \in RunId : q \in Untouched => q \in Untouched'
        /\ \A q \in RunId : q \in Unseen => q \in Unseen'
    BY <2>1, <2>2 DEF store, Untouched, Unseen, ApprovalPast
  <2> QED
    BY <2>1, <2>3 DEF store, TypeInv, RunsKnown, BeforeSession, GateIInv, PendingUntouched,
                      FutureUnseen, MappingUnseen, MappingDistinct
<1>4. ASSUME approvals[a].pc \in ApprovalPast, session'[r] = session[r], OnlyRun(r)
      PROVE  GateIInv'
  <2>1. r \notin Untouched /\ r \notin Unseen
    BY <1>4 DEF Untouched, Unseen
  <2>2. session'[r] # "PENDING_REVIEW"
    BY <1>1, <1>4, <2>1 DEF GateIInv, PendingUntouched
  <2> QED
    BY <1>1, <1>4, <2>1, <2>2, OnlyRunKeepsGate
<1>5. CASE ApproveSpawn(a)
  BY <1>1, <1>4, <1>5 DEF ApproveSpawn, store, OnlyRun, ApprovalPast, ApprovalPC, ApprovalRec
<1>6. CASE PipelineLoad(a)
  BY <1>1, <1>4, <1>6 DEF PipelineLoad, Goto, store, OnlyRun, ApprovalPast, ApprovalPC, ApprovalRec
<1>7. CASE PipelineRead(a)
  BY <1>1, <1>4, <1>7 DEF PipelineRead, store, OnlyRun, ApprovalPast, ApprovalPC, ApprovalRec
<1>8. CASE PipelineStart(a)
  BY <1>1, <1>4, <1>8 DEF PipelineStart, SetStatus, OnlyRun, ApprovalPast, ApprovalPC, ApprovalRec
<1>9. CASE PipelineUpsert(a)
  BY <1>1, <1>4, <1>9 DEF PipelineUpsert, OnlyRun, ApprovalPast, ApprovalPC, ApprovalRec
<1>10. CASE PipelineBadRow(a)
  BY <1>1, <1>4, <1>10 DEF PipelineBadRow, Goto, store, OnlyRun, ApprovalPast, ApprovalPC, ApprovalRec
<1>11. CASE PipelineFinish(a)
  BY <1>1, <1>4, <1>11 DEF PipelineFinish, SetStatus, Goto, OnlyRun, ApprovalPast, ApprovalPC,
                           ApprovalRec
<1>12. CASE PipelineFail(a)
  BY <1>1, <1>4, <1>12 DEF PipelineFail, SetStatus, Goto, OnlyRun, ApprovalPast, ApprovalPC,
                           ApprovalRec
<1>13. CASE PipelineReport(a)
  BY <1>1, <1>4, <1>13 DEF PipelineReport, SetStatus, Goto, OnlyRun, ApprovalPast, ApprovalPC,
                           ApprovalRec
<1>14. CASE PipelineSelectPolicies(a)
  BY <1>1, <1>4, <1>14 DEF PipelineSelectPolicies, Goto, store, OnlyRun, ApprovalPast, ApprovalPC,
                           ApprovalRec
<1>15. CASE PipelineCalculate(a)
  BY <1>1, <1>4, <1>15 DEF PipelineCalculate, Goto, OnlyRun, ApprovalPast, ApprovalPC, ApprovalRec
<1>16. CASE PipelineError(a)
  BY <1>1, <1>4, <1>16 DEF PipelineError, Goto, store, OnlyRun, ApprovalPast, ApprovalPC, ApprovalRec
<1>17. CASE ApprovalAbort(a) /\ approvals[a].pc # "checked"
  BY <1>1, <1>4, <1>17 DEF ApprovalAbort, ApprovalBusy, Goto, store, OnlyRun, ApprovalPast,
                           ApprovalPC, ApprovalRec
<1> QED
  BY <1>2, <1>3, <1>5, <1>6, <1>7, <1>8, <1>9, <1>10, <1>11, <1>12, <1>13, <1>14, <1>15, <1>16,
     <1>17 DEF ApprovalStep

LEMMA RequestKeepsGate ==
    ASSUME TypeInv, GateIInv, ApiRequest, UNCHANGED <<undos, cleanups, clients>>
    PROVE  GateIInv'
<1>1. /\ uploads \in [Uploads -> UploadRec] /\ approvals \in [Approvals -> ApprovalRec]
      /\ status \in [RunId -> RunStatus \union {"none"}]
      /\ session \in [RunId -> SessionStatus \union {"none"}]
  BY DEF TypeInv, TypeOK, StoreTypeOK, ApiTypeOK
<1>2. ASSUME NEW u \in Uploads, NEW c \in Carriers, NEW m \in Modes, NEW sk \in BOOLEAN,
             NEW f \in Files, UploadCheckMode(u, c, m, sk, f)
      PROVE  GateIInv'
  <2>1. UNCHANGED <<store, approvals, undos>>
    BY <1>2 DEF UploadCheckMode
  <2>2. \A v \in Uploads : uploads'[v].pc \in BeforeSession => uploads'[v] = uploads[v]
    BY <1>1, <1>2 DEF UploadCheckMode, UploadRec, BeforeSession
  <2>3. Untouched' = Untouched /\ Unseen' = Unseen
    BY <2>1 DEF store, Untouched, Unseen
  <2> QED
    BY <2>1, <2>2, <2>3 DEF store, GateIInv, PendingUntouched, FutureUnseen, MappingUnseen,
                            MappingDistinct
<1>3. ASSUME NEW a \in Approvals, NEW r \in RunId, ApproveCheck(a, r)
      PROVE  GateIInv'
  <2>1. UNCHANGED <<store, uploads, undos>> /\ r \notin Unseen
    BY <1>3 DEF ApproveCheck, Unseen
  <2>2. \A b \in Approvals : \/ approvals'[b] = approvals[b]
                             \/ approvals'[b].run = r /\ approvals'[b].pc \in {"checked", "refused"}
    BY <1>1, <1>3 DEF ApproveCheck, ApprovalRec
  <2>3. /\ \A q \in RunId : q \in Untouched => q \in Untouched'
        /\ \A q \in RunId : q \in Unseen => q \in Unseen'
    BY <2>1, <2>2 DEF store, Untouched, Unseen, ApprovalPast
  <2> QED
    BY <2>1, <2>3 DEF store, TypeInv, RunsKnown, BeforeSession, GateIInv, PendingUntouched,
                      FutureUnseen, MappingUnseen, MappingDistinct
<1>4. ASSUME NEW r \in RunId, EditProposals(r)
      PROVE  GateIInv'
  BY <1>4, GateStutter DEF EditProposals, api, gateVars
<1>5. ASSUME NEW r \in RunId, Reject(r)
      PROVE  GateIInv'
  <2>1. r \notin Unseen /\ session'[r] # "PENDING_REVIEW"
    BY <1>1, <1>5 DEF Reject, SetSession, Unseen
  <2>2. OnlyRun(r)
    BY <1>1, <1>5 DEF Reject, SetSession, SetStatus, api, OnlyRun
  <2> QED
    BY <2>1, <2>2, OnlyRunKeepsGate
<1> QED
  BY <1>2, <1>3, <1>4, <1>5 DEF ApiRequest

-----------------------------------------------------------------------------
(* Rollbacks and cleanups *)

LEMMA RollbackKeepsGate ==
    ASSUME TypeInv, GateIInv, UndoNext, UNCHANGED <<api, cleanups, clients>>
    PROVE  GateIInv'
<1>1. PICK b \in Undos : (\E r \in RunId : UndoRequest(b, r)) \/ UndoStep(b) \/ UndoError(b)
                           \/ UndoAbort(b)
  BY DEF UndoNext
<1>2. /\ undos \in [Undos -> UndoRec] /\ undos[b].run \in RunId
      /\ status \in [RunId -> RunStatus \union {"none"}]
      /\ session \in [RunId -> SessionStatus \union {"none"}]
      /\ facts \in [RunId -> [BatchId -> Nat]] /\ derived \in [RunId -> Nat]
  BY DEF TypeInv, TypeOK, StoreTypeOK, UndoTypeOK, UndoRec
<1>3. ASSUME NEW r \in RunId, UndoRequest(b, r)
      PROVE  GateIInv'
  <2>1. UNCHANGED <<store, uploads, approvals>>
    BY <1>3 DEF UndoRequest, api
  <2>2. \A c \in Undos : \/ undos'[c] = undos[c] \/ undos'[c].pc = "refused"
                         \/ undos'[c].run = r /\ status[r] \in {"complete", "partial"}
    BY <1>2, <1>3 DEF UndoRequest, UndoRec
  <2>3. /\ \A q \in RunId : q \in Untouched => q \in Untouched'
        /\ \A q \in RunId : q \in Unseen => q \in Unseen'
    BY <2>1, <2>2 DEF store, Untouched, Unseen, UndoBusy
  <2> QED
    BY <2>1, <2>3 DEF store, TypeInv, RunsKnown, BeforeSession, GateIInv, PendingUntouched,
                      FutureUnseen, MappingUnseen, MappingDistinct
<1>4. ASSUME undos[b].pc \in UndoBusy, OnlyRun(undos[b].run), UNCHANGED session
      PROVE  GateIInv'
  <2>1. undos[b].run \notin Untouched /\ undos[b].run \notin Unseen
    BY <1>4 DEF Untouched, Unseen
  <2>2. session'[undos[b].run] # "PENDING_REVIEW"
    BY <1>2, <1>4, <2>1 DEF GateIInv, PendingUntouched
  <2> QED
    BY <1>2, <1>4, <2>1, <2>2, OnlyRunKeepsGate
<1>5. CASE UndoValidate(b)
  BY <1>2, <1>4, <1>5 DEF UndoValidate, store, api, OnlyRun, UndoBusy, UndoPC, UndoRec
<1>6. CASE UndoNoSchema(b)
  BY <1>2, <1>4, <1>6 DEF UndoNoSchema, store, api, OnlyRun, UndoBusy, UndoPC, UndoRec
<1>7. CASE UndoRecord(b)
  BY <1>2, <1>4, <1>7 DEF UndoRecord, api, OnlyRun, UndoBusy, UndoPC, UndoRec
<1>8. CASE UndoMarkRun(b)
  BY <1>2, <1>4, <1>8 DEF UndoMarkRun, SetStatus, api, OnlyRun, UndoBusy, UndoPC, UndoRec
<1>9. CASE UndoDeleteRows(b)
  BY <1>2, <1>4, <1>9 DEF UndoDeleteRows, api, OnlyRun, UndoBusy, UndoPC, UndoRec
<1>10. CASE UndoFinishRun(b)
  BY <1>2, <1>4, <1>10 DEF UndoFinishRun, SetStatus, api, OnlyRun, UndoBusy, UndoPC, UndoRec
<1>11. CASE UndoComplete(b)
  BY <1>2, <1>4, <1>11 DEF UndoComplete, api, OnlyRun, UndoBusy, UndoPC, UndoRec
<1>12. CASE UndoFail(b)
  BY <1>2, <1>4, <1>12 DEF UndoFail, api, OnlyRun, UndoBusy, UndoPC, UndoRec
<1>13. CASE UndoError(b)
  BY <1>2, <1>4, <1>13 DEF UndoError, store, api, OnlyRun, UndoBusy, UndoPC, UndoRec
<1>14. CASE UndoAbort(b)
  BY <1>2, <1>4, <1>14 DEF UndoAbort, store, api, OnlyRun, UndoBusy, UndoPC, UndoRec
<1> QED
  BY <1>1, <1>3, <1>5, <1>6, <1>7, <1>8, <1>9, <1>10, <1>11, <1>12, <1>13, <1>14 DEF UndoStep

(* A cleanup leaves no session to review, and of no rows no rows. *)
LEMMA CleanupKeepsGate ==
    ASSUME TypeInv, GateIInv, CleanupNext, UNCHANGED <<api, undos, clients>>
    PROVE  GateIInv'
<1>1. PICK d \in Cleanups : CleanupRecord(d) \/ CleanupStep(d) \/ CleanupError(d) \/ CleanupAbort(d)
  BY DEF CleanupNext
<1>2. CASE CleanupCommit(d)
  <2>1. /\ cleanups[d].facts \in [RunId -> [BatchId -> Nat]]
        /\ cleanups[d].derived \in [RunId -> Nat]
    BY DEF TypeInv, TypeOK, CleanupTypeOK, CleanupRec
  <2>2. \A n \in Nat : Left(0, n) = 0
    BY DEF Left
  <2>3. \A r \in RunId : facts[r] = NoRows /\ derived[r] = 0 => facts'[r] = NoRows /\ derived'[r] = 0
    BY <1>2, <2>1, <2>2 DEF CleanupCommit, NoRows
  <2>4. /\ \A r \in RunId : r \in Untouched => r \in Untouched'
        /\ \A r \in RunId : r \in Unseen => r \in Unseen'
    BY <1>2, <2>3 DEF CleanupCommit, api, Untouched, Unseen
  <2> QED
    BY <1>2, <2>4 DEF CleanupCommit, api, TypeInv, RunsKnown, BeforeSession, GateIInv,
                      PendingUntouched, FutureUnseen, MappingUnseen, MappingDistinct
<1>3. CASE UNCHANGED store
  BY <1>3, GateStutter DEF store, api, gateVars
<1> QED
  BY <1>1, <1>2, <1>3 DEF CleanupRecord, CleanupStep, CleanupDeleteFacts, CleanupError, CleanupFail,
                          CleanupAbort

LEMMA GateInductive == TypeInv /\ GateIInv /\ [Next]_vars => GateIInv'
<1> SUFFICES ASSUME TypeInv, GateIInv, [Next]_vars
             PROVE  GateIInv'
  OBVIOUS
<1>1. CASE Next
  <2>1. Request /\ UNCHANGED clients
    BY <1>1 DEF Next
  <2>2. CASE ApiRequest /\ UNCHANGED <<undos, cleanups>>
    BY <2>1, <2>2, RequestKeepsGate
  <2>3. CASE ApiStep /\ UNCHANGED <<undos, cleanups>>
    BY <2>1, <2>3, UploadKeepsGate, ApprovalKeepsGate DEF ApiStep
  <2>4. CASE UndoNext /\ UNCHANGED <<api, cleanups>>
    BY <2>1, <2>4, RollbackKeepsGate
  <2>5. CASE CleanupNext /\ UNCHANGED <<api, undos>>
    BY <2>1, <2>5, CleanupKeepsGate
  <2> QED
    BY <2>1, <2>2, <2>3, <2>4, <2>5 DEF Request
<1>2. CASE UNCHANGED vars
  BY <1>2, GateStutter DEF vars, store, api, gateVars
<1> QED
  BY <1>1, <1>2

(* While a session is pending review nothing of its run has been ingested  *)
(* and no pipeline of it has begun: approve_mapping is the only way past   *)
(* the gate, for any number of requests in any order.                      *)
THEOREM GateHolds == Spec => []GateInv
<1>1. Init => TypeInv /\ GateIInv
  BY InitTypeInv, GateInit
<1>2. TypeInv /\ GateIInv /\ [Next]_vars => (TypeInv /\ GateIInv)'
  BY TypeInvInductive, GateInductive
<1>3. GateIInv => GateInv
  BY GateImplied
<1> QED
  BY <1>1, <1>2, <1>3, PTL DEF Spec

-----------------------------------------------------------------------------
(* Rows enter the fact tables only through committed approvals.            *)

(* RowsComeFromApprovals is not inductive: that a pipeline starts at the   *)
(* first transaction, and starts once, is what this part says.             *)
PipelineFresh ==
    \A a \in Approvals :
        approvals[a].pc \in {"idle", "checked", "saving", "loading", "reading", "starting"}
            => approvals[a].next = 1

RowsIInv == PipelineFresh /\ RowsComeFromApprovals

LEMMA RowsInit == Init => RowsIInv
<1> SUFFICES ASSUME Init PROVE RowsIInv
  OBVIOUS
<1>1. \A r \in RunId, k \in BatchId : facts[r][k] = 0
  BY DEF Init, StoreInit, NoRows
<1>2. IsFiniteSet(Approvals)
  BY ApiAssumption DEF ApiAssumption
<1>3. \A S \in SUBSET Approvals : Cardinality(S) \in Nat
  BY <1>2, FS_Subset, FS_CardinalityType
<1>4. RowsComeFromApprovals
  <2> SUFFICES ASSUME NEW r \in RunId, NEW k \in BatchId
               PROVE  facts[r][k] <= Cardinality({a \in Approvals : /\ approvals[a].pc \in ApprovalPast
                                                                    /\ approvals[a].run = r
                                                                    /\ approvals[a].next > k})
    BY DEF RowsComeFromApprovals
  <2> DEFINE S == {a \in Approvals : /\ approvals[a].pc \in ApprovalPast
                                     /\ approvals[a].run = r
                                     /\ approvals[a].next > k}
  <2>1. S \in SUBSET Approvals
    OBVIOUS
  <2>2. Cardinality(S) \in Nat
    BY <1>3, <2>1
  <2> QED
    BY <1>1, <2>2
<1> QED
  BY <1>4 DEF Init, ApiInit, PipelineFresh, RowsIInv

(* Fewer rows and more, or further, approvals. *)
LEMMA RowsOnlyLeave ==
    ASSUME TypeInv, TypeInv', RowsComeFromApprovals,
           \A r \in RunId, k \in BatchId : facts'[r][k] <= facts[r][k],
           \A a \in Approvals : approvals[a].pc \in ApprovalPast =>
               /\ approvals'[a].pc \in ApprovalPast
               /\ approvals'[a].run = approvals[a].run
               /\ approvals'[a].next >= approvals[a].next
    PROVE  RowsComeFromApprovals'
<1> SUFFICES ASSUME NEW r \in RunId, NEW k \in BatchId
             PROVE  facts'[r][k] <= Cardinality({a \in Approvals : /\ approvals'[a].pc \in ApprovalPast
                                                                   /\ approvals'[a].run = r
                                                                   /\ approvals'[a].next > k})
  BY DEF RowsComeFromApprovals
<1> DEFINE S == {a \in Approvals : /\ approvals[a].pc \in ApprovalPast
                                   /\ approvals[a].run = r
                                   /\ approvals[a].next > k}
           T == {a \in Approvals : /\ approvals'[a].pc \in ApprovalPast
                                   /\ approvals'[a].run = r
                                   /\ approvals'[a].next > k}
<1>1. \A a \in Approvals : approvals[a].next \in Nat /\ approvals'[a].next \in Nat
  BY StoreAssumption DEF StoreAssumption, TypeInv, TypeOK, ApiTypeOK, ApprovalRec
<1>2. k \in Nat
  BY RunIdFacts
<1>3. S \subseteq T
  BY <1>1, <1>2
<1>4. IsFiniteSet(T)
  BY FS_Subset, ApiAssumption DEF ApiAssumption
<1>5. Cardinality(S) <= Cardinality(T) /\ Cardinality(S) \in Nat /\ Cardinality(T) \in Nat
  BY <1>3, <1>4, FS_Subset, FS_CardinalityType
<1>6. facts[r][k] \in Nat /\ facts'[r][k] \in Nat
  BY DEF TypeInv, TypeOK, StoreTypeOK
<1>7. facts[r][k] <= Cardinality(S)
  BY DEF RowsComeFromApprovals
<1>8. facts'[r][k] <= facts[r][k]
  OBVIOUS
<1>9. facts'[r][k] <= Cardinality(T)
  <2> HIDE DEF S, T
  <2> QED
    BY <1>5, <1>6, <1>7, <1>8
<1> QED
  BY <1>9

(* One more row, and one more approval that accounts for it. *)
LEMMA UpsertIsAccounted ==
    ASSUME TypeInv, TypeInv', RowsComeFromApprovals, NEW a \in Approvals, PipelineUpsert(a)
    PROVE  RowsComeFromApprovals'
<1> DEFINE q == approvals[a].run
           m == approvals[a].next
<1>1. /\ approvals \in [Approvals -> ApprovalRec] /\ facts \in [RunId -> [BatchId -> Nat]]
      /\ q \in RunId /\ m \in Nat
  BY SMTT(20), StoreAssumption DEF StoreAssumption, TypeInv, TypeOK, ApiTypeOK, StoreTypeOK, ApprovalRec
<1>2. /\ approvals[a].pc = "upserting" /\ "upserting" \in ApprovalPast
      /\ facts' = [facts EXCEPT ![q][m] = @ + 1]
      /\ approvals' = [approvals EXCEPT ![a].next = m + 1]
  BY DEF PipelineUpsert, ApprovalPast, ApprovalPC
<1>3. /\ approvals'[a].pc = "upserting" /\ approvals'[a].run = q /\ approvals'[a].next = m + 1
      /\ \A b \in Approvals \ {a} : approvals'[b] = approvals[b]
  BY <1>1, <1>2 DEF ApprovalRec
<1> SUFFICES ASSUME NEW r \in RunId, NEW k \in BatchId
             PROVE  facts'[r][k] <= Cardinality({b \in Approvals : /\ approvals'[b].pc \in ApprovalPast
                                                                   /\ approvals'[b].run = r
                                                                   /\ approvals'[b].next > k})
  BY DEF RowsComeFromApprovals
<1> DEFINE S == {b \in Approvals : /\ approvals[b].pc \in ApprovalPast
                                   /\ approvals[b].run = r
                                   /\ approvals[b].next > k}
           T == {b \in Approvals : /\ approvals'[b].pc \in ApprovalPast
                                   /\ approvals'[b].run = r
                                   /\ approvals'[b].next > k}
<1>4. k \in Nat /\ facts[r][k] \in Nat
  BY <1>1, RunIdFacts
<1>5. IsFiniteSet(S) /\ IsFiniteSet(T) /\ Cardinality(S) \in Nat /\ Cardinality(T) \in Nat
  BY FS_Subset, FS_CardinalityType, ApiAssumption DEF ApiAssumption
<1>6. facts[r][k] <= Cardinality(S)
  BY DEF RowsComeFromApprovals
<1>7. CASE r = q /\ k = m
  <2>1. a \notin S /\ T = S \union {a}
    BY <1>1, <1>2, <1>3, <1>7
  <2>2. Cardinality(T) = Cardinality(S) + 1
    <3> HIDE DEF S, T
    <3> QED
      BY <1>5, <2>1, FS_AddElement
  <2>3. facts'[r][k] = facts[r][k] + 1
    BY <1>1, <1>2, <1>7
  <2>4. facts'[r][k] <= Cardinality(T)
    <3> HIDE DEF S, T
    <3> QED
      BY <1>4, <1>5, <1>6, <2>2, <2>3
  <2> QED
    BY <2>4
<1>8. CASE ~(r = q /\ k = m)
  <2>1. S \subseteq T
    BY <1>1, <1>2, <1>3, <1>4
  <2>2. Cardinality(S) <= Cardinality(T)
    BY <1>5, <2>1, FS_Subset
  <2>3. facts'[r][k] = facts[r][k]
    BY <1>1, <1>2, <1>8
  <2>4. facts'[r][k] <= Cardinality(T)
    <3> HIDE DEF S, T
    <3> QED
      BY <1>4, <1>5, <1>6, <2>2, <2>3
  <2> QED
    BY <2>4
<1> QED
  BY <1>7, <1>8

(* Steps that leave the fact tables and the approvals alone. *)
LEMMA RowsStutter ==
    ASSUME TypeInv, TypeInv', RowsIInv, UNCHANGED <<facts, approvals>>
    PROVE  RowsIInv'
<1>1. \A r \in RunId, k \in BatchId : facts[r][k] \in Nat
  BY DEF TypeInv, TypeOK, StoreTypeOK
<1>2. \A a \in Approvals : approvals[a].next \in Nat
  BY StoreAssumption DEF StoreAssumption, TypeInv, TypeOK, ApiTypeOK, ApprovalRec
<1>3. RowsComeFromApprovals'
  BY <1>1, <1>2, RowsOnlyLeave DEF RowsIInv
<1> QED
  BY <1>3 DEF RowsIInv, PipelineFresh

LEMMA ApprovalKeepsRows ==
    ASSUME TypeInv, TypeInv', RowsIInv, NEW a \in Approvals,
           ApprovalStep(a) \/ PipelineError(a) \/ ApprovalAbort(a)
    PROVE  RowsIInv'
<1>1. /\ approvals \in [Approvals -> ApprovalRec]
      /\ \A b \in Approvals : approvals[b].next \in Nat
      /\ \A r \in RunId, k \in BatchId : facts[r][k] \in Nat
  BY StoreAssumption DEF StoreAssumption, TypeInv, TypeOK, ApiTypeOK, StoreTypeOK, ApprovalRec
<1>2. CASE PipelineUpsert(a)
  <2>1. PipelineFresh'
    BY <1>1, <1>2 DEF PipelineUpsert, ApprovalRec, RowsIInv, PipelineFresh
  <2> QED
    BY <1>2, <2>1, UpsertIsAccounted DEF RowsIInv
<1>3. ASSUME UNCHANGED facts,
             approvals' = [approvals EXCEPT ![a] = approvals'[a]],
             approvals'[a].run = approvals[a].run, approvals'[a].next = approvals[a].next,
             approvals[a].pc \in ApprovalPast => approvals'[a].pc \in ApprovalPast,
             approvals'[a].pc \in {"saving", "loading", "reading", "starting"} =>
                approvals[a].pc \in {"checked", "saving", "loading", "reading"},
             approvals'[a].pc \notin {"idle", "checked"}
      PROVE  RowsIInv'
  <2>1. \A b \in Approvals \ {a} : approvals'[b] = approvals[b]
    BY <1>1, <1>3
  <2>2. RowsComeFromApprovals'
    BY <1>1, <1>3, <2>1, RowsOnlyLeave DEF RowsIInv
  <2>3. PipelineFresh'
    BY <1>1, <1>3, <2>1 DEF RowsIInv, PipelineFresh
  <2> QED
    BY <2>2, <2>3 DEF RowsIInv
<1> USE DEF ApprovalRec, ApprovalPast, ApprovalPC
<1>4. CASE ApproveCommit(a)
  BY <1>1, <1>3, <1>4 DEF ApproveCommit
<1>5. CASE ApproveSpawn(a)
  BY <1>1, <1>3, <1>5 DEF ApproveSpawn, store
<1>6. CASE PipelineLoad(a)
  BY <1>1, <1>3, <1>6 DEF PipelineLoad, Goto, store
<1>7. CASE PipelineRead(a)
  BY <1>1, <1>3, <1>7 DEF PipelineRead, store
<1>8. CASE PipelineStart(a)
  <2>1. approvals[a].next = 1
    BY <1>8 DEF PipelineStart, RowsIInv, PipelineFresh
  <2> QED
    BY <1>1, <1>3, <1>8, <2>1 DEF PipelineStart
<1>9. CASE PipelineBadRow(a)
  BY <1>1, <1>3, <1>9 DEF PipelineBadRow, Goto, store
<1>10. CASE PipelineFinish(a)
  BY <1>1, <1>3, <1>10 DEF PipelineFinish, Goto
<1>11. CASE PipelineFail(a) \/ PipelineReport(a)
  BY <1>1, <1>3, <1>11 DEF PipelineFail, PipelineReport, Goto
<1>12. CASE PipelineSelectPolicies(a)
  BY <1>1, <1>3, <1>12 DEF PipelineSelectPolicies, Goto, store
<1>13. CASE PipelineCalculate(a)
  BY <1>1, <1>3, <1>13 DEF PipelineCalculate, Goto
<1>14. CASE PipelineError(a)
  BY <1>1, <1>3, <1>14 DEF PipelineError, Goto, store
<1>15. CASE ApprovalAbort(a)
  BY <1>1, <1>3, <1>15 DEF ApprovalAbort, ApprovalBusy, Goto, store
<1> QED
  BY <1>2, <1>4, <1>5, <1>6, <1>7, <1>8, <1>9, <1>10, <1>11, <1>12, <1>13, <1>14, <1>15
     DEF ApprovalStep

LEMMA RequestKeepsRows ==
    ASSUME TypeInv, TypeInv', RowsIInv, ApiRequest
    PROVE  RowsIInv'
<1>1. /\ approvals \in [Approvals -> ApprovalRec]
      /\ \A b \in Approvals : approvals[b].next \in Nat
      /\ \A r \in RunId, k \in BatchId : facts[r][k] \in Nat
  BY StoreAssumption DEF StoreAssumption, TypeInv, TypeOK, ApiTypeOK, StoreTypeOK, ApprovalRec
<1>2. CASE UNCHANGED <<facts, approvals>>
  BY <1>2, RowsStutter
<1>3. ASSUME NEW a \in Approvals, NEW r \in RunId, ApproveCheck(a, r)
      PROVE  RowsIInv'
  <2>1. /\ UNCHANGED facts /\ approvals[a].pc = "idle" /\ approvals'[a].next = approvals[a].next
        /\ \A b \in Approvals \ {a} : approvals'[b] = approvals[b]
    BY <1>1, <1>3 DEF ApproveCheck, store, ApprovalRec
  <2>2. RowsComeFromApprovals'
    BY <1>1, <2>1, RowsOnlyLeave DEF RowsIInv, ApprovalPast
  <2>3. PipelineFresh'
    BY <2>1 DEF RowsIInv, PipelineFresh
  <2> QED
    BY <2>2, <2>3 DEF RowsIInv
<1> QED
  BY <1>2, <1>3 DEF ApiRequest, UploadCheckMode, EditProposals, Reject, store, api

LEMMA UndoKeepsRows ==
    ASSUME TypeInv, TypeInv', RowsIInv, UndoNext, UNCHANGED approvals
    PROVE  RowsIInv'
<1>1. PICK b \in Undos : (\E r \in RunId : UndoRequest(b, r)) \/ UndoStep(b) \/ UndoError(b)
                           \/ UndoAbort(b)
  BY DEF UndoNext
<1>2. CASE UndoDeleteRows(b)
  <2>1. /\ facts \in [RunId -> [BatchId -> Nat]]
        /\ \A a \in Approvals : approvals[a].next \in Nat
    BY StoreAssumption DEF StoreAssumption, TypeInv, TypeOK, ApiTypeOK, StoreTypeOK, ApprovalRec
  <2>2. \A r \in RunId, k \in BatchId : facts'[r][k] <= facts[r][k]
    BY <1>2, <2>1 DEF UndoDeleteRows, NoRows
  <2>3. RowsComeFromApprovals'
    BY <2>1, <2>2, RowsOnlyLeave DEF RowsIInv
  <2> QED
    BY <2>3 DEF RowsIInv, PipelineFresh
<1>3. CASE UNCHANGED facts
  BY <1>3, RowsStutter
<1> QED
  BY <1>1, <1>2, <1>3
  DEF UndoStep, UndoRequest, UndoValidate, UndoNoSchema, UndoRecord, UndoMarkRun, UndoFinishRun,
      UndoComplete, UndoFail, UndoError, UndoAbort, store

LEMMA CleanupKeepsRows ==
    ASSUME TypeInv, TypeInv', RowsIInv, CleanupNext, UNCHANGED approvals
    PROVE  RowsIInv'
<1>1. PICK d \in Cleanups : CleanupRecord(d) \/ CleanupStep(d) \/ CleanupError(d) \/ CleanupAbort(d)
  BY DEF CleanupNext
<1>2. CASE CleanupCommit(d)
  <2>1. /\ facts \in [RunId -> [BatchId -> Nat]]
        /\ cleanups[d].facts \in [RunId -> [BatchId -> Nat]]
        /\ \A a \in Approvals : approvals[a].next \in Nat
    BY StoreAssumption DEF StoreAssumption, TypeInv, TypeOK, ApiTypeOK, StoreTypeOK, ApprovalRec,
                           CleanupTypeOK, CleanupRec
  <2>2. \A n, m \in Nat : Left(n, m) <= n
    BY DEF Left
  <2>3. \A r \in RunId, k \in BatchId : facts'[r][k] <= facts[r][k]
    BY <1>2, <2>1, <2>2 DEF CleanupCommit
  <2>4. RowsComeFromApprovals'
    BY <2>1, <2>3, RowsOnlyLeave DEF RowsIInv
  <2> QED
    BY <2>4 DEF RowsIInv, PipelineFresh
<1>3. CASE UNCHANGED facts
  BY <1>3, RowsStutter
<1> QED
  BY <1>1, <1>2, <1>3 DEF CleanupRecord, CleanupStep, CleanupDeleteFacts, CleanupError, CleanupFail,
                          CleanupAbort, store

LEMMA RowsInductive == TypeInv /\ TypeInv' /\ RowsIInv /\ [Next]_vars => RowsIInv'
<1> SUFFICES ASSUME TypeInv, TypeInv', RowsIInv, [Next]_vars
             PROVE  RowsIInv'
  OBVIOUS
<1>1. CASE ApiRequest
  BY <1>1, RequestKeepsRows
<1>2. ASSUME NEW u \in Uploads, UploadStep(u) \/ UploadAbort(u)
      PROVE  RowsIInv'
  BY <1>2, RowsStutter DEF UploadStep, UploadCreateRun, UploadSetSkip, UploadMap, UploadMapFails,
                           UploadStoreBytes, UploadAbort, store
<1>3. ASSUME NEW a \in Approvals, ApprovalStep(a) \/ PipelineError(a) \/ ApprovalAbort(a)
      PROVE  RowsIInv'
  BY <1>3, ApprovalKeepsRows
<1>4. CASE UndoNext /\ UNCHANGED api
  BY <1>4, UndoKeepsRows DEF api
<1>5. CASE CleanupNext /\ UNCHANGED api
  BY <1>5, CleanupKeepsRows DEF api
<1>6. CASE UNCHANGED vars
  BY <1>6, RowsStutter DEF vars, store, api
<1> QED
  BY <1>1, <1>2, <1>3, <1>4, <1>5, <1>6 DEF Next, Request, ApiStep

(* No transaction of a file is ingested more often than its run was        *)
(* approved, whatever was retried, rolled back or cleaned up: the fact     *)
(* tables hold nothing that no approval accounts for.                      *)
THEOREM RowsAreAccounted == Spec => []RowsComeFromApprovals
<1>1. Init => TypeInv /\ RowsIInv
  BY InitTypeInv, RowsInit
<1>2. TypeInv /\ RowsIInv /\ [Next]_vars => (TypeInv /\ RowsIInv)'
  BY TypeInvInductive, RowsInductive
<1>3. RowsIInv => RowsComeFromApprovals
  BY DEF RowsIInv
<1> QED
  BY <1>1, <1>2, <1>3, PTL DEF Spec

-----------------------------------------------------------------------------
(* The records of rollbacks.                                               *)

Undone == {"rolling_back", "rolled_back"}

Inserted == {"recorded", "deleting", "marking", "closing", "failing"}

(* RollbackIsRecorded is not inductive: that the record of a rollback in   *)
(* progress is there as long as its run is, and that a run deleted by a    *)
(* cleanup never comes back, is what the other parts say.                  *)
RecordKept ==
    \A b \in Undos :
        undos[b].pc \in Inserted /\ status[undos[b].run] # "none"
            => rollbacks[undos[b].id].status # "deleted"

FutureAbsent == \A r \in RunId : r >= nextRun => status[r] = "none"

UndoRunIsPast == \A b \in Undos : undos[b].pc \in UndoBusy => undos[b].run < nextRun

RollbackIInv == RollbackIsRecorded /\ RecordKept /\ FutureAbsent /\ UndoRunIsPast

LEMMA RollbackInit == Init => RollbackIInv
BY DEF Init, StoreInit, UndoInit, RollbackIInv, RollbackIsRecorded, RecordKept, FutureAbsent,
       UndoRunIsPast, Inserted, UndoBusy

(* A step that neither creates a run nor works on a rollback. *)
LEMMA OtherStepsKeepRecords ==
    ASSUME RollbackIInv, UNCHANGED <<rollbacks, undos, nextRun>>,
           \A r \in RunId : status'[r] \in Undone => status[r] \in Undone,
           \A r \in RunId : status'[r] # "none" => status[r] # "none",
           \A b \in Undos : undos[b].run \in RunId
    PROVE  RollbackIInv'
<1>1. RollbackIsRecorded'
  BY DEF RollbackIInv, RollbackIsRecorded, Undone
<1>2. RecordKept' /\ FutureAbsent' /\ UndoRunIsPast'
  BY DEF RollbackIInv, RecordKept, FutureAbsent, UndoRunIsPast
<1> QED
  BY <1>1, <1>2 DEF RollbackIInv

LEMMA UploadKeepsRecords ==
    ASSUME TypeInv, RollbackIInv, NEW u \in Uploads, UploadStep(u) \/ UploadAbort(u),
           UNCHANGED <<undos, cleanups, clients>>
    PROVE  RollbackIInv'
<1>1. /\ status \in [RunId -> RunStatus \union {"none"}]
      /\ nextRun \in 1 .. MaxRuns + 1 /\ MaxRuns \in Nat
      /\ \A b \in Undos : undos[b].run \in RunId
  BY StoreAssumption DEF StoreAssumption, TypeInv, TypeOK, StoreTypeOK, UndoTypeOK, UndoRec
<1>2. CASE UploadCreateRun(u)
  <2>1. /\ nextRun' = nextRun + 1 /\ status' = [status EXCEPT ![nextRun] = "awaiting_mapping"]
        /\ UNCHANGED <<rollbacks, undos>>
    BY <1>2 DEF UploadCreateRun
  <2>2. RollbackIsRecorded'
    BY <1>1, <2>1 DEF RollbackIInv, RollbackIsRecorded
  <2>3. RecordKept'
    <3> SUFFICES ASSUME NEW b \in Undos, undos[b].pc \in Inserted,
                        status'[undos[b].run] # "none"
                 PROVE  rollbacks[undos[b].id].status # "deleted"
      BY <2>1 DEF RecordKept
    <3>1. undos[b].run < nextRun
      BY DEF RollbackIInv, UndoRunIsPast, UndoBusy, UndoPC, Inserted
    <3>2. status[undos[b].run] # "none"
      BY <1>1, <2>1, <3>1 DEF RunId
    <3> QED
      BY <3>2 DEF RollbackIInv, RecordKept
  <2>4. FutureAbsent'
    BY <1>1, <2>1 DEF RollbackIInv, FutureAbsent, RunId
  <2>5. UndoRunIsPast'
    BY <1>1, <2>1 DEF RollbackIInv, UndoRunIsPast, RunId
  <2> QED
    BY <2>2, <2>3, <2>4, <2>5 DEF RollbackIInv
<1>3. CASE UploadMapFails(u)
  BY <1>1, <1>3, OtherStepsKeepRecords DEF UploadMapFails, SetStatus, Exists, Undone
<1>4. CASE UNCHANGED <<rollbacks, nextRun, status>>
  BY <1>1, <1>4, OtherStepsKeepRecords
<1> QED
  BY <1>2, <1>3, <1>4 DEF UploadStep, UploadSetSkip, UploadMap, UploadStoreBytes, UploadAbort, store

LEMMA ApprovalKeepsRecords ==
    ASSUME TypeInv, RollbackIInv, NEW a \in Approvals,
           ApprovalStep(a) \/ PipelineError(a) \/ ApprovalAbort(a),
           UNCHANGED <<undos, cleanups, clients>>
    PROVE  RollbackIInv'
<1>1. /\ status \in [RunId -> RunStatus \union {"none"}]
      /\ \A b \in Undos : undos[b].run \in RunId
  BY DEF TypeInv, TypeOK, StoreTypeOK, UndoTypeOK, UndoRec
<1>2. CASE UNCHANGED <<rollbacks, nextRun, status>>
  BY <1>1, <1>2, OtherStepsKeepRecords
<1>3. CASE ApproveCommit(a)
  BY <1>1, <1>3, OtherStepsKeepRecords DEF ApproveCommit, SetStatus, Exists, Undone
<1>4. CASE PipelineStart(a)
  BY <1>1, <1>4, OtherStepsKeepRecords DEF PipelineStart, SetStatus, Exists, Undone
<1>5. CASE PipelineFinish(a)
  BY <1>1, <1>5, OtherStepsKeepRecords DEF PipelineFinish, SetStatus, Exists, Undone
<1>6. CASE PipelineFail(a) \/ PipelineReport(a)
  BY <1>1, <1>6, OtherStepsKeepRecords DEF PipelineFail, PipelineReport, SetStatus, Exists, Undone
<1> QED
  BY <1>2, <1>3, <1>4, <1>5, <1>6
     DEF ApprovalStep, ApproveSpawn, PipelineLoad, PipelineRead, PipelineUpsert, PipelineBadRow,
         PipelineSelectPolicies, PipelineCalculate, PipelineError, ApprovalAbort, store

LEMMA RequestKeepsRecords ==
    ASSUME TypeInv, RollbackIInv, ApiRequest, UNCHANGED <<undos, cleanups, clients>>
    PROVE  RollbackIInv'
<1>1. /\ status \in [RunId -> RunStatus \union {"none"}]
      /\ \A b \in Undos : undos[b].run \in RunId
  BY DEF TypeInv, TypeOK, StoreTypeOK, UndoTypeOK, UndoRec
<1>2. CASE UNCHANGED <<rollbacks, nextRun, status>>
  BY <1>1, <1>2, OtherStepsKeepRecords
<1>3. ASSUME NEW r \in RunId, Reject(r)
      PROVE  RollbackIInv'
  BY <1>1, <1>3, OtherStepsKeepRecords DEF Reject, SetStatus, Exists, Undone
<1> QED
  BY <1>2, <1>3 DEF ApiRequest, UploadCheckMode, ApproveCheck, EditProposals, store

LEMMA RollbackKeepsRecords ==
    ASSUME TypeInv, RollbackIInv, UndoNext, UNCHANGED <<api, cleanups, clients>>
    PROVE  RollbackIInv'
<1>1. PICK b \in Undos : (\E r \in RunId : UndoRequest(b, r)) \/ UndoStep(b) \/ UndoError(b)
                           \/ UndoAbort(b)
  BY DEF UndoNext
<1> DEFINE r == undos[b].run
<1>2. /\ undos \in [Undos -> UndoRec] /\ \A c \in Undos : undos[c].run \in RunId
      /\ status \in [RunId -> RunStatus \union {"none"}]
      /\ rollbacks \in Seq(RollbackRow) /\ nextRun \in Nat /\ IdsKnown
      /\ DOMAIN rollbacks = 1 .. Len(rollbacks) /\ Len(rollbacks) \in Nat
  BY StoreAssumption, LenProperties
  DEF StoreAssumption, TypeInv, TypeOK, StoreTypeOK, UndoTypeOK, UndoRec
<1>3. ASSUME NEW q \in RunId, UndoRequest(b, q)
      PROVE  RollbackIInv'
  <2>1. UNCHANGED store /\ status[q] # "none"
    BY <1>3 DEF UndoRequest, Exists
  <2>2. \A c \in Undos : \/ undos'[c] = undos[c]
                         \/ undos'[c].run = q /\ undos'[c].pc \in {"accepted", "refused"}
    BY <1>2, <1>3 DEF UndoRequest, UndoRec
  <2>3. q < nextRun
    BY <1>2, <2>1, RunIdFacts DEF RollbackIInv, FutureAbsent
  <2>4. RecordKept'
    BY <2>1, <2>2 DEF store, RollbackIInv, RecordKept, Inserted
  <2>5. UndoRunIsPast'
    BY <2>1, <2>2, <2>3 DEF store, RollbackIInv, UndoRunIsPast
  <2> QED
    BY <2>1, <2>4, <2>5 DEF store, RollbackIInv, RollbackIsRecorded, FutureAbsent
<1>4. ASSUME UNCHANGED <<store, api>>, undos[b].pc \in UndoBusy,
             undos' = [undos EXCEPT ![b].pc = undos'[b].pc],
             undos'[b].pc \in Inserted => undos[b].pc \in Inserted
      PROVE  RollbackIInv'
  <2>1. \A c \in Undos :
           /\ undos'[c].run = undos[c].run /\ undos'[c].id = undos[c].id
           /\ undos'[c].pc \in Inserted => undos[c].pc \in Inserted
           /\ undos'[c].pc \in UndoBusy => undos[c].pc \in UndoBusy
    BY <1>2, <1>4 DEF UndoRec
  <2> QED
    BY <1>4, <2>1 DEF store, RollbackIInv, RollbackIsRecorded, RecordKept, FutureAbsent, UndoRunIsPast
<1>5. CASE UndoValidate(b) \/ UndoNoSchema(b) \/ UndoError(b) \/ UndoAbort(b)
  BY <1>2, <1>4, <1>5
  DEF UndoValidate, UndoNoSchema, UndoError, UndoAbort, UndoRec, UndoBusy, UndoPC, Inserted
<1>6. CASE UndoRecord(b)
  <2> DEFINE row == [run |-> r, status |-> "IN_PROGRESS"]
  <2>1. /\ Len(rollbacks') = Len(rollbacks) + 1
        /\ DOMAIN rollbacks' = 1 .. Len(rollbacks) + 1
        /\ \A i \in 1 .. Len(rollbacks) : rollbacks'[i] = rollbacks[i]
        /\ rollbacks'[Len(rollbacks) + 1] = row
    <3>1. row \in RollbackRow /\ rollbacks' = Append(rollbacks, row)
      BY <1>2, <1>6 DEF UndoRecord, RollbackRow
    <3> QED
      BY <1>2, <3>1, AppendProperties, LenProperties
  <2>2. RollbackIsRecorded'
    BY <1>2, <1>6, <2>1 DEF UndoRecord, RollbackIInv, RollbackIsRecorded
  <2>3. \A c \in Undos \ {b} : undos'[c] = undos[c]
    BY <1>2, <1>6 DEF UndoRecord
  <2>4. undos'[b].run = r /\ undos'[b].id = Len(rollbacks) + 1
    BY <1>2, <1>6 DEF UndoRecord, UndoRec
  <2>5. RecordKept'
    BY <1>2, <1>6, <2>1, <2>3, <2>4 DEF UndoRecord, RollbackIInv, RecordKept, IdsKnown, Inserted
  <2>6. FutureAbsent' /\ UndoRunIsPast'
    BY <1>2, <1>6, <2>3, <2>4 DEF UndoRecord, RollbackIInv, FutureAbsent, UndoRunIsPast, UndoBusy, UndoPC
  <2> QED
    BY <2>2, <2>5, <2>6 DEF RollbackIInv
<1>7. CASE UndoMarkRun(b) \/ UndoFinishRun(b)
  <2>1. /\ UNCHANGED <<rollbacks, nextRun>> /\ undos[b].pc \in Inserted /\ undos[b].pc \in UndoBusy
        /\ \A q \in RunId \ {r} : status'[q] = status[q]
        /\ status'[r] # "none" => status[r] # "none"
    BY <1>2, <1>7 DEF UndoMarkRun, UndoFinishRun, SetStatus, Exists, Inserted, UndoBusy, UndoPC
  <2>2. \A c \in Undos :
           /\ undos'[c].run = undos[c].run /\ undos'[c].id = undos[c].id
           /\ undos'[c].pc \in Inserted => undos[c].pc \in Inserted
           /\ undos'[c].pc \in UndoBusy => undos[c].pc \in UndoBusy
    BY SMTT(20), <1>2, <1>7, <2>1 DEF UndoMarkRun, UndoFinishRun, UndoRec, Inserted, UndoBusy, UndoPC
  <2>3. \A q \in RunId : status'[q] # "none" => status[q] # "none"
    BY <2>1
  <2>4. RecordKept' /\ FutureAbsent' /\ UndoRunIsPast'
    BY <1>2, <2>1, <2>2, <2>3 DEF RollbackIInv, RecordKept, FutureAbsent, UndoRunIsPast
  <2>5. status[r] # "none" =>
           \E i \in DOMAIN rollbacks : rollbacks[i].run = r /\ rollbacks[i].status # "deleted"
    BY <1>2, <2>1 DEF RollbackIInv, RecordKept, IdsKnown, Inserted
  <2>6. RollbackIsRecorded'
    BY <2>1, <2>3, <2>5 DEF RollbackIInv, RollbackIsRecorded
  <2> QED
    BY <2>4, <2>6 DEF RollbackIInv
<1>8. CASE UndoDeleteRows(b)
  <2>1. UNCHANGED <<rollbacks, nextRun, status>>
    BY <1>8 DEF UndoDeleteRows
  <2>2. \A c \in Undos :
           /\ undos'[c].run = undos[c].run /\ undos'[c].id = undos[c].id
           /\ undos'[c].pc \in Inserted => undos[c].pc \in Inserted
           /\ undos'[c].pc \in UndoBusy => undos[c].pc \in UndoBusy
    BY <1>2, <1>8 DEF UndoDeleteRows, UndoRec, Inserted, UndoBusy, UndoPC
  <2> QED
    BY <2>1, <2>2 DEF RollbackIInv, RollbackIsRecorded, RecordKept, FutureAbsent, UndoRunIsPast
<1>9. CASE UndoComplete(b) \/ UndoFail(b)
  <2>1. UNCHANGED <<nextRun, status>>
    BY <1>9 DEF UndoComplete, UndoFail
  <2>2. undos[b].id \in 1 .. Len(rollbacks)
    BY <1>2, <1>9 DEF UndoComplete, UndoFail, IdsKnown
  <2>3. \E s \in {"COMPLETE", "FAILED"} : ClosedBy(b, s)
    BY <1>2, <1>9, <2>2, ClosedRows DEF UndoComplete, UndoFail
  <2>4. /\ DOMAIN rollbacks' = 1 .. Len(rollbacks)
        /\ \A i \in 1 .. Len(rollbacks) :
              /\ rollbacks'[i].run = rollbacks[i].run
              /\ rollbacks[i].status = "deleted" <=> rollbacks'[i].status = "deleted"
    BY <2>3, LenProperties DEF ClosedBy
  <2>5. \A c \in Undos :
           /\ undos'[c].run = undos[c].run /\ undos'[c].id = undos[c].id
           /\ undos'[c].pc \in Inserted => undos[c].pc \in Inserted
           /\ undos'[c].pc \in UndoBusy => undos[c].pc \in UndoBusy
    BY <1>2, <1>9 DEF UndoComplete, UndoFail, UndoRec, Inserted, UndoBusy, UndoPC
  <2>6. RollbackIsRecorded'
    BY <1>2, <2>1, <2>4 DEF RollbackIInv, RollbackIsRecorded
  <2>7. RecordKept'
    BY <1>2, <2>1, <2>4, <2>5 DEF RollbackIInv, RecordKept, IdsKnown, Inserted
  <2>8. FutureAbsent' /\ UndoRunIsPast'
    BY <2>1, <2>5 DEF RollbackIInv, FutureAbsent, UndoRunIsPast
  <2> QED
    BY <2>6, <2>7, <2>8 DEF RollbackIInv
<1> QED
  BY <1>1, <1>3, <1>5, <1>6, <1>7, <1>8, <1>9 DEF UndoStep

(* A cleanup deletes runs and records together. *)
LEMMA CleanupKeepsRecords ==
    ASSUME TypeInv, RollbackIInv, CleanupNext, UNCHANGED <<api, undos, clients>>
    PROVE  RollbackIInv'
<1>1. PICK d \in Cleanups : CleanupRecord(d) \/ CleanupStep(d) \/ CleanupError(d) \/ CleanupAbort(d)
  BY DEF CleanupNext
<1>2. \A b \in Undos : undos[b].run \in RunId
  BY DEF TypeInv, TypeOK, UndoTypeOK, UndoRec
<1>3. CASE CleanupCommit(d)
  <2>1. (\A r \in RunId : status'[r] = "none") /\ nextRun' = nextRun
    BY <1>3 DEF CleanupCommit
  <2> QED
    BY <1>2, <2>1 DEF RollbackIInv, RollbackIsRecorded, RecordKept, FutureAbsent, UndoRunIsPast
<1>4. CASE UNCHANGED store
  BY <1>2, <1>4, OtherStepsKeepRecords DEF store
<1> QED
  BY <1>1, <1>3, <1>4 DEF CleanupRecord, CleanupStep, CleanupDeleteFacts, CleanupError, CleanupFail,
                          CleanupAbort

LEMMA RollbackInductive == TypeInv /\ RollbackIInv /\ [Next]_vars => RollbackIInv'
<1> SUFFICES ASSUME TypeInv, RollbackIInv, [Next]_vars
             PROVE  RollbackIInv'
  OBVIOUS
<1>1. CASE Next
  <2>1. Request /\ UNCHANGED clients
    BY <1>1 DEF Next
  <2>2. CASE ApiRequest /\ UNCHANGED <<undos, cleanups>>
    BY <2>1, <2>2, RequestKeepsRecords
  <2>3. CASE ApiStep /\ UNCHANGED <<undos, cleanups>>
    BY <2>1, <2>3, UploadKeepsRecords, ApprovalKeepsRecords DEF ApiStep
  <2>4. CASE UndoNext /\ UNCHANGED <<api, cleanups>>
    BY <2>1, <2>4, RollbackKeepsRecords
  <2>5. CASE CleanupNext /\ UNCHANGED <<api, undos>>
    BY <2>1, <2>5, CleanupKeepsRecords
  <2> QED
    BY <2>1, <2>2, <2>3, <2>4, <2>5 DEF Request
<1>2. CASE UNCHANGED vars
  <2>1. \A b \in Undos : undos[b].run \in RunId
    BY DEF TypeInv, TypeOK, UndoTypeOK, UndoRec
  <2> QED
    BY <1>2, <2>1, OtherStepsKeepRecords DEF vars, store
<1> QED
  BY <1>1, <1>2

(* Whoever finds a run rolling_back or rolled_back finds the record of who *)
(* did it: RollbackService inserts it before it touches the run, no        *)
(* failure removes it, and a cleanup deletes runs and records together.    *)
THEOREM RollbacksAreRecorded == Spec => []RollbackIsRecorded
<1>1. Init => TypeInv /\ RollbackIInv
  BY InitTypeInv, RollbackInit
<1>2. TypeInv /\ RollbackIInv /\ [Next]_vars => (TypeInv /\ RollbackIInv)'
  BY TypeInvInductive, RollbackInductive
<1>3. RollbackIInv => RollbackIsRecorded
  BY DEF RollbackIInv
<1> QED
  BY <1>1, <1>2, <1>3, PTL DEF Spec

-----------------------------------------------------------------------------
(* One rollback at a time.                                                 *)

Live == {"IN_PROGRESS", "COMPLETE"}

RecordsOf(r) == {i \in DOMAIN rollbacks : rollbacks[i].run = r}

(* Every rollback that inserted a record has one of its own, open until it *)
(* closes it.                                                              *)
RecordsDistinct ==
    \A b, c \in Undos :
        undos[b].pc \in Inserted /\ undos[c].pc \in Inserted /\ undos[b].id = undos[c].id => b = c

RecordsOpen ==
    \A b \in Undos :
        undos[b].pc \in Inserted => rollbacks[undos[b].id].status \in {"IN_PROGRESS", "deleted"}

(* RollbackService looks at the latest record of a run only: a record that *)
(* is in progress or complete is the latest, or all later ones are gone.   *)
LiveIsLast ==
    \A r \in RunId : \A i, j \in RecordsOf(r) :
        rollbacks[i].status \in Live /\ rollbacks[j].status # "deleted" => j <= i

ValidatedNoLive ==
    \A b \in Undos :
        undos[b].pc = "validated" =>
            \A i \in RecordsOf(undos[b].run) : rollbacks[i].status \notin Live

OneRollbackIInv ==
    /\ RecordsDistinct /\ RecordsOpen
    /\ Without({"rollbacks"}) => LiveIsLast /\ ValidatedNoLive

LEMMA OneRollbackInit == Init => OneRollbackIInv
<1> SUFFICES ASSUME Init PROVE OneRollbackIInv
  OBVIOUS
<1>1. DOMAIN rollbacks = {}
  BY DEF Init, StoreInit
<1>2. \A b \in Undos : undos[b].pc = "idle"
  BY DEF Init, UndoInit
<1> QED
  BY <1>1, <1>2 DEF OneRollbackIInv, RecordsDistinct, RecordsOpen, LiveIsLast, ValidatedNoLive,
                    RecordsOf, Inserted

LEMMA OneRollbackStutter ==
    OneRollbackIInv /\ UNCHANGED <<rollbacks, undos, clients>> => OneRollbackIInv'
BY DEF OneRollbackIInv, RecordsDistinct, RecordsOpen, LiveIsLast, ValidatedNoLive, RecordsOf, Without

LEMMA RecordsTyped ==
    ASSUME TypeInv
    PROVE  /\ undos \in [Undos -> UndoRec] /\ rollbacks \in Seq(RollbackRow) /\ IdsKnown
           /\ DOMAIN rollbacks = 1 .. Len(rollbacks) /\ Len(rollbacks) \in Nat
           /\ \A i \in 1 .. Len(rollbacks) : rollbacks[i] \in RollbackRow
BY LenProperties, ElementOfSeq DEF TypeInv, TypeOK, StoreTypeOK, UndoTypeOK

(* What RollbackService.rollback concludes from the latest record holds of *)
(* them all.                                                               *)
LEMMA LatestTellsAll ==
    ASSUME TypeInv, LiveIsLast, NEW r \in RunId, LatestRollback(r) \notin Live
    PROVE  \A i \in RecordsOf(r) : rollbacks[i].status \notin Live
<1> DEFINE rows == {i \in DOMAIN rollbacks : rollbacks[i].run = r /\ rollbacks[i].status # "deleted"}
<1> SUFFICES ASSUME NEW i \in RecordsOf(r), rollbacks[i].status \in Live
             PROVE  FALSE
  OBVIOUS
<1>1. i \in rows /\ \A j \in rows : j <= i
  BY DEF RecordsOf, LiveIsLast, Live
<1>2. \A j \in rows : j \in Nat
  BY RecordsTyped
<1>3. (CHOOSE j \in rows : \A k \in rows : k <= j) = i
  BY <1>1, <1>2
<1>4. LatestRollback(r) = rollbacks[i].status
  BY <1>1, <1>3 DEF LatestRollback
<1> QED
  BY <1>4

(* A rollback that goes on without touching the records. *)
LEMMA GoesOn ==
    ASSUME TypeInv, OneRollbackIInv, NEW b \in Undos, UNCHANGED <<rollbacks, clients>>,
           undos'[b].run = undos[b].run /\ undos'[b].id = undos[b].id,
           \A c \in Undos \ {b} : undos'[c] = undos[c],
           undos'[b].pc \in Inserted => undos[b].pc \in Inserted,
           undos'[b].pc # "validated"
    PROVE  OneRollbackIInv'
<1>1. RecordsDistinct'
  BY DEF OneRollbackIInv, RecordsDistinct
<1>2. RecordsOpen'
  BY DEF OneRollbackIInv, RecordsOpen
<1>3. Without({"rollbacks"})' => LiveIsLast' /\ ValidatedNoLive'
  BY DEF OneRollbackIInv, LiveIsLast, ValidatedNoLive, RecordsOf, Without
<1> QED
  BY <1>1, <1>2, <1>3 DEF OneRollbackIInv

LEMMA UndoKeepsOneRollback ==
    ASSUME TypeInv, Clients, OneRollbackIInv, NEW b \in Undos,
           (\E r \in RunId : UndoRequest(b, r)) \/ UndoStep(b) \/ UndoError(b) \/ UndoAbort(b),
           UNCHANGED clients
    PROVE  OneRollbackIInv'
<1> DEFINE r == undos[b].run
<1>1. /\ undos \in [Undos -> UndoRec] /\ rollbacks \in Seq(RollbackRow) /\ IdsKnown
      /\ DOMAIN rollbacks = 1 .. Len(rollbacks) /\ Len(rollbacks) \in Nat
      /\ r \in RunId /\ \A c \in Undos : undos[c].run \in RunId
  BY RecordsTyped DEF UndoRec
<1>2. Without({"rollbacks"}) => \A c \in Undos \ {b} :
         undos[b].pc \in UndoBusy /\ undos[c].pc \in UndoBusy => undos[c].run # r
  BY DEF Without, Clients, UndosSerial
<1>3. Without({"rollbacks"})' <=> Without({"rollbacks"})
  BY DEF Without
<1>4. CASE \E q \in RunId : UndoRequest(b, q)
  <2>1. PICK q \in RunId : UndoRequest(b, q)
    BY <1>4
  <2>2. /\ UNCHANGED rollbacks /\ undos'[b].pc \in {"accepted", "refused"}
        /\ \A c \in Undos \ {b} : undos'[c] = undos[c]
    BY <1>1, <2>1 DEF UndoRequest, store, UndoRec
  <2>3. RecordsDistinct' /\ RecordsOpen'
    BY <2>2 DEF OneRollbackIInv, RecordsDistinct, RecordsOpen, Inserted
  <2>4. Without({"rollbacks"})' => LiveIsLast' /\ ValidatedNoLive'
    BY <1>3, <2>2 DEF OneRollbackIInv, LiveIsLast, ValidatedNoLive, RecordsOf
  <2> QED
    BY <2>3, <2>4 DEF OneRollbackIInv
<1>5. CASE UndoValidate(b)
  <2>1. /\ UNCHANGED rollbacks /\ undos'[b].run = r /\ undos'[b].pc \in {"validated", "refused"}
        /\ \A c \in Undos \ {b} : undos'[c] = undos[c]
        /\ undos'[b].pc = "validated" => LatestRollback(r) \notin Live
    BY <1>1, <1>5 DEF UndoValidate, store, UndoRec, Live
  <2>2. RecordsDistinct' /\ RecordsOpen'
    BY <2>1 DEF OneRollbackIInv, RecordsDistinct, RecordsOpen, Inserted
  <2>3. ASSUME Without({"rollbacks"}) PROVE LiveIsLast' /\ ValidatedNoLive'
    <3>1. LiveIsLast /\ ValidatedNoLive
      BY <2>3 DEF OneRollbackIInv
    <3>2. undos'[b].pc = "validated" => \A i \in RecordsOf(r) : rollbacks[i].status \notin Live
      BY <1>1, <2>1, <3>1, LatestTellsAll
    <3> QED
      BY <2>1, <3>1, <3>2 DEF LiveIsLast, ValidatedNoLive, RecordsOf
  <2> QED
    BY <1>3, <2>2, <2>3 DEF OneRollbackIInv
<1>6. CASE UndoRecord(b)
  <2> DEFINE row == [run |-> r, status |-> "IN_PROGRESS"]
             n == Len(rollbacks) + 1
  <2>1. /\ DOMAIN rollbacks' = 1 .. n
        /\ \A i \in 1 .. Len(rollbacks) : rollbacks'[i] = rollbacks[i]
        /\ rollbacks'[n] = row
    <3>1. row \in RollbackRow /\ rollbacks' = Append(rollbacks, row)
      BY <1>1, <1>6 DEF UndoRecord, RollbackRow
    <3> QED
      BY <1>1, <3>1, AppendProperties, LenProperties
  <2>2. /\ undos'[b].run = r /\ undos'[b].id = n /\ undos'[b].pc = "recorded"
        /\ \A c \in Undos \ {b} : undos'[c] = undos[c]
        /\ undos[b].pc = "validated"
    BY <1>1, <1>6 DEF UndoRecord, UndoRec
  <2>3. \A c \in Undos \ {b} : undos[c].pc \in Inserted => undos[c].id \in 1 .. Len(rollbacks)
    BY <1>1 DEF IdsKnown, Inserted
  <2>4. RecordsDistinct'
    BY <1>1, <2>2, <2>3 DEF OneRollbackIInv, RecordsDistinct
  <2>5. RecordsOpen'
    BY <1>1, <2>1, <2>2, <2>3 DEF OneRollbackIInv, RecordsOpen
  <2>6. ASSUME Without({"rollbacks"}) PROVE LiveIsLast' /\ ValidatedNoLive'
    <3>1. LiveIsLast /\ ValidatedNoLive /\ \A i \in RecordsOf(r) : rollbacks[i].status \notin Live
      BY <2>2, <2>6 DEF OneRollbackIInv, ValidatedNoLive
    <3>2. ASSUME NEW q \in RunId, NEW i \in RecordsOf(q)'
          PROVE  i \in RecordsOf(q) \/ (i = n /\ q = r)
      <4>1. i \in 1 .. n /\ rollbacks'[i].run = q
        BY <2>1 DEF RecordsOf
      <4>2. CASE i = n
        BY <2>1, <4>1, <4>2
      <4>3. CASE i # n
        <5>1. i \in 1 .. Len(rollbacks)
          BY <1>1, <4>1, <4>3
        <5> QED
          BY <1>1, <2>1, <4>1, <5>1 DEF RecordsOf
      <4> QED
        BY <4>2, <4>3
    <3>3. \A q \in RunId : \A i \in RecordsOf(q) : i \in 1 .. Len(rollbacks) /\ rollbacks'[i] = rollbacks[i]
      BY <1>1, <2>1 DEF RecordsOf
    <3>4. LiveIsLast'
      <4> SUFFICES ASSUME NEW q \in RunId, NEW i \in RecordsOf(q)', NEW j \in RecordsOf(q)',
                          rollbacks'[i].status \in Live, rollbacks'[j].status # "deleted"
                   PROVE  j <= i
        BY DEF LiveIsLast
      <4>1. CASE i = n
        BY <1>1, <2>1, <4>1 DEF RecordsOf
      <4>2. CASE i # n
        <5>1. i \in RecordsOf(q) /\ rollbacks[i].status \in Live
          BY <3>2, <3>3, <4>2
        <5>2. q # r
          BY <3>1, <5>1
        <5>3. j \in RecordsOf(q) /\ rollbacks[j].status # "deleted"
          BY <3>2, <3>3, <5>2
        <5> QED
          BY <3>1, <5>1, <5>3 DEF LiveIsLast
      <4> QED
        BY <4>1, <4>2
    <3>5. ValidatedNoLive'
      <4> SUFFICES ASSUME NEW c \in Undos, undos'[c].pc = "validated",
                          NEW i \in RecordsOf(undos[c].run)'
                   PROVE  c # b /\ rollbacks'[i].status \notin Live
        BY <2>2 DEF ValidatedNoLive, RecordsOf
      <4>1. c # b /\ undos[c].pc = "validated"
        BY <2>2
      <4>2. undos[c].run # r
        BY <1>2, <2>2, <2>6, <4>1 DEF UndoBusy, UndoPC
      <4>3. PICK q \in RunId : q = undos[c].run
        BY <1>1
      <4>4. i \in RecordsOf(q)' /\ undos'[c] = undos[c]
        BY <2>2, <4>1, <4>3 DEF RecordsOf
      <4>5. i \in RecordsOf(q)
        BY <3>2, <4>2, <4>3, <4>4
      <4>6. i \in RecordsOf(undos[c].run) /\ rollbacks'[i] = rollbacks[i]
        BY <3>3, <4>3, <4>5
      <4> QED
        BY <3>1, <4>1, <4>6 DEF ValidatedNoLive
    <3> QED
      BY <3>4, <3>5
  <2> QED
    BY <1>3, <2>4, <2>5, <2>6 DEF OneRollbackIInv
<1>7. CASE UndoComplete(b) \/ UndoFail(b)
  <2>1. /\ undos[b].pc \in {"closing", "failing"} /\ undos'[b].pc \in {"done", "failed"}
        /\ undos[b].id \in 1 .. Len(rollbacks)
        /\ \A c \in Undos \ {b} : undos'[c] = undos[c]
    BY <1>1, <1>7 DEF UndoComplete, UndoFail, IdsKnown, UndoRec
  <2>2. PICK s \in {"COMPLETE", "FAILED"} : ClosedBy(b, s)
    BY <1>1, <1>7, <2>1, ClosedRows DEF UndoComplete, UndoFail
  <2>3. /\ DOMAIN rollbacks' = 1 .. Len(rollbacks)
        /\ \A i \in 1 .. Len(rollbacks) :
              /\ rollbacks'[i].run = rollbacks[i].run
              /\ rollbacks[i].status = "deleted" <=> rollbacks'[i].status = "deleted"
              /\ i # undos[b].id => rollbacks'[i] = rollbacks[i]
    BY <2>2, LenProperties DEF ClosedBy
  <2>4. rollbacks[undos[b].id].status \in {"IN_PROGRESS", "deleted"}
    BY <2>1 DEF OneRollbackIInv, RecordsOpen, Inserted
  <2>5. \A i \in 1 .. Len(rollbacks) : rollbacks'[i].status \in Live => rollbacks[i].status \in Live
    BY <2>1, <2>3, <2>4 DEF Live
  <2>6. RecordsDistinct'
    BY <2>1 DEF OneRollbackIInv, RecordsDistinct, Inserted
  <2>7. RecordsOpen'
    <3> SUFFICES ASSUME NEW c \in Undos, undos'[c].pc \in Inserted
                 PROVE  rollbacks'[undos'[c].id].status \in {"IN_PROGRESS", "deleted"}
      BY DEF RecordsOpen
    <3>1. c # b /\ undos'[c] = undos[c] /\ undos[c].id # undos[b].id
      BY <2>1 DEF OneRollbackIInv, RecordsDistinct, Inserted
    <3>2. undos[c].id \in 1 .. Len(rollbacks)
      BY <1>1, <3>1 DEF IdsKnown, Inserted
    <3> QED
      BY <2>3, <3>1, <3>2 DEF OneRollbackIInv, RecordsOpen
  <2>8. ASSUME Without({"rollbacks"}) PROVE LiveIsLast' /\ ValidatedNoLive'
    <3>1. \A q \in RunId : RecordsOf(q)' = RecordsOf(q) /\ RecordsOf(q) \subseteq 1 .. Len(rollbacks)
      BY <1>1, <2>3 DEF RecordsOf
    <3>2. LiveIsLast'
      BY <2>3, <2>5, <2>8, <3>1 DEF OneRollbackIInv, LiveIsLast
    <3>3. ValidatedNoLive'
      BY <1>1, <2>1, <2>5, <2>8, <3>1 DEF OneRollbackIInv, ValidatedNoLive
    <3> QED
      BY <3>2, <3>3
  <2> QED
    BY <1>3, <2>6, <2>7, <2>8 DEF OneRollbackIInv
<1>8. CASE UndoNoSchema(b)
  BY <1>1, <1>8, GoesOn DEF UndoNoSchema, store, UndoRec, Inserted
<1>9. CASE UndoMarkRun(b)
  BY <1>1, <1>9, GoesOn DEF UndoMarkRun, UndoRec, Inserted
<1>10. CASE UndoDeleteRows(b)
  BY <1>1, <1>10, GoesOn DEF UndoDeleteRows, UndoRec, Inserted
<1>11. CASE UndoFinishRun(b)
  BY <1>1, <1>11, GoesOn DEF UndoFinishRun, UndoRec, Inserted
<1>12. CASE UndoError(b)
  BY <1>1, <1>12, GoesOn DEF UndoError, store, UndoRec, Inserted
<1>13. CASE UndoAbort(b)
  BY <1>1, <1>13, GoesOn DEF UndoAbort, store, UndoRec, Inserted
<1> QED
  BY <1>4, <1>5, <1>6, <1>7, <1>8, <1>9, <1>10, <1>11, <1>12, <1>13 DEF UndoStep

LEMMA CleanupKeepsOneRollback ==
    ASSUME TypeInv, OneRollbackIInv, NEW d \in Cleanups, CleanupCommit(d), UNCHANGED <<undos, clients>>
    PROVE  OneRollbackIInv'
<1>1. /\ rollbacks' = [i \in DOMAIN rollbacks |-> [rollbacks[i] EXCEPT !.status = "deleted"]]
      /\ DOMAIN rollbacks = 1 .. Len(rollbacks) /\ IdsKnown
      /\ \A i \in DOMAIN rollbacks : rollbacks[i] \in RollbackRow
  BY RecordsTyped DEF CleanupCommit
<1>2. DOMAIN rollbacks' = DOMAIN rollbacks /\ \A i \in DOMAIN rollbacks : rollbacks'[i].status = "deleted"
  BY <1>1 DEF RollbackRow
<1>3. RecordsDistinct'
  BY DEF OneRollbackIInv, RecordsDistinct
<1>4. RecordsOpen'
  BY <1>1, <1>2 DEF RecordsOpen, IdsKnown, Inserted
<1>5. LiveIsLast' /\ ValidatedNoLive'
  BY <1>2 DEF LiveIsLast, ValidatedNoLive, RecordsOf, Live
<1> QED
  BY <1>3, <1>4, <1>5 DEF OneRollbackIInv

LEMMA OneRollbackInductive ==
    TypeInv /\ Clients /\ OneRollbackIInv /\ [Next]_vars => OneRollbackIInv'
<1> SUFFICES ASSUME TypeInv, Clients, OneRollbackIInv, [Next]_vars
             PROVE  OneRollbackIInv'
  OBVIOUS
<1>1. UNCHANGED clients
  BY ClientsInductive
<1>2. CASE UNCHANGED <<rollbacks, undos>>
  BY <1>1, <1>2, OneRollbackStutter
<1>3. CASE UndoNext
  BY <1>1, <1>3, UndoKeepsOneRollback DEF UndoNext
<1>4. ASSUME NEW d \in Cleanups, CleanupCommit(d), UNCHANGED undos
      PROVE  OneRollbackIInv'
  BY <1>1, <1>4, CleanupKeepsOneRollback
<1>5. CASE (ApiRequest \/ ApiStep) /\ UNCHANGED <<undos, cleanups>>
  <2>1. UNCHANGED rollbacks
    BY <1>5
    DEF ApiRequest, ApiStep, UploadCheckMode, ApproveCheck, EditProposals, Reject, UploadStep,
        UploadCreateRun, UploadSetSkip, UploadMap, UploadMapFails, UploadStoreBytes, UploadAbort,
        ApprovalStep, ApproveCommit, ApproveSpawn, PipelineLoad, PipelineRead, PipelineStart,
        PipelineUpsert, PipelineBadRow, PipelineFinish, PipelineFail, PipelineReport,
        PipelineSelectPolicies, PipelineCalculate, PipelineError, ApprovalAbort, store
  <2> QED
    BY <1>2, <1>5, <2>1
<1>6. CASE CleanupNext /\ UNCHANGED <<api, undos>>
  <2>1. PICK d \in Cleanups : CleanupRecord(d) \/ CleanupStep(d) \/ CleanupError(d) \/ CleanupAbort(d)
    BY <1>6 DEF CleanupNext
  <2>2. CleanupCommit(d) \/ UNCHANGED store
    BY <2>1 DEF CleanupRecord, CleanupStep, CleanupDeleteFacts, CleanupError, CleanupFail, CleanupAbort
  <2> QED
    BY <1>2, <1>4, <1>6, <2>2 DEF store
<1>7. CASE UNCHANGED vars
  BY <1>2, <1>7 DEF vars, store
<1> QED
  BY <1>3, <1>5, <1>6, <1>7 DEF Next, Request

(* Whatever fails and whatever is cleaned up: when no two rollbacks of a   *)
(* run overlap, no run ever has two that are in progress or complete, also *)
(* when an earlier one failed and its record is no longer the latest.      *)
THEOREM RollbackIsUnique == Spec => []OneRollback
<1>1. Init => TypeInv /\ Clients /\ OneRollbackIInv
  BY InitTypeInv, ClientsInit, OneRollbackInit
<1>2. TypeInv /\ Clients /\ OneRollbackIInv /\ [Next]_vars => (TypeInv /\ Clients /\ OneRollbackIInv)'
  BY TypeInvInductive, ClientsInductive, OneRollbackInductive
<1>3. TypeInv /\ OneRollbackIInv => OneRollback
  <2> SUFFICES ASSUME TypeInv, OneRollbackIInv, Without({"rollbacks"}),
                      NEW i \in DOMAIN rollbacks, NEW j \in DOMAIN rollbacks,
                      rollbacks[i].run = rollbacks[j].run,
                      {rollbacks[i].status, rollbacks[j].status} \subseteq Live
               PROVE  i = j
    BY DEF OneRollback, Live
  <2>1. i \in Nat /\ j \in Nat /\ rollbacks[i].run \in RunId
    BY RecordsTyped DEF RollbackRow
  <2>2. j <= i /\ i <= j
    BY <2>1 DEF OneRollbackIInv, LiveIsLast, RecordsOf, Live
  <2> QED
    BY <2>1, <2>2
<1> QED
  BY <1>1, <1>2, <1>3, PTL DEF Spec

-----------------------------------------------------------------------------
LEMMA StoreTypes ==
    ASSUME TypeInv
    PROVE  /\ status \in [RunId -> RunStatus \union {"none"}] /\ owner \in [RunId -> OwnerRec]
           /\ nextRun \in Nat \ {0} /\ bytes \in [RunId -> Files \union {NoFile}]
           /\ session \in [RunId -> SessionStatus \union {"none"}]
           /\ facts \in [RunId -> [BatchId -> Nat]] /\ derived \in [RunId -> Nat]
           /\ skipped \in [RunId -> Nat]
BY StoreAssumption DEF TypeInv, TypeOK, StoreTypeOK, StoreAssumption

LEMMA RequestTypesOf ==
    ASSUME TypeInv
    PROVE  /\ uploads \in [Uploads -> UploadRec] /\ approvals \in [Approvals -> ApprovalRec]
           /\ undos \in [Undos -> UndoRec] /\ cleanups \in [Cleanups -> CleanupRec]
           /\ \A a \in Approvals : approvals[a].run \in RunId
           /\ \A b \in Undos : undos[b].run \in RunId
           /\ \A d \in Cleanups : /\ cleanups[d].facts \in [RunId -> [BatchId -> Nat]]
                                  /\ cleanups[d].derived \in [RunId -> Nat]
BY DEF TypeInv, TypeOK, ApiTypeOK, UndoTypeOK, CleanupTypeOK, ApprovalRec, UndoRec, CleanupRec

-----------------------------------------------------------------------------
(* What the steps of a request change.                                     *)

ToIngest == {"checked", "saving", "loading", "reading", "starting", "upserting"}

(* Every step of an approval works on its own run and never goes back      *)
(* before the commit; it takes a run out of failed only before the end of  *)
(* the file.                                                               *)
LEMMA ApprovalFrame ==
    ASSUME TypeInv, NEW a \in Approvals, ApprovalStep(a) \/ PipelineError(a) \/ ApprovalAbort(a)
    PROVE  /\ UNCHANGED <<uploads, owner, nextRun, bytes>>
           /\ approvals[a].pc \in ApprovalBusy /\ approvals'[a].run = approvals[a].run
           /\ approvals[a].pc \in ApprovalPast => approvals'[a].pc \in ApprovalPast
           /\ approvals'[a].pc \in ToIngest => approvals[a].pc \in ToIngest
           /\ approvals'[a].pc # "checked"
           /\ approvals'[a].pc \in ApprovalPast \/ approvals'[a].pc = "refused"
           /\ \A b \in Approvals \ {a} : approvals'[b] = approvals[b]
<1>1. approvals \in [Approvals -> ApprovalRec] /\ approvals[a].pc \in ApprovalPC
  BY RequestTypesOf DEF ApprovalRec
<1>2. UNCHANGED <<uploads, owner, nextRun, bytes>>
  BY DEF ApprovalStep, ApproveCommit, ApproveSpawn, PipelineLoad, PipelineRead, PipelineStart,
      PipelineUpsert, PipelineBadRow, PipelineFinish, PipelineFail, PipelineReport,
      PipelineSelectPolicies, PipelineCalculate, PipelineError, ApprovalAbort, store
<1>3. approvals'[a].run = approvals[a].run /\ \A b \in Approvals \ {a} : approvals'[b] = approvals[b]
  BY <1>1
  DEF ApprovalStep, ApproveCommit, ApproveSpawn, PipelineLoad, PipelineRead, PipelineStart,
      PipelineUpsert, PipelineBadRow, PipelineFinish, PipelineFail, PipelineReport,
      PipelineSelectPolicies, PipelineCalculate, PipelineError, ApprovalAbort, Goto, ApprovalRec
<1>4. /\ approvals[a].pc \in ApprovalBusy
      /\ approvals[a].pc \in ApprovalPast => approvals'[a].pc \in ApprovalPast
      /\ approvals'[a].pc \in ToIngest => approvals[a].pc \in ToIngest
      /\ approvals'[a].pc # "checked"
      /\ approvals'[a].pc \in ApprovalPast \/ approvals'[a].pc = "refused"
  BY <1>1
  DEF ApprovalStep, ApproveCommit, ApproveSpawn, PipelineLoad, PipelineRead, PipelineStart,
      PipelineUpsert, PipelineBadRow, PipelineFinish, PipelineFail, PipelineReport,
      PipelineSelectPolicies, PipelineCalculate, PipelineError, ApprovalAbort, Goto, ApprovalRec,
      ApprovalBusy, ApprovalPast, ApprovalPC, ToIngest
<1> QED
  BY <1>2, <1>3, <1>4

LEMMA ApprovalStore ==
    ASSUME TypeInv, NEW a \in Approvals, ApprovalStep(a) \/ PipelineError(a) \/ ApprovalAbort(a)
    PROVE  /\ \A q \in RunId \ {approvals[a].run} :
                 /\ status'[q] = status[q] /\ session'[q] = session[q]
                 /\ facts'[q] = facts[q] /\ derived'[q] = derived[q]
           /\ \/ status'[approvals[a].run] \in {status[approvals[a].run], "none", "failed"}
              \/ approvals[a].pc \in ToIngest
           /\ \/ status'[approvals[a].run] \notin {"complete", "partial"}
              \/ UNCHANGED status
              \/ PipelineFinish(a)
           /\ status[approvals[a].run] = "none" => status'[approvals[a].run] = "none"
           /\ UNCHANGED facts \/ PipelineUpsert(a)
<1>1. /\ approvals[a].run \in RunId /\ status \in [RunId -> RunStatus \union {"none"}]
      /\ session \in [RunId -> SessionStatus \union {"none"}]
      /\ facts \in [RunId -> [BatchId -> Nat]] /\ derived \in [RunId -> Nat]
  BY RequestTypesOf, StoreTypes
<1>2. \A q \in RunId \ {approvals[a].run} : session'[q] = session[q]
  BY <1>1
  DEF ApprovalStep, ApproveCommit, ApproveSpawn, PipelineLoad, PipelineRead, PipelineStart,
      PipelineUpsert, PipelineBadRow, PipelineFinish, PipelineFail, PipelineReport,
      PipelineSelectPolicies, PipelineCalculate, PipelineError, ApprovalAbort, SetSession, store
<1>3. \A q \in RunId \ {approvals[a].run} :
         status'[q] = status[q] /\ facts'[q] = facts[q] /\ derived'[q] = derived[q]
  BY <1>1
  DEF ApprovalStep, ApproveCommit, ApproveSpawn, PipelineLoad, PipelineRead, PipelineStart,
      PipelineUpsert, PipelineBadRow, PipelineFinish, PipelineFail, PipelineReport,
      PipelineSelectPolicies, PipelineCalculate, PipelineError, ApprovalAbort, SetStatus, store
<1>4. /\ \/ status'[approvals[a].run] \in {status[approvals[a].run], "none", "failed"}
         \/ approvals[a].pc \in ToIngest
      /\ \/ status'[approvals[a].run] \notin {"complete", "partial"}
         \/ UNCHANGED status
         \/ PipelineFinish(a)
      /\ status[approvals[a].run] = "none" => status'[approvals[a].run] = "none"
  BY <1>1
  DEF ApprovalStep, ApproveCommit, ApproveSpawn, PipelineLoad, PipelineRead, PipelineStart,
      PipelineUpsert, PipelineBadRow, PipelineFinish, PipelineFail, PipelineReport,
      PipelineSelectPolicies, PipelineCalculate, PipelineError, ApprovalAbort, SetStatus, Exists,
      store, ToIngest
<1>5. UNCHANGED facts \/ PipelineUpsert(a)
  BY DEF ApprovalStep, ApproveCommit, ApproveSpawn, PipelineLoad, PipelineRead, PipelineStart,
      PipelineBadRow, PipelineFinish, PipelineFail, PipelineReport,
      PipelineSelectPolicies, PipelineCalculate, PipelineError, ApprovalAbort, store
<1> QED
  BY <1>2, <1>3, <1>4, <1>5

(* A rollback takes its run to rolling_back and rolled_back and deletes    *)
(* its rows, nothing else.                                                 *)
LEMMA UndoFrame ==
    ASSUME TypeInv, NEW b \in Undos,
           (\E r \in RunId : UndoRequest(b, r)) \/ UndoStep(b) \/ UndoError(b) \/ UndoAbort(b)
    PROVE  /\ UNCHANGED <<owner, nextRun, bytes, session>>
           /\ \A c \in Undos \ {b} : undos'[c] = undos[c]
           /\ \A q \in RunId : \/ status'[q] = status[q]
                               \/ /\ q = undos[b].run /\ undos[b].pc \in UndoBusy
                                  /\ status'[q] \in {"none", "rolling_back", "rolled_back"}
                                  /\ status[q] = "none" => status'[q] = "none"
           /\ \/ /\ undos[b].pc \in UndoBusy /\ undos'[b].run = undos[b].run
                 /\ undos'[b].pc = "deleting" => undos[b].pc = "deleting" \/ UndoMarkRun(b)
              \/ /\ undos'[b].run \in RunId /\ UNCHANGED store
                 /\ undos'[b].pc = "accepted" => status[undos'[b].run] \in {"complete", "partial"}
                 /\ undos'[b].pc \in {"accepted", "refused"}
           /\ UNCHANGED facts \/ UndoDeleteRows(b)
<1>1. /\ undos \in [Undos -> UndoRec] /\ undos[b].run \in RunId /\ undos[b].pc \in UndoPC
      /\ status \in [RunId -> RunStatus \union {"none"}]
  BY RequestTypesOf, StoreTypes DEF UndoRec
<1>2. UNCHANGED <<owner, nextRun, bytes, session>> /\ (UNCHANGED facts \/ UndoDeleteRows(b))
  BY DEF UndoRequest, UndoStep, UndoValidate, UndoNoSchema, UndoRecord, UndoMarkRun, UndoDeleteRows,
         UndoFinishRun, UndoComplete, UndoFail, UndoError, UndoAbort, store
<1>3. CASE \E r \in RunId : UndoRequest(b, r)
  <2>1. PICK r \in RunId : UndoRequest(b, r)
    BY <1>3
  <2>2. /\ UNCHANGED store /\ undos'[b].run = r /\ undos'[b].pc \in {"accepted", "refused"}
        /\ undos'[b].pc = "accepted" => status[r] \in {"complete", "partial"}
        /\ \A c \in Undos \ {b} : undos'[c] = undos[c]
    BY <1>1, <2>1 DEF UndoRequest, UndoRec
  <2> QED
    BY <1>2, <2>2 DEF store
<1>4. CASE UndoStep(b) \/ UndoError(b) \/ UndoAbort(b)
  <2>1. /\ undos[b].pc \in UndoBusy /\ undos'[b].run = undos[b].run
        /\ \A c \in Undos \ {b} : undos'[c] = undos[c]
        /\ undos'[b].pc = "deleting" => undos[b].pc = "deleting" \/ UndoMarkRun(b)
    BY <1>1, <1>4
    DEF UndoStep, UndoValidate, UndoNoSchema, UndoRecord, UndoMarkRun, UndoDeleteRows,
        UndoFinishRun, UndoComplete, UndoFail, UndoError, UndoAbort, UndoRec, UndoBusy, UndoPC
  <2>2. \A q \in RunId : \/ status'[q] = status[q]
                         \/ /\ q = undos[b].run
                            /\ status'[q] \in {"none", "rolling_back", "rolled_back"}
                            /\ status[q] = "none" => status'[q] = "none"
    BY <1>1, <1>4
    DEF UndoStep, UndoValidate, UndoNoSchema, UndoRecord, UndoMarkRun, UndoDeleteRows,
        UndoFinishRun, UndoComplete, UndoFail, UndoError, UndoAbort, SetStatus, Exists, store
  <2> QED
    BY <1>2, <2>1, <2>2
<1> QED
  BY <1>3, <1>4

-----------------------------------------------------------------------------
(* No rows without a run.                                                  *)

Inserting == {"set_skip", "mapping", "storing"}

OwnedRows ==
    \A r \in RunId : HasRows(r) \/ derived[r] > 0 \/ session[r] # "none" => Exists(r)

UploadsOwned ==
    \A u \in Uploads : uploads[u].pc \in Inserting => Exists(uploads[u].run)

PipelinesOwned ==
    \A a \in Approvals : approvals[a].pc \in ApprovalBusy => Exists(approvals[a].run)

(* A cleanup that has marked the fact rows has marked all there are. *)
AllMarked ==
    \A d \in Cleanups :
        cleanups[d].pc = "deleting" =>
            cleanups[d].facts = facts /\ cleanups[d].derived = derived

OrphanIInv == Without({"cleanup"}) => OwnedRows /\ UploadsOwned /\ PipelinesOwned /\ AllMarked

LEMMA OrphanInit == Init => OrphanIInv
<1> SUFFICES ASSUME Init PROVE OrphanIInv
  OBVIOUS
<1>1. \A r \in RunId : session[r] = "none" /\ derived[r] = 0 /\ \A k \in BatchId : facts[r][k] = 0
  BY DEF Init, StoreInit, NoRows
<1>2. /\ \A u \in Uploads : uploads[u].pc = "idle"
      /\ \A a \in Approvals : approvals[a].pc = "idle"
      /\ \A d \in Cleanups : cleanups[d].pc = "idle"
  BY DEF Init, ApiInit, CleanupInit, NothingMarked
<1> QED
  BY <1>1, <1>2 DEF OrphanIInv, OwnedRows, UploadsOwned, PipelinesOwned, AllMarked, HasRows, Inserting,
                    ApprovalBusy

(* A step that deletes no run, and adds rows and requests to runs that     *)
(* exist only.                                                             *)
LEMMA OwnedStep ==
    ASSUME TypeInv, Without({"cleanup"}), OrphanIInv, UNCHANGED <<cleanups, clients>>,
           \A r \in RunId : status[r] # "none" => status'[r] # "none",
           \A r \in RunId : \/ status'[r] # "none"
                            \/ /\ facts'[r] = facts[r] \/ facts'[r] = NoRows
                               /\ derived'[r] \in {derived[r], 0}
                               /\ session'[r] = session[r],
           \A u \in Uploads : uploads'[u].pc \in Inserting =>
              \/ status'[uploads'[u].run] # "none"
              \/ uploads[u].pc \in Inserting /\ uploads'[u].run = uploads[u].run,
           \A a \in Approvals : approvals'[a].pc \in ApprovalBusy =>
              \/ status'[approvals'[a].run] # "none"
              \/ approvals[a].pc \in ApprovalBusy /\ approvals'[a].run = approvals[a].run,
           \/ UNCHANGED <<facts, derived>>
           \/ \A d \in Cleanups : cleanups[d].pc # "deleting"
    PROVE  OrphanIInv'
<1>1. OwnedRows /\ UploadsOwned /\ PipelinesOwned /\ AllMarked
  BY DEF OrphanIInv
<1>2. OwnedRows'
  <2> SUFFICES ASSUME NEW r \in RunId, HasRows(r)' \/ derived'[r] > 0 \/ session'[r] # "none",
                      status'[r] = "none"
               PROVE  FALSE
    BY DEF OwnedRows, Exists
  <2>1. /\ facts'[r] = facts[r] \/ facts'[r] = NoRows
        /\ derived'[r] \in {derived[r], 0} /\ session'[r] = session[r]
    OBVIOUS
  <2>2. status[r] = "none"
    OBVIOUS
  <2>3. ~HasRows(r) /\ ~(derived[r] > 0) /\ session[r] = "none"
    BY <1>1, <2>2 DEF OwnedRows, Exists
  <2>4. ~HasRows(r)'
    BY <2>1, <2>3 DEF HasRows, NoRows
  <2> QED
    BY <2>1, <2>3, <2>4
<1>3. UploadsOwned'
  <2>1. \A u \in Uploads : uploads[u].pc \in Inserting => uploads[u].run \in RunId
    BY DEF TypeInv, RunsKnown, Inserting
  <2> SUFFICES ASSUME NEW u \in Uploads, uploads'[u].pc \in Inserting
               PROVE  status'[uploads'[u].run] # "none"
    BY DEF UploadsOwned, Exists
  <2> QED
    BY <1>1, <2>1 DEF UploadsOwned, Exists
<1>4. PipelinesOwned'
  <2> SUFFICES ASSUME NEW a \in Approvals, approvals'[a].pc \in ApprovalBusy
               PROVE  status'[approvals'[a].run] # "none"
    BY DEF PipelinesOwned, Exists
  <2> QED
    BY <1>1, RequestTypesOf DEF PipelinesOwned, Exists
<1>5. AllMarked'
  BY <1>1 DEF AllMarked
<1> QED
  BY <1>2, <1>3, <1>4, <1>5 DEF OrphanIInv

(* An UPDATE of a status neither creates nor deletes a run. *)
LEMMA StatusKept ==
    ASSUME TypeInv, NEW r \in RunId, NEW s \in RunStatus, SetStatus(r, s)
    PROVE  \A q \in RunId : status[q] # "none" <=> status'[q] # "none"
BY StoreTypes DEF SetStatus, Exists, RunStatus

LEMMA UploadOwns ==
    ASSUME TypeInv, Without({"cleanup"}), OrphanIInv, NEW u \in Uploads, UploadStep(u) \/ UploadAbort(u),
           UNCHANGED <<undos, cleanups, clients>>
    PROVE  OrphanIInv'
<1>1. /\ uploads \in [Uploads -> UploadRec] /\ RunsKnown /\ UploadsOwned
      /\ status \in [RunId -> RunStatus \union {"none"}]
      /\ session \in [RunId -> SessionStatus \union {"none"}]
  BY RequestTypesOf, StoreTypes DEF TypeInv, OrphanIInv
<1>2. CASE UploadCreateRun(u)
  <2>1. nextRun \in RunId
    BY <1>2, StoreTypes, StoreAssumption DEF UploadCreateRun, RunId, StoreAssumption
  <2>2. /\ UNCHANGED <<approvals, facts, derived, session>>
        /\ status' = [status EXCEPT ![nextRun] = "awaiting_mapping"]
    BY <1>2 DEF UploadCreateRun
  <2>3. (\A r \in RunId : status[r] # "none" => status'[r] # "none") /\ status'[nextRun] # "none"
    BY <1>1, <2>1, <2>2
  <2>4. uploads'[u].run = nextRun /\ \A v \in Uploads \ {u} : uploads'[v] = uploads[v]
    BY <1>1, <1>2 DEF UploadCreateRun, UploadRec
  <2> QED
    BY <2>1, <2>2, <2>3, <2>4, OwnedStep
<1>3. CASE UploadMap(u)
  <2> DEFINE r == uploads[u].run
  <2>1. r \in RunId /\ status[r] # "none" /\ uploads[u].pc \in Inserting
    BY <1>1, <1>3 DEF UploadMap, UploadsOwned, RunsKnown, Inserting, Exists
  <2>2. UNCHANGED <<approvals, facts, derived, status>> /\ \A q \in RunId \ {r} : session'[q] = session[q]
    BY <1>1, <1>3 DEF UploadMap
  <2>3. uploads'[u].run = r /\ \A v \in Uploads \ {u} : uploads'[v] = uploads[v]
    BY <1>1, <1>3 DEF UploadMap, UploadRec
  <2> QED
    BY <2>1, <2>2, <2>3, OwnedStep
<1>4. CASE UploadMapFails(u)
  <2>1. UNCHANGED <<approvals, facts, derived, session>>
    BY <1>4 DEF UploadMapFails
  <2>2. \A q \in RunId : status[q] # "none" => status'[q] # "none"
    BY <1>1, <1>4, StatusKept DEF UploadMapFails, RunsKnown, RunStatus
  <2>3. uploads'[u].pc = "failed" /\ \A v \in Uploads \ {u} : uploads'[v] = uploads[v]
    BY <1>1, <1>4 DEF UploadMapFails, UploadRec
  <2> QED
    BY <2>1, <2>2, <2>3, OwnedStep DEF Inserting
<1>5. CASE UploadSetSkip(u) \/ UploadStoreBytes(u) \/ UploadAbort(u)
  <2>1. UNCHANGED <<approvals, facts, derived, session, status>>
    BY <1>5 DEF UploadSetSkip, UploadStoreBytes, UploadAbort, store
  <2>2. /\ uploads'[u].pc \in Inserting => uploads[u].pc \in Inserting /\ uploads'[u].run = uploads[u].run
        /\ \A v \in Uploads \ {u} : uploads'[v] = uploads[v]
    BY <1>1, <1>5 DEF UploadSetSkip, UploadStoreBytes, UploadAbort, UploadRec, Inserting
  <2> QED
    BY <2>1, <2>2, OwnedStep
<1> QED
  BY <1>2, <1>3, <1>4, <1>5 DEF UploadStep

(* A pipeline writes rows of the run it works on; no cleanup runs. *)
LEMMA ApprovalOwns ==
    ASSUME TypeInv, Clients, Without({"cleanup"}), OrphanIInv, NEW a \in Approvals,
           ApprovalStep(a) \/ PipelineError(a) \/ ApprovalAbort(a),
           UNCHANGED <<undos, cleanups, clients>>
    PROVE  OrphanIInv'
<1> DEFINE r == approvals[a].run
<1>1. /\ approvals \in [Approvals -> ApprovalRec] /\ r \in RunId
      /\ session \in [RunId -> SessionStatus \union {"none"}]
      /\ facts \in [RunId -> [BatchId -> Nat]] /\ derived \in [RunId -> Nat]
  BY RequestTypesOf, StoreTypes
<1>2. approvals[a].pc \in ApprovalBusy /\ approvals'[a].run = r /\ UNCHANGED uploads
      /\ \A b \in Approvals \ {a} : approvals'[b] = approvals[b]
  BY <1>1
  DEF ApprovalStep, ApproveCommit, ApproveSpawn, PipelineLoad, PipelineRead, PipelineStart,
      PipelineUpsert, PipelineBadRow, PipelineFinish, PipelineFail, PipelineReport,
      PipelineSelectPolicies, PipelineCalculate, PipelineError, ApprovalAbort, Goto, ApprovalRec,
      ApprovalBusy, ApprovalPC
<1>3. status[r] # "none"
  BY <1>2 DEF OrphanIInv, PipelinesOwned, Exists
<1>4. \A d \in Cleanups : cleanups[d].pc # "deleting"
  BY <1>2 DEF Without, Clients, CleanupAlone, CleanupBusy
<1>5. \A q \in RunId : status[q] # "none" => status'[q] # "none"
  BY <1>1, StatusKept
  DEF ApprovalStep, ApproveCommit, ApproveSpawn, PipelineLoad, PipelineRead, PipelineStart,
      PipelineUpsert, PipelineBadRow, PipelineFinish, PipelineFail, PipelineReport,
      PipelineSelectPolicies, PipelineCalculate, PipelineError, ApprovalAbort, store, RunStatus
<1>6. \A q \in RunId \ {r} : facts'[q] = facts[q] /\ derived'[q] = derived[q] /\ session'[q] = session[q]
  BY <1>1
  DEF ApprovalStep, ApproveCommit, ApproveSpawn, PipelineLoad, PipelineRead, PipelineStart,
      PipelineUpsert, PipelineBadRow, PipelineFinish, PipelineFail, PipelineReport,
      PipelineSelectPolicies, PipelineCalculate, PipelineError, ApprovalAbort, SetSession, store
<1>7. \A b \in Approvals : approvals'[b].pc \in ApprovalBusy =>
         approvals[b].pc \in ApprovalBusy /\ approvals'[b].run = approvals[b].run
  BY <1>2
<1>8. \A q \in RunId : \/ status'[q] # "none"
                       \/ /\ facts'[q] = facts[q] \/ facts'[q] = NoRows
                          /\ derived'[q] \in {derived[q], 0} /\ session'[q] = session[q]
  BY <1>3, <1>5, <1>6
<1> QED
  BY <1>2, <1>4, <1>5, <1>7, <1>8, OwnedStep

LEMMA RequestOwns ==
    ASSUME TypeInv, Without({"cleanup"}), OrphanIInv, ApiRequest,
           UNCHANGED <<undos, cleanups, clients>>
    PROVE  OrphanIInv'
<1>1. /\ uploads \in [Uploads -> UploadRec] /\ approvals \in [Approvals -> ApprovalRec] /\ OwnedRows
      /\ session \in [RunId -> SessionStatus \union {"none"}]
  BY RequestTypesOf, StoreTypes DEF OrphanIInv
<1>2. ASSUME NEW u \in Uploads, NEW c \in Carriers, NEW m \in Modes, NEW sk \in BOOLEAN,
             NEW f \in Files, UploadCheckMode(u, c, m, sk, f)
      PROVE  OrphanIInv'
  <2>1. UNCHANGED <<status, facts, derived, session, approvals>>
    BY <1>2 DEF UploadCheckMode, store
  <2>2. uploads'[u].pc \notin Inserting /\ \A v \in Uploads \ {u} : uploads'[v] = uploads[v]
    BY <1>1, <1>2 DEF UploadCheckMode, Inserting
  <2> QED
    BY <2>1, <2>2, OwnedStep
<1>3. ASSUME NEW a \in Approvals, NEW r \in RunId, ApproveCheck(a, r)
      PROVE  OrphanIInv'
  <2>1. UNCHANGED <<status, facts, derived, session, uploads>>
    BY <1>3 DEF ApproveCheck, store
  <2>2. status[r] # "none" /\ approvals'[a].run = r /\ \A b \in Approvals \ {a} : approvals'[b] = approvals[b]
    BY <1>1, <1>3 DEF ApproveCheck, ApprovalRec, OwnedRows, Exists
  <2> QED
    BY <2>1, <2>2, OwnedStep
<1>4. ASSUME NEW r \in RunId, EditProposals(r)
      PROVE  OrphanIInv'
  BY <1>4, OwnedStep DEF EditProposals, api
<1>5. ASSUME NEW r \in RunId, Reject(r)
      PROVE  OrphanIInv'
  <2>1. UNCHANGED <<facts, derived, uploads, approvals>>
    BY <1>5 DEF Reject, api
  <2>2. \A q \in RunId : status[q] # "none" => status'[q] # "none"
    BY <1>5, StatusKept DEF Reject, RunStatus
  <2>3. status[r] # "none" /\ \A q \in RunId \ {r} : session'[q] = session[q]
    BY <1>1, <1>5 DEF Reject, SetSession, OwnedRows, Exists
  <2> QED
    BY <2>1, <2>2, <2>3, OwnedStep
<1> QED
  BY <1>2, <1>3, <1>4, <1>5 DEF ApiRequest

LEMMA RollbackOwns ==
    ASSUME TypeInv, Clients, Without({"cleanup"}), OrphanIInv, UndoNext,
           UNCHANGED <<api, cleanups, clients>>
    PROVE  OrphanIInv'
<1>1. PICK b \in Undos : (\E r \in RunId : UndoRequest(b, r)) \/ UndoStep(b) \/ UndoError(b)
                           \/ UndoAbort(b)
  BY DEF UndoNext
<1>2. /\ undos[b].run \in RunId /\ facts \in [RunId -> [BatchId -> Nat]] /\ derived \in [RunId -> Nat]
      /\ UNCHANGED <<uploads, approvals>>
  BY RequestTypesOf, StoreTypes DEF api
<1>3. CASE UndoDeleteRows(b)
  <2>1. /\ UNCHANGED <<status, session>>
        /\ \A q \in RunId : facts'[q] \in {facts[q], NoRows} /\ derived'[q] \in {derived[q], 0}
    BY <1>2, <1>3 DEF UndoDeleteRows
  <2>2. \A d \in Cleanups : cleanups[d].pc # "deleting"
    BY <1>3 DEF UndoDeleteRows, UndoBusy, UndoPC, Without, Clients, CleanupAlone, CleanupBusy
  <2> QED
    BY <1>2, <2>1, <2>2, OwnedStep
<1>4. CASE UndoMarkRun(b) \/ UndoFinishRun(b)
  <2>1. UNCHANGED <<facts, derived, session>>
    BY <1>4 DEF UndoMarkRun, UndoFinishRun
  <2>2. \A q \in RunId : status[q] # "none" => status'[q] # "none"
    BY <1>2, <1>4, StatusKept DEF UndoMarkRun, UndoFinishRun, RunStatus
  <2> QED
    BY <1>2, <2>1, <2>2, OwnedStep
<1>5. CASE UNCHANGED <<status, facts, derived, session>>
  BY <1>2, <1>5, OwnedStep
<1> QED
  BY <1>1, <1>3, <1>4, <1>5
  DEF UndoStep, UndoRequest, UndoValidate, UndoNoSchema, UndoRecord, UndoComplete, UndoFail,
      UndoError, UndoAbort, store

(* A cleanup that runs alone deletes exactly what it has marked. *)
LEMMA CleanupOwns ==
    ASSUME TypeInv, Clients, Without({"cleanup"}), OrphanIInv, CleanupNext,
           UNCHANGED <<api, undos, clients>>
    PROVE  OrphanIInv'
<1>1. PICK d \in Cleanups : CleanupRecord(d) \/ CleanupStep(d) \/ CleanupError(d) \/ CleanupAbort(d)
  BY DEF CleanupNext
<1>2. /\ cleanups \in [Cleanups -> CleanupRec]
      /\ facts \in [RunId -> [BatchId -> Nat]] /\ derived \in [RunId -> Nat]
      /\ OwnedRows /\ UploadsOwned /\ PipelinesOwned /\ AllMarked
  BY RequestTypesOf, StoreTypes DEF OrphanIInv
<1>3. CASE CleanupCommit(d)
  <2>1. /\ cleanups[d].facts = facts /\ cleanups[d].derived = derived
        /\ cleanups[d].pc \in CleanupBusy /\ cleanups'[d].pc = "done"
        /\ \A e \in Cleanups \ {d} : cleanups'[e] = cleanups[e]
    BY <1>2, <1>3 DEF CleanupCommit, AllMarked, CleanupBusy, CleanupRec
  <2>2. /\ \A u \in Uploads : uploads[u].pc \notin UploadBusy
        /\ \A a \in Approvals : approvals[a].pc \notin ApprovalBusy
        /\ \A e \in Cleanups \ {d} : cleanups[e].pc \notin CleanupBusy
    BY <2>1 DEF Without, Clients, CleanupAlone
  <2>3. \A n \in Nat : Left(n, n) = 0
    BY DEF Left
  <2>4. OwnedRows'
    <3>1. \A r \in RunId : session'[r] = "none" /\ derived'[r] = 0
      BY <1>2, <1>3, <2>1, <2>3 DEF CleanupCommit
    <3>2. \A r \in RunId : \A k \in BatchId : facts'[r][k] = 0
      BY <1>2, <1>3, <2>1, <2>3 DEF CleanupCommit
    <3> QED
      BY <3>1, <3>2 DEF OwnedRows, HasRows
  <2>5. UploadsOwned' /\ PipelinesOwned'
    BY <2>2 DEF api, UploadsOwned, PipelinesOwned, Inserting, UploadBusy
  <2>6. AllMarked'
    BY <2>1, <2>2 DEF AllMarked, CleanupBusy
  <2> QED
    BY <2>4, <2>5, <2>6 DEF OrphanIInv
<1>4. CASE UNCHANGED store
  <2>1. OwnedRows' /\ UploadsOwned' /\ PipelinesOwned'
    BY <1>2, <1>4 DEF store, api, OwnedRows, UploadsOwned, PipelinesOwned, HasRows, Exists
  <2>2. AllMarked'
    <3> SUFFICES ASSUME NEW e \in Cleanups, cleanups'[e].pc = "deleting"
                 PROVE  cleanups'[e].facts = facts /\ cleanups'[e].derived = derived
      BY <1>4 DEF store, AllMarked
    <3>1. CASE e # d
      <4>1. cleanups'[e] = cleanups[e]
        BY <1>1, <1>2, <1>4, <3>1 DEF CleanupRecord, CleanupStep, CleanupDeleteFacts, CleanupCommit,
                                 CleanupError, CleanupFail, CleanupAbort
      <4> QED
        BY <1>2, <4>1 DEF AllMarked
    <3>2. CASE e = d
      <4>1. CleanupDeleteFacts(d)
        BY <1>1, <1>2, <3>2 DEF CleanupRecord, CleanupStep, CleanupCommit, CleanupError, CleanupFail,
                                CleanupAbort, CleanupRec
      <4> QED
        BY <1>2, <3>2, <4>1 DEF CleanupDeleteFacts, CleanupRec
    <3> QED
      BY <3>1, <3>2
  <2> QED
    BY <2>1, <2>2 DEF OrphanIInv
<1> QED
  BY <1>1, <1>3, <1>4 DEF CleanupRecord, CleanupStep, CleanupDeleteFacts, CleanupError, CleanupFail,
                          CleanupAbort

LEMMA OrphanInductive == TypeInv /\ Clients /\ OrphanIInv /\ [Next]_vars => OrphanIInv'
<1> SUFFICES ASSUME TypeInv, Clients, OrphanIInv, [Next]_vars, Without({"cleanup"})
             PROVE  OrphanIInv'
  <2>1. ASSUME [Next]_vars, Clients PROVE Without({"cleanup"})' <=> Without({"cleanup"})
    BY <2>1, ClientsInductive DEF Without
  <2> QED
    BY <2>1 DEF OrphanIInv
<1>1. UNCHANGED clients
  BY ClientsInductive
<1>2. CASE ApiRequest /\ UNCHANGED <<undos, cleanups>>
  BY <1>1, <1>2, RequestOwns
<1>3. CASE ApiStep /\ UNCHANGED <<undos, cleanups>>
  BY <1>1, <1>3, UploadOwns, ApprovalOwns DEF ApiStep
<1>4. CASE UndoNext /\ UNCHANGED <<api, cleanups>>
  BY <1>1, <1>4, RollbackOwns
<1>5. CASE CleanupNext /\ UNCHANGED <<api, undos>>
  BY <1>1, <1>5, CleanupOwns
<1>6. CASE UNCHANGED vars
  BY <1>6, OwnedStep DEF vars, store, api
<1> QED
  BY <1>2, <1>3, <1>4, <1>5, <1>6 DEF Next, Request

(* While no cleanup overlaps anything, every row of the fact tables, of a  *)
(* file or of the engine, belongs to a run that can be listed and rolled   *)
(* back, though no foreign key says so.                                    *)
THEOREM RowsHaveRuns == Spec => []NoOrphanRows
<1>1. Init => TypeInv /\ Clients /\ OrphanIInv
  BY InitTypeInv, ClientsInit, OrphanInit
<1>2. TypeInv /\ Clients /\ OrphanIInv /\ [Next]_vars => (TypeInv /\ Clients /\ OrphanIInv)'
  BY TypeInvInductive, ClientsInductive, OrphanInductive
<1>3. OrphanIInv => NoOrphanRows
  BY DEF OrphanIInv, OwnedRows, NoOrphanRows
<1> QED
  BY <1>1, <1>2, <1>3, PTL DEF Spec
================================================================================
