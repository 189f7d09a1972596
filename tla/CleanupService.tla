---------------------------- MODULE CleanupService ----------------------------
(***************************************************************************)
(* CleanupService.execute: the record of the cleanup is committed first,   *)
(* then one transaction deletes the fact rows and every ingestion table    *)
(* of the tenant, whatever runs at the time.  The transaction is READ      *)
(* COMMITTED: its DELETE of the fact tables sees the rows committed before *)
(* that statement, and a pipeline can commit more before the transaction   *)
(* ends.                                                                   *)
(***************************************************************************)
EXTENDS RunStore

CONSTANTS
    Cleanups,       \* calls of CleanupService.execute
    CleanupFaults   \* whether a statement of a cleanup may fail or its worker die

ASSUME CleanupAssumption == CleanupFaults \in BOOLEAN

VARIABLE
    cleanups   \* the calls: program counter, cleanup_runs.status and the
               \* rows its DELETE of the fact tables has marked

CleanupPC == {"idle", "recorded", "deleting", "failing", "done", "failed"}
CleanupBusy == {"recorded", "deleting", "failing"}
CleanupStatus == {"none", "IN_PROGRESS", "COMPLETE", "FAILED"}

CleanupRec == [pc: CleanupPC, record: CleanupStatus,
               facts: [RunId -> [BatchId -> Nat]], derived: [RunId -> Nat]]

CleanupTypeOK == cleanups \in [Cleanups -> CleanupRec]

NothingMarked == [pc |-> "idle", record |-> "none",
                  facts |-> [r \in RunId |-> NoRows], derived |-> [r \in RunId |-> 0]]

CleanupInit == cleanups = [d \in Cleanups |-> NothingMarked]

CleanupRecord(d) ==
    /\ cleanups[d].pc = "idle"
    /\ cleanups' = [cleanups EXCEPT ![d].pc = "recorded", ![d].record = "IN_PROGRESS"]
    /\ UNCHANGED store

CleanupDeleteFacts(d) ==
    /\ cleanups[d].pc = "recorded"
    /\ cleanups' = [cleanups EXCEPT ![d].pc = "deleting", ![d].facts = facts,
                                    ![d].derived = derived]
    /\ UNCHANGED store

(* What is left of n rows when m of them were marked; a rollback may have  *)
(* deleted the marked ones first.                                          *)
Left(n, m) == IF n > m THEN n - m ELSE 0

(* Mutant: the fact tables are missing from the list of tables. *)
CleanupCommit_factsKept(d) ==
    /\ cleanups[d].pc = "deleting"
    /\ status' = [r \in RunId |-> "none"]
    /\ session' = [r \in RunId |-> "none"]
    /\ rollbacks' = [i \in DOMAIN rollbacks |-> [rollbacks[i] EXCEPT !.status = "deleted"]]
    /\ cleanups' = [cleanups EXCEPT ![d].pc = "done", ![d].record = "COMPLETE"]
    /\ UNCHANGED <<owner, nextRun, bytes, usable, facts, derived, skipped>>

CleanupCommit(d) ==
    /\ cleanups[d].pc = "deleting"
    /\ facts' = [r \in RunId |-> [k \in BatchId |-> Left(facts[r][k], cleanups[d].facts[r][k])]]
    /\ derived' = [r \in RunId |-> Left(derived[r], cleanups[d].derived[r])]
    /\ skipped' = [r \in RunId |-> 0]
    /\ rollbacks' = [i \in DOMAIN rollbacks |-> [rollbacks[i] EXCEPT !.status = "deleted"]]
    /\ status' = [r \in RunId |-> "none"]
    /\ bytes' = [r \in RunId |-> NoFile]
    /\ session' = [r \in RunId |-> "none"]
    /\ usable' = [r \in RunId |-> FALSE]
    /\ cleanups' = [cleanups EXCEPT ![d].pc = "done", ![d].record = "COMPLETE"]
    /\ UNCHANGED <<owner, nextRun>>

(* A statement of the transaction raises: it is rolled back. *)
CleanupError(d) ==
    /\ CleanupFaults
    /\ cleanups[d].pc \in {"recorded", "deleting"}
    /\ cleanups' = [cleanups EXCEPT ![d].pc = "failing"]
    /\ UNCHANGED store

CleanupFail(d) ==
    /\ cleanups[d].pc = "failing"
    /\ cleanups' = [cleanups EXCEPT ![d].pc = "failed", ![d].record = "FAILED"]
    /\ UNCHANGED store

CleanupAbort(d) ==
    /\ CleanupFaults
    /\ cleanups[d].pc \in CleanupBusy
    /\ cleanups' = [cleanups EXCEPT ![d].pc = "failed"]
    /\ UNCHANGED store

CleanupStep(d) == CleanupDeleteFacts(d) \/ CleanupCommit(d) \/ CleanupFail(d)

CleanupNext ==
    \E d \in Cleanups : CleanupRecord(d) \/ CleanupStep(d) \/ CleanupError(d) \/ CleanupAbort(d)
===============================================================================
