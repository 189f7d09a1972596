------------------------------- MODULE RunStore -------------------------------
(***************************************************************************)
(* The tables of one tenant schema that the ingestion subsystem shares:    *)
(* ingestion_runs, field_mapping_sessions and its proposals, the five fact *)
(* tables, ingestion_skipped_rows and ingestion_rollbacks.  Every request  *)
(* handler and background pipeline of the other modules reads and writes   *)
(* these variables; one action is one committed transaction.               *)
(*                                                                         *)
(* Identifiers come from sequences and are never reused, so a deleted row  *)
(* is a row whose status is "none" and whose identifier is below nextRun.  *)
(***************************************************************************)
EXTENDS Integers, Sequences, FiniteSets

CONSTANTS
    Carriers,    \* carriers of the tenant
    Modes,       \* the ingestion modes that clients ask for
    MaxRuns,     \* bound on the ingestion_runs rows ever inserted
    MaxCommits,  \* bound on the transactions one file is ingested in
    Files        \* the uploaded files, abstracted to what ingestion does with them

(* A file is ingested in `commits` transactions (one per sheet of a        *)
(* workbook, one for a CSV file); `bad` is the transaction that holds a    *)
(* row the parser cannot upsert, 0 when there is none.                     *)
FileType == [csv: BOOLEAN, commits: 1 .. MaxCommits, bad: 0 .. MaxCommits]

ASSUME StoreAssumption ==
    /\ Carriers # {}
    /\ Modes # {} /\ Modes \subseteq {"calc_engine", "display_only"}
    /\ MaxRuns \in Nat \ {0}
    /\ MaxCommits \in Nat \ {0}
    /\ Files # {} /\ Files \subseteq FileType
    /\ \A f \in Files : f.csv => f.commits = 1

VARIABLES
    status,     \* ingestion_runs.status, "none" when there is no row
    owner,      \* ingestion_runs.carrier_id, ingestion_mode and skip_on_error
    nextRun,    \* the sequence of ingestion_runs.run_id
    bytes,      \* ingestion_runs.raw_file_bytes
    session,    \* field_mapping_sessions.status of the run's session
    usable,     \* the session has an approved, not excluded proposal
    facts,      \* how often each transaction of the file is in the fact tables
    derived,    \* how often the engine inserted zero/missing payroll rows
    skipped,    \* ingestion_skipped_rows of the run
    rollbacks   \* ingestion_rollbacks, in order of rollback_id

store == <<status, owner, nextRun, bytes, session, usable,
           facts, derived, skipped, rollbacks>>

RunId   == 1 .. MaxRuns
BatchId == 1 .. MaxCommits

(* The statuses the code writes; 'cancelled' is in the CHECK constraint of *)
(* the column but nothing writes it.                                       *)
RunStatus == {"awaiting_mapping", "mapping_approved", "processing", "complete",
              "partial", "failed", "rolling_back", "rolled_back"}

SessionStatus == {"PENDING_REVIEW", "APPROVED", "REJECTED"}

OwnerRec == [carrier: Carriers, mode: Modes, skip: BOOLEAN]

RollbackRow == [run: RunId, status: {"IN_PROGRESS", "COMPLETE", "FAILED", "deleted"}]

(* raw_file_bytes IS NULL: the pipeline then has nothing to ingest. *)
NoFile == [csv |-> FALSE, commits |-> 0, bad |-> 0]

NoRows == [k \in BatchId |-> 0]

StoreTypeOK ==
    /\ status \in [RunId -> RunStatus \union {"none"}]
    /\ owner \in [RunId -> OwnerRec]
    /\ nextRun \in 1 .. MaxRuns + 1
    /\ bytes \in [RunId -> Files \union {NoFile}]
    /\ session \in [RunId -> SessionStatus \union {"none"}]
    /\ usable \in [RunId -> BOOLEAN]
    /\ facts \in [RunId -> [BatchId -> Nat]]
    /\ derived \in [RunId -> Nat]
    /\ skipped \in [RunId -> Nat]
    /\ rollbacks \in Seq(RollbackRow)

StoreInit ==
    /\ status = [r \in RunId |-> "none"]
    /\ owner = [r \in RunId |-> [carrier |-> CHOOSE c \in Carriers : TRUE,
                                 mode |-> CHOOSE m \in Modes : TRUE, skip |-> FALSE]]
    /\ nextRun = 1
    /\ bytes = [r \in RunId |-> NoFile]
    /\ session = [r \in RunId |-> "none"]
    /\ usable = [r \in RunId |-> FALSE]
    /\ facts = [r \in RunId |-> NoRows]
    /\ derived = [r \in RunId |-> 0]
    /\ skipped = [r \in RunId |-> 0]
    /\ rollbacks = << >>

Exists(r) == status[r] # "none"

(* UPDATE ingestion_runs SET status = s WHERE run_id = r: no guard on the  *)
(* current status, and no row updated when the run was deleted.            *)
SetStatus(r, s) ==
    status' = [status EXCEPT ![r] = IF Exists(r) THEN s ELSE "none"]

SetSession(r, s) ==
    session' = [session EXCEPT ![r] = IF @ = "none" THEN "none" ELSE s]

HasRows(r) == \E k \in BatchId : facts[r][k] > 0

(* The runs whose mode locks a carrier, status NOT IN ('failed'), and the  *)
(* mode the lock query returns: that of the lowest run_id among them.      *)
LockingRuns(c) ==
    {r \in RunId : status[r] \notin {"none", "failed"} /\ owner[r].carrier = c}

LockedMode(c, m) ==
    \E r \in LockingRuns(c) :
        /\ \A q \in LockingRuns(c) : r <= q
        /\ owner[r].mode = m

(* ORDER BY rollback_id DESC LIMIT 1 *)
LatestRollback(r) ==
    LET rows == {i \in DOMAIN rollbacks :
                    rollbacks[i].run = r /\ rollbacks[i].status # "deleted"}
    IN  IF rows = {} THEN "none"
        ELSE rollbacks[CHOOSE i \in rows : \A j \in rows : j <= i].status
===============================================================================
