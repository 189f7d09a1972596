----------------------------- MODULE RunLifecycle -----------------------------
(***************************************************************************)
(* What the ingestion subsystem promises of each uploaded file, without    *)
(* requests, pipelines or tables: a run is registered, approved once,      *)
(* ingested whole or failed, perhaps undone with all its rows, perhaps     *)
(* purged with everything else; it never goes back.                        *)
(***************************************************************************)
CONSTANT Run

VARIABLES
    phase,   \* where the run is in its life
    rows     \* how much of its file is in the fact tables

lifecycle == <<phase, rows>>

Phase == {"absent", "pending", "approved", "ingesting", "ingested", "failed",
          "undoing", "undone", "purged"}
Rows == {"none", "some", "all"}

LifecycleTypeOK == phase \in [Run -> Phase] /\ rows \in [Run -> Rows]

LifecycleInit ==
    /\ phase = [r \in Run |-> "absent"]
    /\ rows = [r \in Run |-> "none"]

Move(r, from, to) == phase[r] \in from /\ phase' = [phase EXCEPT ![r] = to]

Register(r) == Move(r, {"absent"}, "pending") /\ UNCHANGED rows
Approve(r)  == Move(r, {"pending"}, "approved") /\ UNCHANGED rows
Begin(r)    == Move(r, {"approved"}, "ingesting") /\ UNCHANGED rows

(* A file is ingested in several transactions; its rows only accumulate. *)
Ingest(r) ==
    /\ phase[r] = "ingesting"
    /\ rows[r] # "all"
    /\ \E some \in {"some", "all"} : rows' = [rows EXCEPT ![r] = some]
    /\ UNCHANGED phase

Finish(r) == rows[r] = "all" /\ Move(r, {"ingesting"}, "ingested") /\ UNCHANGED rows

(* A rejected mapping, a file that cannot be read or a row that cannot be  *)
(* stored fails the run; what was committed before stays.  So does an      *)
(* error right after the last transaction.                                 *)
Fail(r) ==
    /\ Move(r, {"pending", "approved", "ingesting", "ingested"}, "failed")
    /\ UNCHANGED rows

BeginUndo(r)  == Move(r, {"ingested"}, "undoing") /\ UNCHANGED rows
EraseRows(r)  == phase[r] = "undoing" /\ rows' = [rows EXCEPT ![r] = "none"] /\ UNCHANGED phase
FinishUndo(r) == rows[r] = "none" /\ Move(r, {"undoing"}, "undone") /\ UNCHANGED rows

(* A cleanup removes every run there is, in whatever phase, and all rows. *)
Purge ==
    /\ phase' = [r \in Run |-> IF phase[r] = "absent" THEN "absent" ELSE "purged"]
    /\ rows' = [r \in Run |-> "none"]

LifecycleNext ==
    \/ \E r \in Run : \/ Register(r) \/ Approve(r) \/ Begin(r) \/ Ingest(r) \/ Finish(r)
                      \/ Fail(r) \/ BeginUndo(r) \/ EraseRows(r) \/ FinishUndo(r)
    \/ Purge

LifecycleSpec == LifecycleInit /\ [][LifecycleNext]_lifecycle

(* The promise in one line: ingested is the whole file, undone is nothing  *)
(* of it, and nothing is there before the approval.                        *)
WholeOrNothing ==
    \A r \in Run :
        /\ phase[r] = "ingested" => rows[r] = "all"
        /\ phase[r] \in {"absent", "pending", "approved", "undone", "purged"} => rows[r] = "none"
===============================================================================
