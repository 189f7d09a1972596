------------------------------ MODULE FieldMapping ------------------------------
(***************************************************************************)
(* How the columns of an uploaded file get their targets: the automatic    *)
(* mapping (auto_mapping_service.py), the corrections and the approval of  *)
(* a reviewer (ingestion.py), the mappings a carrier has learnt            *)
(* (ingestion_field_maps), the administrator's field maps                  *)
(* (data_sources.py) and the migrations that rename the column all of them *)
(* read or write. IngestionApi has what overlapping approvals do.          *)
(***************************************************************************)
EXTENDS Naturals, Sequences, FiniteSetsExt

CONSTANTS Fields,       \* headers that files have
          Targets,      \* canonical columns
          Unmatched,    \* no target
          TypeOf,       \* the type of each canonical column
          Shape,        \* what the scorer finds out about a header by its name
          MaxEdits,     \* bound: corrections of a reviewer in one session
          Scenarios     \* the files, the generation of the table, the events

Formats == {"csv", "xlsx", "report", "xml"}
Kinds   == {"none", "TEXT", "NUMERIC", "INTEGER", "DATE", "BOOLEAN"}
Events  == {"failures", "late_edit", "reject", "admin", "migrate"}

Generations == {"canonical", "flagged", "target"}

(* A file is a sequence of sheets or sections, each a sequence of columns: *)
(* a header and the kind of the value below it. A CSV file has one.        *)
IsFile(file) ==
    /\ file.format \in Formats
    /\ file.parts \in Seq(Seq([field : Fields \cup {""}, kind : Kinds]))
    /\ file.format = "csv" => Len(file.parts) = 1

ASSUME MappingAssumption ==
    /\ Unmatched \notin Targets
    /\ MaxEdits \in Nat
    /\ \A w \in Scenarios : /\ w.column \in Generations
                            /\ w.events \subseteq Events
                            /\ w.files \in Seq({w.files[s] : s \in DOMAIN w.files})
                            /\ \A s \in DOMAIN w.files : IsFile(w.files[s])
    /\ TypeOf \in [Targets -> STRING]
    /\ \A f \in Fields : /\ Shape[f].alias \in Targets \cup {Unmatched}
                         /\ Shape[f].same \in Targets \cup {Unmatched}
                         /\ Shape[f].best \in Targets
                         /\ Shape[f].ratio \in 0 .. 100

VARIABLES column,    \* ingestion_field_maps as 0001, 0006 or 0008 leaves it
          maps,      \* its rows for the carrier: source field to target
          active,    \* the fields whose row is active
          learnt,    \* history: the target last approved for each field
          session,   \* the uploads in progress and their mapping sessions
          scenario   \* the files and what else happens: rigid

vars == <<column, maps, active, learnt, session, scenario>>
tables == <<column, maps, active>>

Sessions == DOMAIN scenario.files

Nothing == [f \in Fields |-> Unmatched]

New == [pc |-> "new", path |-> "tenant", saved |-> Nothing, promised |-> Nothing, edits |-> 0,
        status |-> "none", proposals |-> <<>>, approved |-> {}, used |-> {}]

Init ==
    /\ scenario \in Scenarios
    /\ column = scenario.column
    /\ maps = Nothing
    /\ active = {}
    /\ learnt = Nothing
    /\ session = [s \in Sessions |-> New]

-----------------------------------------------------------------------------
(* Headers. A header is known by its place, the sheet and the column.      *)

Places(file) == UNION {{n} \X DOMAIN file.parts[n] : n \in DOMAIN file.parts}

Header(file, x) == file.parts[x[1]][x[2]].field
Sample(file, x) == file.parts[x[1]][x[2]].kind

Before(x, y) == x[1] < y[1] \/ (x[1] = y[1] /\ x[2] < y[2])

Named(file) == {x \in Places(file) : Header(file, x) \in Fields}

Same(file, x) == {y \in Named(file) : Header(file, y) = Header(file, x)}

(* infer_type of the first value. *)
KindIn(file, places) ==
    LET told == {x \in places : Sample(file, x) # "none"}
    IN  IF told = {} THEN "TEXT"
        ELSE Sample(file, CHOOSE x \in told : \A y \in told \ {x} : Before(x, y))

(* A blank header is dropped, not the value below it: the samples of the   *)
(* headers after it are those of their left neighbours. Headers may repeat.*)
CsvFields(file) ==
    LET LastOf(x) == Max({y[2] : y \in Same(file, x)})
        Moved(x)  == <<1, Cardinality({y \in Named(file) : y[2] <= LastOf(x)})>>
    IN  [x \in Named(file) |-> KindIn(file, {Moved(x)})]

(* Every header of the sheets once, with the sample of its first sheet.    *)
SheetFields(file) ==
    [x \in {y \in Named(file) : ~ \E z \in Same(file, y) : Before(z, y)} |->
        KindIn(file, {y \in Same(file, x) : y[1] = x[1]})]

(* A section of an audit report adds the headers that have no sample yet:  *)
(* one without any value is added again by the next section that has it.   *)
ReportFields(file) ==
    LET Sampled(x) == \E y \in Same(file, x) : y[1] < x[1] /\ Sample(file, y) # "none"
    IN  [x \in {y \in Named(file) : ~Sampled(y)} |-> KindIn(file, Same(file, x))]

(* The places of the headers that are mapped, and the kind of each. The    *)
(* XML format has the headers that the code gives its tags.                *)
ExtractFields(file) ==
    CASE file.format = "csv"    -> CsvFields(file)
      [] file.format = "report" -> ReportFields(file)
      [] file.format \in {"xlsx", "xml"} -> SheetFields(file)

-----------------------------------------------------------------------------
(* Scores. *)

TypesAreCompatible(inferred, canonical) ==
    inferred = canonical \/ {inferred, canonical} = {"NUMERIC", "INTEGER"}

Proposal(f, target, confidence) ==
    [field |-> f, target |-> target, confidence |-> confidence, excluded |-> FALSE]

(* The first of three names that is one. *)
FirstOf(names) == names[Min({i \in 1 .. 3 : names[i] # Unmatched})]

(* Mutant: the aliases come before what the carrier has learnt. *)
ScoreField_aliasFirst(saved, f, kind) ==
    LET known == <<Shape[f].alias, saved[f], Shape[f].same>>
    IN  IF \E i \in 1 .. 3 : known[i] # Unmatched THEN Proposal(f, FirstOf(known), "HIGH")
        ELSE IF Shape[f].ratio >= 50 THEN Proposal(f, Shape[f].best, "LOW")
        ELSE Proposal(f, Unmatched, "UNMATCHED")

ScoreField(saved, f, kind) ==
    LET shape == Shape[f]
        typed == TypesAreCompatible(kind, TypeOf[shape.best])
        known == <<saved[f], shape.alias, shape.same>>
    IN  IF \E i \in 1 .. 3 : known[i] # Unmatched THEN Proposal(f, FirstOf(known), "HIGH")
        ELSE IF shape.ratio >= 75 /\ typed THEN Proposal(f, shape.best, "MEDIUM")
        ELSE IF shape.ratio >= 50 THEN Proposal(f, shape.best, "LOW")
        ELSE Proposal(f, Unmatched, "UNMATCHED")

ScoreAllFields(saved, file) ==
    LET kinds == ExtractFields(file)
    IN  [x \in DOMAIN kinds |-> ScoreField(saved, Header(file, x), kinds[x])]

-----------------------------------------------------------------------------
(* An upload. *)

Happens(event) == event \in scenario.events

(* The run is committed and the search_path set again, twice. *)
CreateRun(s) ==
    /\ session[s].pc = "new"
    /\ \A r \in 1 .. s - 1 : session[r].pc # "new"
    /\ session' = [session EXCEPT ![s].pc = "created"]
    /\ UNCHANGED <<tables, learnt, scenario>>

(* The table can be read while its column has the name it was created with.*)
Readable == column # "target"

(* Mutant: the search_path is what the rollback leaves. *)
LoadSavedMappings_pathLost(s) ==
    /\ session[s].pc = "created"
    /\ \E path \in {"tenant", "other"} :
          /\ Readable => path = "tenant"
          /\ session' = [session EXCEPT ![s] = [@ EXCEPT
                            !.pc = "loaded", !.path = path,
                            !.saved = IF Readable THEN maps ELSE Nothing,
                            !.promised = IF Readable THEN learnt ELSE Nothing]]
    /\ UNCHANGED <<tables, learnt, scenario>>

(* A read that fails is rolled back, which leaves any search_path, and the *)
(* path is set again; there are then no saved mappings. is_active is not   *)
(* asked for.                                                              *)
LoadSavedMappings(s) ==
    /\ session[s].pc = "created"
    /\ \E read \in {Readable} \cup (IF Happens("failures") THEN {FALSE} ELSE {}) :
          session' = [session EXCEPT ![s] = [@ EXCEPT
                         !.pc = "loaded", !.path = "tenant",
                         !.saved = IF read THEN maps ELSE Nothing,
                         !.promised = IF Readable THEN learnt ELSE Nothing]]
    /\ UNCHANGED <<tables, learnt, scenario>>

(* The session and its proposals in one transaction; anything that fails   *)
(* makes the run fail.                                                     *)
Persist(s) ==
    /\ session[s].pc = "loaded"
    /\ \/ /\ session[s].path = "tenant"
          /\ session' = [session EXCEPT ![s] = [@ EXCEPT
                !.pc = "review", !.status = "PENDING_REVIEW", !.saved = Nothing, !.promised = Nothing,
                !.proposals = ScoreAllFields(session[s].saved, scenario.files[s])]]
       \/ /\ session[s].path # "tenant" \/ Happens("failures")
          /\ session' = [session EXCEPT ![s].pc = "failed"]
    /\ UNCHANGED <<tables, learnt, scenario>>

-----------------------------------------------------------------------------
(* The review. *)

(* What an approval agrees to, and what the parsers are given. *)
Kept(proposals) == {x \in DOMAIN proposals : ~proposals[x].excluded /\ proposals[x].target # Unmatched}

InUse(proposals) ==
    {[field |-> proposals[x].field, target |-> proposals[x].target] : x \in Kept(proposals)}

Correctable(s) ==
    /\ session[s].edits < MaxEdits
    /\ \/ session[s].pc = "review"
       \/ session[s].pc \in {"saving", "queued"} /\ Happens("late_edit")

(* Mutant: the update names the field, not the proposal of the session. *)
UpdateMappingProposal_anySession(s) ==
    /\ Correctable(s)
    /\ \E i \in DOMAIN session[s].proposals :
          \E change \in [target : Targets, excluded : BOOLEAN] :
              session' = [r \in Sessions |->
                  [session[r] EXCEPT
                      !.edits = IF r = s THEN @ + 1 ELSE @,
                      !.proposals = [j \in DOMAIN @ |->
                          IF @[j].field = session[s].proposals[i].field
                          THEN [@[j] EXCEPT !.target = change.target, !.excluded = change.excluded]
                          ELSE @[j]]]]
    /\ UNCHANGED <<tables, learnt, scenario>>

(* The confidence stays and no status is looked at: a session can be       *)
(* corrected after its approval.                                           *)
UpdateMappingProposal(s) ==
    /\ Correctable(s)
    /\ \E i \in DOMAIN session[s].proposals :
          \/ \E t \in Targets :
                session' = [session EXCEPT ![s].edits = @ + 1, ![s].proposals[i].target = t]
          \/ \E x \in BOOLEAN :
                session' = [session EXCEPT ![s].edits = @ + 1, ![s].proposals[i].excluded = x]
    /\ UNCHANGED <<tables, learnt, scenario>>

ApproveMapping(s) ==
    /\ session[s].status = "PENDING_REVIEW"
    /\ session' = [session EXCEPT ![s] = [@ EXCEPT
                      !.pc = "saving", !.status = "APPROVED",
                      !.approved = InUse(session[s].proposals)]]
    /\ UNCHANGED <<tables, learnt, scenario>>

(* Whatever the status is; a pipeline goes on. *)
RejectMapping(s) ==
    /\ Happens("reject")
    /\ session[s].status \in {"PENDING_REVIEW", "APPROVED"}
    /\ session' = [session EXCEPT ![s].status = "REJECTED",
                                  ![s].pc = IF @ = "review" THEN "rejected" ELSE @]
    /\ UNCHANGED <<tables, learnt, scenario>>

(* The sure proposals are kept for the next upload. They come in no order: *)
(* of two for one field, either may be stored over the other. A row that   *)
(* cannot be stored spoils the transaction and with it the others, and the *)
(* handler goes on.                                                        *)
SaveApprovedMappings(s) ==
    LET proposals == session[s].proposals
        sure == {x \in Kept(proposals) : proposals[x].confidence = "HIGH"}
        known == {proposals[x].field : x \in sure}
    IN  /\ session[s].pc = "saving"
        /\ session' = [session EXCEPT ![s].pc = "queued"]
        /\ \E last \in [known -> Targets] :
              LET With(old) == [f \in Fields |-> IF f \in known THEN last[f] ELSE old[f]] IN
              /\ \A f \in known :
                    \E x \in sure : proposals[x].field = f /\ proposals[x].target = last[f]
              /\ learnt' = With(learnt)
              /\ \/ /\ Readable
                    /\ maps' = With(maps)
                    /\ active' = active \cup {f \in known : maps[f] = Unmatched}
                 \/ /\ ~Readable \/ Happens("failures")
                    /\ UNCHANGED <<maps, active>>
        /\ UNCHANGED <<column, scenario>>

(* The pipeline reads the proposals, not the approval; none at all fails.  *)
LoadApprovedProposals(s) ==
    LET found == InUse(session[s].proposals)
    IN  /\ session[s].pc = "queued"
        /\ session' = [session EXCEPT ![s] = [@ EXCEPT
               !.pc = IF found = {} THEN "empty" ELSE "done", !.used = found]]
        /\ UNCHANGED <<tables, learnt, scenario>>

-----------------------------------------------------------------------------
(* The administrator and the migrations. *)

(* The update needs the new name of the column; before it is there the     *)
(* request fails.                                                          *)
BulkUpsertFieldMaps ==
    /\ Happens("admin") /\ column = "target"
    /\ \E f \in Fields, t \in Targets :
          maps' = [maps EXCEPT ![f] = t] /\ active' = active \cup {f}
    /\ UNCHANGED <<column, learnt, session, scenario>>

(* Needs is_active. The row stays. *)
DeleteFieldMap ==
    /\ Happens("admin") /\ column # "canonical"
    /\ \E f \in active : active' = active \ {f}
    /\ UNCHANGED <<column, maps, learnt, session, scenario>>

(* 0006 adds is_active, TRUE in every row; 0007 and 0008 rename            *)
(* canonical_column. A new schema is brought to the last one at once.      *)
Migrate ==
    /\ Happens("migrate")
    /\ \/ /\ column = "canonical" /\ column' = "flagged"
          /\ active' = {f \in Fields : maps[f] # Unmatched}
       \/ /\ column = "flagged" /\ column' = "target"
          /\ UNCHANGED active
    /\ UNCHANGED <<maps, learnt, session, scenario>>

Next ==
    \/ \E s \in Sessions :
          \/ CreateRun(s) \/ LoadSavedMappings(s) \/ Persist(s)
          \/ UpdateMappingProposal(s) \/ ApproveMapping(s) \/ RejectMapping(s)
          \/ SaveApprovedMappings(s) \/ LoadApprovedProposals(s)
    \/ BulkUpsertFieldMaps \/ DeleteFieldMap \/ Migrate

Spec == Init /\ [][Next]_vars

-----------------------------------------------------------------------------
(* Types: an upload past its mapping has a proposal for each header that   *)
(* was extracted, whatever was corrected.                                  *)
ProposalRec == [field : Fields, target : Targets \cup {Unmatched},
                confidence : {"HIGH", "MEDIUM", "LOW", "UNMATCHED"}, excluded : BOOLEAN]

Mapped == {"review", "saving", "queued", "done", "empty", "rejected"}

SessionRec(file) ==
    [pc : {"new", "created", "loaded", "failed"} \cup Mapped, path : {"tenant", "other"},
     saved : [Fields -> Targets \cup {Unmatched}], promised : [Fields -> Targets \cup {Unmatched}],
     edits : 0 .. MaxEdits, status : {"none", "PENDING_REVIEW", "APPROVED", "REJECTED"},
     proposals : {<<>>} \cup [DOMAIN ExtractFields(file) -> ProposalRec],
     approved : SUBSET [field : Fields, target : Targets],
     used : SUBSET [field : Fields, target : Targets]]

TypeOK ==
    /\ scenario \in Scenarios
    /\ column \in Generations
    /\ maps \in [Fields -> Targets \cup {Unmatched}]
    /\ learnt \in [Fields -> Targets \cup {Unmatched}]
    /\ active \subseteq Fields
    /\ DOMAIN session = Sessions
    /\ \A s \in Sessions : session[s] \in SessionRec(scenario.files[s])

(* Headers of a file that come out more than once: those that a CSV file   *)
(* repeats and those that a section of an audit report repeats before one  *)
(* has a value for it.                                                     *)
Doubled(file) ==
    {Header(file, x) : x \in {y \in Named(file) : \E z \in Same(file, y) \ {y} :
        \/ file.format \in {"csv", "report"} /\ z[1] = y[1]
        \/ /\ file.format = "report" /\ z[1] < y[1]
           /\ \A w \in Same(file, y) : w[1] < y[1] => Sample(file, w) = "none"}}

(* An upload ends with a session to review, which proposes every header of *)
(* the file, one time but for the doubled ones: also where the saved       *)
(* mappings cannot be read, as in every schema that has been migrated, and *)
(* the failed read has taken the search_path with it                       *)
(* (auto_mapping_service.py:871-888).                                      *)
UploadIsReviewable ==
    \A s \in Sessions :
        LET file == scenario.files[s]
            proposals == session[s].proposals
            doubled == Doubled(file)
            Proposed(f) == {x \in DOMAIN proposals : proposals[x].field = f}
        IN  /\ session[s].pc = "failed" => Happens("failures")
            /\ session[s].pc \in Mapped =>
                  \A x \in Named(file) :
                      LET f == Header(file, x) IN
                      /\ Proposed(f) # {}
                      /\ f \notin doubled => \A y, z \in Proposed(f) : y = z

(* While the saved mappings can be read, what was last approved for a sure *)
(* field is what the next upload that reads them proposes for it, before   *)
(* every alias and likeness and whatever else is reviewed meanwhile; but   *)
(* not when saving or reading fails, or when an approved session is        *)
(* corrected (ingestion.py:577-630, auto_mapping_service.py:731-744).      *)
LearntIsProposed ==
    [][ \A s \in Sessions :
          session[s].pc = "loaded" /\ session'[s].pc = "review" /\ ~Happens("failures") =>
              \A x \in DOMAIN session'[s].proposals :
                  LET p == session'[s].proposals[x]
                      t == session[s].promised[p.field]
                  IN  t # Unmatched => p.target = t /\ p.confidence = "HIGH" ]_vars

(* The parsers are given the mapping that was approved: every column that  *)
(* was not excluded, with the target it had then, whatever is reviewed or  *)
(* corrected elsewhere and whatever becomes of the saved mappings; not so  *)
(* when the session itself is corrected after its approval                 *)
(* (ingestion.py:371-412, ingestion_service.py:314-326).                   *)
ReviewedIsUsed ==
    \A s \in Sessions :
        session[s].pc \in {"done", "empty"} /\ ~Happens("late_edit") =>
            session[s].used = session[s].approved
=================================================================================
