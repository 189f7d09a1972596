---------------------------- MODULE MappingProofs ----------------------------
(***************************************************************************)
(* What holds of FieldMapping for any headers, targets and files, any      *)
(* number of uploads and every event: types, a proposal for every header,  *)
(* what the carrier has learnt comes first, and the parsers are given what *)
(* was approved.                                                           *)
(***************************************************************************)
EXTENDS FieldMapping, WellFoundedInduction, TLAPS

-----------------------------------------------------------------------------
(* The headers of a file and the places that are extracted.                *)

(* The natural numbers are well-founded under <. *)
LEMMA LessThanIsWellFounded ==
    \E R : /\ IsWellFoundedOn(R, Nat)
           /\ \A x, y \in Nat : <<x, y>> \in R <=> x < y
<1>1. IsWellFoundedOn(OpToRel(<, Nat), Nat)
  BY NatLessThanWellFounded
<1>2. \A x, y \in Nat : <<x, y>> \in OpToRel(<, Nat) <=> x < y
  BY DEF OpToRel
<1> QED  BY <1>1, <1>2

(* Some numbers have a least one. *)
LEMMA LeastExists ==
    ASSUME NEW S \in SUBSET Nat, S # {}
    PROVE  \E n \in S : \A m \in S : n <= m
<1>1. PICK R : /\ IsWellFoundedOn(R, Nat)
               /\ \A x, y \in Nat : <<x, y>> \in R <=> x < y
  BY LessThanIsWellFounded
<1>2. S \subseteq Nat /\ S # {} /\ IsWellFoundedOn(R, Nat)
  BY <1>1
<1>3. PICK n \in S : \A m \in S : ~ (<<m, n>> \in R)
  BY <1>2, WFMin, Zenon
<1>4. \A m \in S : n <= m
  <2> TAKE m \in S
  <2>1. m \in Nat /\ n \in Nat
    BY <1>2
  <2>2. ~ (m < n)
    BY <1>1, <1>3, <2>1
  <2> QED  BY <2>1, <2>2
<1> QED  BY <1>4

(* A place is a pair of numbers, with a header that may be blank. *)
LEMMA PlacesTyped ==
    ASSUME NEW file, IsFile(file), NEW x \in Places(file)
    PROVE  /\ x[1] \in Nat /\ x[2] \in Nat /\ x = <<x[1], x[2]>>
           /\ Header(file, x) \in Fields \cup {""}
           /\ Sample(file, x) \in Kinds
<1> DEFINE Col == [field : Fields \cup {""}, kind : Kinds]
<1>1. file.parts \in Seq(Seq(Col))
  BY DEF IsFile
<1>2. PICK n \in DOMAIN file.parts : x \in {n} \X DOMAIN file.parts[n]
  BY DEF Places
<1>3. n \in Nat /\ file.parts[n] \in Seq(Col)
  <2> HIDE DEF Col
  <2> QED  BY <1>1, <1>2
<1>4. x[1] = n /\ x[2] \in DOMAIN file.parts[n] /\ x = <<x[1], x[2]>>
  BY <1>2
<1>5. x[2] \in Nat /\ file.parts[n][x[2]] \in Col
  <2> HIDE DEF Col
  <2> QED  BY <1>3, <1>4
<1>6. Header(file, x) = file.parts[n][x[2]].field /\ Sample(file, x) = file.parts[n][x[2]].kind
  BY <1>4 DEF Header, Sample
<1> QED  BY <1>3, <1>4, <1>5, <1>6

(* The places that are extracted, by format. *)
LEMMA ExtractedPlaces ==
    ASSUME NEW file, IsFile(file)
    PROVE  /\ file.format = "csv" => DOMAIN ExtractFields(file) = Named(file)
           /\ file.format \in {"xlsx", "xml"} =>
                 DOMAIN ExtractFields(file) = {y \in Named(file) : ~ \E z \in Same(file, y) : Before(z, y)}
           /\ file.format = "report" =>
                 DOMAIN ExtractFields(file) =
                     {y \in Named(file) :
                         ~ \E z \in Same(file, y) : z[1] < y[1] /\ Sample(file, z) # "none"}
           /\ file.format \in {"csv", "report", "xlsx", "xml"}
<1>1. /\ file.format = "csv" => ExtractFields(file) = CsvFields(file)
      /\ file.format = "report" => ExtractFields(file) = ReportFields(file)
      /\ file.format \in {"xlsx", "xml"} => ExtractFields(file) = SheetFields(file)
  BY DEF ExtractFields
<1>2. DOMAIN CsvFields(file) = Named(file)
  BY DEF CsvFields
<1>3. DOMAIN SheetFields(file) = {y \in Named(file) : ~ \E z \in Same(file, y) : Before(z, y)}
  BY DEF SheetFields
<1>4. DOMAIN ReportFields(file) =
          {y \in Named(file) : ~ \E z \in Same(file, y) : z[1] < y[1] /\ Sample(file, z) # "none"}
  BY DEF ReportFields
<1>5. file.format \in {"csv", "report", "xlsx", "xml"}
  BY DEF IsFile, Formats
<1> QED  BY <1>1, <1>2, <1>3, <1>4, <1>5

LEMMA ExtractedAreNamed ==
    ASSUME NEW file, IsFile(file)
    PROVE  DOMAIN ExtractFields(file) \subseteq Named(file)
BY ExtractedPlaces

(* The first of the places that have a header, sheet by sheet. *)
LEMMA FirstPlace ==
    ASSUME NEW file, IsFile(file), NEW x \in Named(file)
    PROVE  \E y \in Same(file, x) : \A z \in Same(file, x) :
               y[1] < z[1] \/ (y[1] = z[1] /\ y[2] <= z[2])
<1> DEFINE Sheets == {y[1] : y \in Same(file, x)}
<1>1. \A y \in Same(file, x) : y[1] \in Nat /\ y[2] \in Nat
  BY PlacesTyped DEF Same, Named
<1>2. x \in Same(file, x)
  BY DEF Same
<1>3. Sheets \in SUBSET Nat /\ Sheets # {}
  BY <1>1, <1>2
<1>4. PICK n \in Sheets : \A m \in Sheets : n <= m
  <2> HIDE DEF Sheets
  <2> QED  BY <1>3, LeastExists
<1> DEFINE Cols == {y[2] : y \in {z \in Same(file, x) : z[1] = n}}
<1>5. Cols \in SUBSET Nat /\ Cols # {}
  BY <1>1, <1>4
<1>6. PICK i \in Cols : \A j \in Cols : i <= j
  <2> HIDE DEF Cols
  <2> QED  BY <1>5, LeastExists
<1>7. PICK y \in Same(file, x) : y[1] = n /\ y[2] = i
  BY <1>6
<1>8. \A z \in Same(file, x) : y[1] < z[1] \/ (y[1] = z[1] /\ y[2] <= z[2])
  <2> TAKE z \in Same(file, x)
  <2>1. z[1] \in Nat /\ n \in Nat /\ n <= z[1]
    BY <1>1, <1>3, <1>4
  <2>2. z[1] = n => z[2] \in Cols
    OBVIOUS
  <2> QED  BY <2>1, <2>2, <1>6, <1>7
<1> QED  BY <1>8

LEMMA SameIsEquivalence ==
    ASSUME NEW file, NEW x \in Named(file), NEW y \in Same(file, x)
    PROVE  y \in Named(file) /\ Same(file, y) = Same(file, x) /\ Header(file, y) = Header(file, x)
BY DEF Same

(* No header is lost: each comes out at a place of its own. *)
LEMMA EveryHeaderIsExtracted ==
    ASSUME NEW file, IsFile(file), NEW x \in Named(file)
    PROVE  \E y \in DOMAIN ExtractFields(file) : Header(file, y) = Header(file, x)
<1>1. PICK y \in Same(file, x) : \A z \in Same(file, x) :
          y[1] < z[1] \/ (y[1] = z[1] /\ y[2] <= z[2])
  BY FirstPlace
<1>2. y \in Named(file) /\ Same(file, y) = Same(file, x) /\ Header(file, y) = Header(file, x)
  BY SameIsEquivalence
<1>3. \A z \in Same(file, x) : z[1] \in Nat /\ z[2] \in Nat
  BY PlacesTyped DEF Same, Named
<1>4. CASE file.format = "csv"
  BY <1>2, <1>4, ExtractedPlaces
<1>5. CASE file.format = "report"
  <2>1. \A z \in Same(file, y) : ~ (z[1] < y[1])
    BY <1>1, <1>2, <1>3
  <2> QED  BY <1>2, <1>5, <2>1, ExtractedPlaces
<1>6. CASE file.format \in {"xlsx", "xml"}
  <2>1. ~ \E z \in Same(file, y) : Before(z, y)
    BY <1>1, <1>2, <1>3 DEF Before
  <2> QED  BY <1>2, <1>6, <2>1, ExtractedPlaces
<1> QED  BY <1>4, <1>5, <1>6, ExtractedPlaces

(* And only the doubled ones more than once. *)
LEMMA OnlyDoubledTwice ==
    ASSUME NEW file, IsFile(file), NEW y \in DOMAIN ExtractFields(file),
           NEW z \in DOMAIN ExtractFields(file),
           Header(file, y) = Header(file, z), Header(file, y) \notin Doubled(file)
    PROVE  y = z
<1>1. /\ y \in Named(file) /\ z \in Named(file)
      /\ z \in Same(file, y) /\ y \in Same(file, z)
  BY ExtractedAreNamed DEF Same
<1>2. /\ y[1] \in Nat /\ y[2] \in Nat /\ z[1] \in Nat /\ z[2] \in Nat
      /\ y = <<y[1], y[2]>> /\ z = <<z[1], z[2]>>
  BY <1>1, PlacesTyped DEF Named
<1> SUFFICES ASSUME y # z PROVE FALSE
  OBVIOUS
<1>3. ASSUME NEW a \in Named(file), NEW b \in Same(file, a), a # b, Header(file, a) = Header(file, y),
             \/ file.format \in {"csv", "report"} /\ b[1] = a[1]
             \/ /\ file.format = "report" /\ b[1] < a[1]
                /\ \A w \in Same(file, a) : w[1] < a[1] => Sample(file, w) = "none"
      PROVE  FALSE
  BY <1>3 DEF Doubled
<1>4. CASE file.format = "csv"
  <2> DEFINE Part == Seq([field : Fields \cup {""}, kind : Kinds])
  <2>1. Len(file.parts) = 1 /\ file.parts \in Seq(Part)
    BY <1>4 DEF IsFile
  <2> HIDE DEF Part
  <2>2. DOMAIN file.parts = {1}
    BY <2>1
  <2>3. y[1] = 1 /\ z[1] = 1
    BY <1>1, <2>2 DEF Named, Places
  <2> QED  BY <1>1, <1>3, <1>4, <2>3
<1>5. CASE file.format = "report"
  <2>1. \A a \in {y, z} : ~ \E w \in Same(file, a) : w[1] < a[1] /\ Sample(file, w) # "none"
    BY <1>5, ExtractedPlaces
  <2>2. CASE y[1] = z[1]
    BY <1>1, <1>3, <1>5, <2>2
  <2>3. CASE z[1] < y[1]
    BY <1>1, <1>3, <1>5, <2>1, <2>3
  <2>4. CASE y[1] < z[1]
    BY <1>1, <1>2, <1>3, <1>5, <2>1, <2>4
  <2> QED  BY <1>2, <2>2, <2>3, <2>4
<1>6. CASE file.format \in {"xlsx", "xml"}
  <2>1. \A a \in {y, z} : ~ \E w \in Same(file, a) : Before(w, a)
    BY <1>6, ExtractedPlaces
  <2>2. ~ Before(z, y) /\ ~ Before(y, z)
    BY <1>1, <2>1
  <2> QED  BY <1>2, <2>2 DEF Before
<1> QED  BY <1>4, <1>5, <1>6, ExtractedPlaces

-----------------------------------------------------------------------------
(* Types.                                                                  *)

Names == Targets \cup {Unmatched}

LEMMA ScenarioFacts ==
    ASSUME TypeOK
    PROVE  /\ scenario \in Scenarios /\ scenario.column \in Generations
           /\ \A s \in Sessions : IsFile(scenario.files[s]) /\ s \in Nat
<1>1. scenario \in Scenarios
  BY DEF TypeOK
<1>2. /\ scenario.column \in Generations
      /\ \A s \in DOMAIN scenario.files : IsFile(scenario.files[s])
  BY <1>1, MappingAssumption DEF MappingAssumption
<1> DEFINE Files == {scenario.files[s] : s \in DOMAIN scenario.files}
<1>3. scenario.files \in Seq(Files)
  BY <1>1, MappingAssumption DEF MappingAssumption
<1>4. DOMAIN scenario.files \subseteq Nat
  <2> HIDE DEF Files
  <2> QED  BY <1>3
<1> QED  BY <1>1, <1>2, <1>4 DEF Sessions

(* The first name is one of the three, and the first of them when it is    *)
(* one.                                                                    *)
LEMMA FirstNamed ==
    ASSUME NEW names, \E i \in 1 .. 3 : names[i] # Unmatched
    PROVE  /\ \E i \in 1 .. 3 : FirstOf(names) = names[i] /\ names[i] # Unmatched
           /\ names[1] # Unmatched => FirstOf(names) = names[1]
<1> DEFINE S == {i \in 1 .. 3 : names[i] # Unmatched}
<1>1. \E i \in S : \A j \in S : i <= j
  <2>1. CASE 1 \in S
    BY <2>1
  <2>2. CASE 1 \notin S /\ 2 \in S
    BY <2>2
  <2>3. CASE 1 \notin S /\ 2 \notin S
    BY <2>3
  <2> QED  BY <2>1, <2>2, <2>3
<1>2. Min(S) \in S /\ \A j \in S : Min(S) <= j
  BY <1>1 DEF Min
<1>3. FirstOf(names) = names[Min(S)]
  BY DEF FirstOf
<1>4. 1 \in S => Min(S) = 1
  <2> SUFFICES ASSUME 1 \in S PROVE Min(S) = 1
    OBVIOUS
  <2>1. PICK m \in 1 .. 3 : m = Min(S)
    BY <1>2
  <2>2. m <= 1
    BY <1>2, <2>1
  <2> QED  BY <2>1, <2>2
<1> QED  BY <1>2, <1>3, <1>4

LEMMA ScoreTyped ==
    ASSUME NEW saved \in [Fields -> Names], NEW f \in Fields, NEW kind
    PROVE  /\ ScoreField(saved, f, kind) \in ProposalRec
           /\ ScoreField(saved, f, kind).field = f
           /\ saved[f] # Unmatched =>
                 /\ ScoreField(saved, f, kind).target = saved[f]
                 /\ ScoreField(saved, f, kind).confidence = "HIGH"
<1> DEFINE known == <<saved[f], Shape[f].alias, Shape[f].same>>
           P(t, c) == Proposal(f, t, c)
<1>1. /\ saved[f] \in Names /\ Shape[f].alias \in Names /\ Shape[f].same \in Names
      /\ Shape[f].best \in Targets
  BY MappingAssumption DEF MappingAssumption, Names
<1>2. ASSUME NEW t \in Names, NEW c \in {"HIGH", "MEDIUM", "LOW", "UNMATCHED"}
      PROVE  /\ P(t, c) \in ProposalRec /\ P(t, c).field = f /\ P(t, c).target = t
             /\ P(t, c).confidence = c
  BY DEF Proposal, ProposalRec, Names
<1>3. known[1] = saved[f] /\ known[2] = Shape[f].alias /\ known[3] = Shape[f].same
  OBVIOUS
<1>4. CASE \E i \in 1 .. 3 : known[i] # Unmatched
  <2>1. /\ \E i \in 1 .. 3 : FirstOf(known) = known[i]
        /\ known[1] # Unmatched => FirstOf(known) = known[1]
    BY <1>4, FirstNamed
  <2>2. FirstOf(known) \in Names
    BY <2>1, <1>1, <1>3
  <2>3. ScoreField(saved, f, kind) = P(FirstOf(known), "HIGH")
    BY <1>4 DEF ScoreField
  <2> HIDE DEF P, known
  <2> QED  BY <2>1, <2>2, <2>3, <1>2, <1>3
<1>5. CASE ~ \E i \in 1 .. 3 : known[i] # Unmatched
  <2>1. ScoreField(saved, f, kind) \in
            {P(Shape[f].best, "MEDIUM"), P(Shape[f].best, "LOW"), P(Unmatched, "UNMATCHED")}
    BY <1>5 DEF ScoreField
  <2>2. saved[f] = Unmatched
    BY <1>3, <1>5
  <2>3. Shape[f].best \in Names /\ Unmatched \in Names
    BY <1>1 DEF Names
  <2> HIDE DEF P, known
  <2> QED  BY <2>1, <2>2, <2>3, <1>2
<1> QED  BY <1>4, <1>5

(* A mapping proposes something for every place that is extracted. *)
LEMMA ScoresTyped ==
    ASSUME NEW saved \in [Fields -> Names], NEW file, IsFile(file)
    PROVE  /\ ScoreAllFields(saved, file) \in [DOMAIN ExtractFields(file) -> ProposalRec]
           /\ \A x \in DOMAIN ExtractFields(file) :
                 /\ Header(file, x) \in Fields
                 /\ ScoreAllFields(saved, file)[x] =
                        ScoreField(saved, Header(file, x), ExtractFields(file)[x])
<1>1. \A x \in DOMAIN ExtractFields(file) : Header(file, x) \in Fields
  BY ExtractedAreNamed DEF Named
<1>2. \A x \in DOMAIN ExtractFields(file) :
          ScoreField(saved, Header(file, x), ExtractFields(file)[x]) \in ProposalRec
  BY <1>1, ScoreTyped
<1> QED  BY <1>1, <1>2 DEF ScoreAllFields

LEMMA InUseTyped ==
    ASSUME NEW D, NEW proposals \in {<<>>} \cup [D -> ProposalRec]
    PROVE  /\ Kept(proposals) \subseteq D
           /\ InUse(proposals) \in SUBSET [field : Fields, target : Targets]
<1>1. \A x \in DOMAIN proposals : x \in D /\ proposals[x] \in ProposalRec
  OBVIOUS
<1>2. \A x \in Kept(proposals) : proposals[x].field \in Fields /\ proposals[x].target \in Targets
  BY <1>1 DEF Kept, ProposalRec
<1> QED  BY <1>1, <1>2 DEF InUse, Kept

(* What a session that changes takes the place of. *)
LEMMA OneSession ==
    ASSUME TypeOK, NEW s \in Sessions, NEW v,
           session' = [session EXCEPT ![s] = v], scenario' = scenario
    PROVE  /\ Sessions' = Sessions /\ DOMAIN session' = Sessions
           /\ session'[s] = v
           /\ \A r \in Sessions : r # s => session'[r] = session[r]
           /\ v \in SessionRec(scenario.files[s]) =>
                 \A r \in Sessions : session'[r] \in SessionRec(scenario'.files[r])
BY DEF TypeOK, Sessions

LEMMA SessionsStay ==
    ASSUME TypeOK, session' = session, scenario' = scenario
    PROVE  /\ Sessions' = Sessions /\ DOMAIN session' = Sessions
           /\ \A r \in Sessions : session'[r] \in SessionRec(scenario'.files[r])
BY DEF TypeOK, Sessions

LEMMA MappingTypesInit == Init => TypeOK
<1> SUFFICES ASSUME Init PROVE TypeOK
  OBVIOUS
<1>1. scenario \in Scenarios /\ column \in Generations
  BY MappingAssumption DEF Init, MappingAssumption
<1>2. Nothing \in [Fields -> Targets \cup {Unmatched}]
  BY DEF Nothing
<1>3. \A s \in Sessions : New \in SessionRec(scenario.files[s])
  BY <1>2, MappingAssumption DEF MappingAssumption, New, SessionRec
<1> QED  BY <1>1, <1>2, <1>3 DEF Init, TypeOK

LEMMA UploadKeepsTypes ==
    ASSUME TypeOK, NEW s \in Sessions, CreateRun(s) \/ LoadSavedMappings(s) \/ Persist(s)
    PROVE  TypeOK'
<1> DEFINE file == scenario.files[s]
<1>1. /\ session[s] \in SessionRec(file) /\ IsFile(file)
      /\ maps \in [Fields -> Names] /\ learnt \in [Fields -> Names] /\ Nothing \in [Fields -> Names]
  BY ScenarioFacts DEF TypeOK, Names, Nothing
<1>2. \E v \in SessionRec(file) : session' = [session EXCEPT ![s] = v]
  <2>1. CASE CreateRun(s)
    <3>1. session' = [session EXCEPT ![s] = [session[s] EXCEPT !.pc = "created"]]
      BY <2>1 DEF CreateRun
    <3>2. [session[s] EXCEPT !.pc = "created"] \in SessionRec(file)
      BY <1>1 DEF SessionRec
    <3> QED  BY <3>1, <3>2
  <2>2. CASE LoadSavedMappings(s)
    <3>1. PICK saved \in [Fields -> Names], promised \in [Fields -> Names] :
             session' = [session EXCEPT ![s] = [session[s] EXCEPT
                 !.pc = "loaded", !.path = "tenant", !.saved = saved, !.promised = promised]]
      <4>1. PICK read \in {Readable} \cup (IF Happens("failures") THEN {FALSE} ELSE {}) :
               session' = [session EXCEPT ![s] = [session[s] EXCEPT
                 !.pc = "loaded", !.path = "tenant",
                 !.saved = IF read THEN maps ELSE Nothing,
                 !.promised = IF Readable THEN learnt ELSE Nothing]]
        BY <2>2 DEF LoadSavedMappings
      <4>2. (IF read THEN maps ELSE Nothing) \in [Fields -> Names]
        BY <1>1
      <4>3. (IF Readable THEN learnt ELSE Nothing) \in [Fields -> Names]
        BY <1>1
      <4> QED  BY <4>1, <4>2, <4>3
    <3>2. [session[s] EXCEPT !.pc = "loaded", !.path = "tenant", !.saved = saved, !.promised = promised]
              \in SessionRec(file)
      BY <1>1 DEF SessionRec, Names
    <3> QED  BY <3>1, <3>2
  <2>3. CASE Persist(s)
    <3> DEFINE proposals == ScoreAllFields(session[s].saved, file)
               reviewed == [session[s] EXCEPT !.pc = "review", !.status = "PENDING_REVIEW",
                               !.saved = Nothing, !.promised = Nothing, !.proposals = proposals]
    <3>1. session' \in {[session EXCEPT ![s] = reviewed],
                        [session EXCEPT ![s] = [session[s] EXCEPT !.pc = "failed"]]}
      BY <2>3 DEF Persist
    <3>2. session[s].saved \in [Fields -> Names]
      BY <1>1 DEF SessionRec, Names
    <3>3. proposals \in [DOMAIN ExtractFields(file) -> ProposalRec]
      BY <1>1, <3>2, ScoresTyped
    <3>4. reviewed \in SessionRec(file)
      <4> HIDE DEF proposals
      <4> QED  BY <1>1, <3>3 DEF SessionRec, Mapped, Names
    <3>5. [session[s] EXCEPT !.pc = "failed"] \in SessionRec(file)
      BY <1>1 DEF SessionRec
    <3> QED  BY <3>1, <3>4, <3>5
  <2> QED  BY <2>1, <2>2, <2>3
<1>3. UNCHANGED <<column, maps, active, learnt, scenario>>
  BY DEF CreateRun, LoadSavedMappings, Persist, tables
<1> QED  BY <1>2, <1>3, OneSession DEF TypeOK

LEMMA ReviewKeepsTypes ==
    ASSUME TypeOK, NEW s \in Sessions,
           \/ UpdateMappingProposal(s) \/ ApproveMapping(s) \/ RejectMapping(s)
           \/ LoadApprovedProposals(s)
    PROVE  TypeOK'
<1> DEFINE file == scenario.files[s]
           D == DOMAIN ExtractFields(file)
<1>1. session[s] \in SessionRec(file)
  BY DEF TypeOK
<1>2. /\ session[s].proposals \in {<<>>} \cup [D -> ProposalRec] /\ session[s].edits \in 0 .. MaxEdits
      /\ InUse(session[s].proposals) \in SUBSET [field : Fields, target : Targets]
  <2>1. session[s].proposals \in {<<>>} \cup [D -> ProposalRec] /\ session[s].edits \in 0 .. MaxEdits
    BY <1>1 DEF SessionRec
  <2> HIDE DEF D
  <2>2. InUse(session[s].proposals) \in SUBSET [field : Fields, target : Targets]
    BY <2>1, InUseTyped
  <2> QED  BY <2>1, <2>2
<1>3. \E v \in SessionRec(file) : session' = [session EXCEPT ![s] = v]
  <2>1. CASE UpdateMappingProposal(s)
    <3>1. PICK q \in [D -> ProposalRec] :
              session' = [session EXCEPT ![s] = [session[s] EXCEPT !.edits = @ + 1, !.proposals = q]]
      <4>1. PICK i \in DOMAIN session[s].proposals :
                \/ \E t \in Targets :
                      session' = [session EXCEPT ![s].edits = @ + 1, ![s].proposals[i].target = t]
                \/ \E x \in BOOLEAN :
                      session' = [session EXCEPT ![s].edits = @ + 1, ![s].proposals[i].excluded = x]
        BY <2>1 DEF UpdateMappingProposal
      <4>2. session[s].proposals \in [D -> ProposalRec] /\ i \in D
        <5> HIDE DEF D
        <5>1. DOMAIN <<>> = {}
          OBVIOUS
        <5>2. session[s].proposals # <<>>
          BY <4>1, <5>1
        <5> QED  BY <1>2, <4>1, <5>2
      <4>3. session[s].proposals[i] \in ProposalRec
        BY <4>2
      <4>4. ASSUME NEW t \in Targets
            PROVE  [session[s].proposals EXCEPT ![i].target = t] \in [D -> ProposalRec]
        <5>1. [session[s].proposals[i] EXCEPT !.target = t] \in ProposalRec
          BY <4>3 DEF ProposalRec
        <5> QED  BY <5>1, <4>2
      <4>5. ASSUME NEW x \in BOOLEAN
            PROVE  [session[s].proposals EXCEPT ![i].excluded = x] \in [D -> ProposalRec]
        <5>1. [session[s].proposals[i] EXCEPT !.excluded = x] \in ProposalRec
          BY <4>3 DEF ProposalRec
        <5> QED  BY <5>1, <4>2
      <4>6. ASSUME NEW t \in Targets,
                   session' = [session EXCEPT ![s].edits = @ + 1, ![s].proposals[i].target = t]
            PROVE  session' = [session EXCEPT ![s] = [session[s] EXCEPT !.edits = @ + 1,
                                  !.proposals = [session[s].proposals EXCEPT ![i].target = t]]]
        BY <4>6
      <4>7. ASSUME NEW x \in BOOLEAN,
                   session' = [session EXCEPT ![s].edits = @ + 1, ![s].proposals[i].excluded = x]
            PROVE  session' = [session EXCEPT ![s] = [session[s] EXCEPT !.edits = @ + 1,
                                  !.proposals = [session[s].proposals EXCEPT ![i].excluded = x]]]
        BY <4>7
      <4> QED  BY <4>1, <4>4, <4>5, <4>6, <4>7
    <3>2. session[s].edits + 1 \in 0 .. MaxEdits
      <4>1. session[s].edits \in 0 .. MaxEdits /\ MaxEdits \in Nat
        BY <1>2, MappingAssumption DEF MappingAssumption
      <4>2. session[s].edits < MaxEdits
        BY <2>1 DEF UpdateMappingProposal, Correctable
      <4> QED  BY <4>1, <4>2
    <3>3. [session[s] EXCEPT !.edits = @ + 1, !.proposals = q] \in SessionRec(file)
      BY <1>1, <3>2 DEF SessionRec
    <3> QED  BY <3>1, <3>3
  <2>2. CASE ApproveMapping(s)
    <3>1. session' = [session EXCEPT ![s] = [session[s] EXCEPT
                      !.pc = "saving", !.status = "APPROVED", !.approved = InUse(session[s].proposals)]]
      BY <2>2 DEF ApproveMapping
    <3>2. [session[s] EXCEPT !.pc = "saving", !.status = "APPROVED",
                             !.approved = InUse(session[s].proposals)] \in SessionRec(file)
      BY <1>1, <1>2 DEF SessionRec, Mapped
    <3> QED  BY <3>1, <3>2
  <2>3. CASE RejectMapping(s)
    <3> DEFINE pc == IF session[s].pc = "review" THEN "rejected" ELSE session[s].pc
    <3>1. session' = [session EXCEPT ![s] = [session[s] EXCEPT !.status = "REJECTED", !.pc = pc]]
      BY <2>3 DEF RejectMapping
    <3>2. [session[s] EXCEPT !.status = "REJECTED", !.pc = pc] \in SessionRec(file)
      BY <1>1 DEF SessionRec, Mapped
    <3> QED  BY <3>1, <3>2
  <2>4. CASE LoadApprovedProposals(s)
    <3> DEFINE found == InUse(session[s].proposals)
               pc == IF found = {} THEN "empty" ELSE "done"
    <3>1. session' = [session EXCEPT ![s] = [session[s] EXCEPT !.pc = pc, !.used = found]]
      BY <2>4 DEF LoadApprovedProposals
    <3>2. [session[s] EXCEPT !.pc = pc, !.used = found] \in SessionRec(file)
      BY <1>1, <1>2 DEF SessionRec, Mapped
    <3> QED  BY <3>1, <3>2
  <2> QED  BY <2>1, <2>2, <2>3, <2>4
<1>4. UNCHANGED <<column, maps, active, learnt, scenario>>
  BY DEF UpdateMappingProposal, ApproveMapping, RejectMapping, LoadApprovedProposals, tables
<1> QED  BY <1>3, <1>4, OneSession DEF TypeOK

(* What SaveApprovedMappings stores for the sure fields of a session. *)
Sure(s) == {x \in Kept(session[s].proposals) : session[s].proposals[x].confidence = "HIGH"}

Known(s) == {session[s].proposals[x].field : x \in Sure(s)}

Over(known, old, new) == [f \in Fields |-> IF f \in known THEN new[f] ELSE old[f]]

LEMMA SaveStores ==
    ASSUME TypeOK, NEW s \in Sessions, SaveApprovedMappings(s)
    PROVE  /\ Known(s) \subseteq Fields
           /\ \E last \in [Known(s) -> Targets] :
                 /\ learnt' = Over(Known(s), learnt, last)
                 /\ \/ /\ Readable
                       /\ maps' = Over(Known(s), maps, last)
                       /\ active' = active \cup {f \in Known(s) : maps[f] = Unmatched}
                    \/ /\ ~Readable \/ Happens("failures")
                       /\ UNCHANGED <<maps, active>>
           /\ session[s].pc = "saving"
           /\ session' = [session EXCEPT ![s] = [session[s] EXCEPT !.pc = "queued"]]
           /\ UNCHANGED <<column, scenario>>
<1>1. session[s].proposals \in {<<>>} \cup [DOMAIN ExtractFields(scenario.files[s]) -> ProposalRec]
  BY DEF TypeOK, SessionRec
<1>2. Known(s) \subseteq Fields
  BY <1>1 DEF Known, Sure, Kept, ProposalRec
<1>3. \E last \in [Known(s) -> Targets] :
         /\ learnt' = Over(Known(s), learnt, last)
         /\ \/ /\ Readable
               /\ maps' = Over(Known(s), maps, last)
               /\ active' = active \cup {f \in Known(s) : maps[f] = Unmatched}
            \/ /\ ~Readable \/ Happens("failures")
               /\ UNCHANGED <<maps, active>>
  BY Zenon DEF SaveApprovedMappings, Known, Sure, Over
<1>4. session[s].pc = "saving" /\ session' = [session EXCEPT ![s].pc = "queued"]
  BY Zenon DEF SaveApprovedMappings
<1>5. UNCHANGED <<column, scenario>>
  BY Zenon DEF SaveApprovedMappings
<1> QED  BY <1>2, <1>3, <1>4, <1>5

LEMMA SaveKeepsTypes ==
    ASSUME TypeOK, NEW s \in Sessions, SaveApprovedMappings(s)
    PROVE  TypeOK'
<1>1. session[s] \in SessionRec(scenario.files[s])
  BY DEF TypeOK
<1>2. [session[s] EXCEPT !.pc = "queued"] \in SessionRec(scenario.files[s])
  BY <1>1 DEF SessionRec, Mapped
<1>3. /\ DOMAIN session' = Sessions' /\ scenario' = scenario
      /\ \A r \in Sessions' : session'[r] \in SessionRec(scenario'.files[r])
  BY <1>2, SaveStores, OneSession
<1>4. ASSUME NEW old \in [Fields -> Names], NEW new \in [Known(s) -> Targets]
      PROVE  Over(Known(s), old, new) \in [Fields -> Names]
  BY DEF Over, Names
<1>5. maps' \in [Fields -> Names] /\ learnt' \in [Fields -> Names] /\ active' \subseteq Fields
  BY <1>4, SaveStores DEF TypeOK, Names
<1> QED  BY <1>3, <1>5, SaveStores DEF TypeOK, Names

LEMMA AdministratorKeepsTypes ==
    ASSUME TypeOK, BulkUpsertFieldMaps \/ DeleteFieldMap \/ Migrate
    PROVE  TypeOK'
<1>1. /\ UNCHANGED <<session, scenario, learnt>> /\ maps' \in [Fields -> Targets \cup {Unmatched}]
      /\ active' \subseteq Fields /\ column' \in Generations
  <2>1. CASE BulkUpsertFieldMaps
    BY <2>1 DEF BulkUpsertFieldMaps, TypeOK
  <2>2. CASE DeleteFieldMap
    BY <2>2 DEF DeleteFieldMap, TypeOK
  <2>3. CASE Migrate
    BY <2>3 DEF Migrate, TypeOK, Generations
  <2> QED  BY <2>1, <2>2, <2>3
<1> QED  BY <1>1, SessionsStay DEF TypeOK

LEMMA MappingTypesInductive == TypeOK /\ [Next]_vars => TypeOK'
<1> SUFFICES ASSUME TypeOK, [Next]_vars PROVE TypeOK'
  OBVIOUS
<1>1. CASE UNCHANGED vars
  BY <1>1 DEF vars, TypeOK, Sessions
<1>2. ASSUME NEW s \in Sessions, CreateRun(s) \/ LoadSavedMappings(s) \/ Persist(s)
      PROVE  TypeOK'
  BY <1>2, UploadKeepsTypes
<1>3. ASSUME NEW s \in Sessions,
             \/ UpdateMappingProposal(s) \/ ApproveMapping(s) \/ RejectMapping(s)
             \/ LoadApprovedProposals(s)
      PROVE  TypeOK'
  BY <1>3, ReviewKeepsTypes
<1>4. ASSUME NEW s \in Sessions, SaveApprovedMappings(s)
      PROVE  TypeOK'
  BY <1>4, SaveKeepsTypes
<1>5. CASE BulkUpsertFieldMaps \/ DeleteFieldMap \/ Migrate
  BY <1>5, AdministratorKeepsTypes
<1> QED  BY <1>1, <1>2, <1>3, <1>4, <1>5 DEF Next

(* Uploads, proposals, the saved mappings and the approvals keep their     *)
(* types, whatever the files have in them and whatever fails.              *)
THEOREM MappingTypeCorrect == Spec => []TypeOK
BY MappingTypesInit, MappingTypesInductive, PTL DEF Spec

-----------------------------------------------------------------------------
(* An upload between its steps. Before the review: the search_path is that *)
(* of the tenant, and what is saved is what was learnt unless something    *)
(* failed. From the review on: a proposal for each place, and without late *)
(* edits those that were approved.                                         *)

Loaded(x) ==
    /\ x.pc = "loaded" => /\ x.path = "tenant"
                          /\ ~Happens("failures") => x.saved = x.promised
    /\ x.pc = "failed" => Happens("failures")

Proposing(x, file) ==
    /\ x.status = "PENDING_REVIEW" <=> x.pc = "review"
    /\ x.status # "none" => x.pc \in Mapped
    /\ x.pc \in Mapped =>
          /\ DOMAIN x.proposals = DOMAIN ExtractFields(file)
          /\ \A i \in DOMAIN x.proposals : x.proposals[i].field = Header(file, i)

Agreed(x) ==
    ~Happens("late_edit") => /\ x.pc \in {"saving", "queued"} => InUse(x.proposals) = x.approved
                             /\ x.pc \in {"done", "empty"} => x.used = x.approved

(* The table keeps what was approved until its column is renamed. *)
Learning == ~Happens("failures") /\ Readable => maps = learnt

MappingIInv ==
    /\ Learning
    /\ \A s \in Sessions : /\ Loaded(session[s])
                           /\ Proposing(session[s], scenario.files[s])
                           /\ Agreed(session[s])

LEMMA MappingInit == Init => MappingIInv
<1> SUFFICES ASSUME Init PROVE MappingIInv
  OBVIOUS
<1>1. Learning
  BY DEF Init, Learning
<1>2. ASSUME NEW s \in Sessions
      PROVE  /\ Loaded(session[s]) /\ Agreed(session[s])
             /\ Proposing(session[s], scenario.files[s])
  <2>1. session[s] = New
    BY DEF Init
  <2>2. New.pc = "new" /\ New.status = "none"
    BY DEF New
  <2> QED  BY <2>1, <2>2 DEF Loaded, Agreed, Proposing, Mapped
<1> QED  BY <1>1, <1>2 DEF MappingIInv

LEMMA OneSessionGoesOn ==
    ASSUME TypeOK, MappingIInv, Learning', NEW s \in Sessions, NEW v,
           session' = [session EXCEPT ![s] = v], scenario' = scenario,
           Loaded(v), Proposing(v, scenario.files[s]), Agreed(v)
    PROVE  MappingIInv'
<1>1. /\ Sessions' = Sessions /\ session'[s] = v
      /\ \A r \in Sessions : r # s => session'[r] = session[r]
  BY OneSession
<1>2. \A x : /\ Loaded(x)' <=> Loaded(x)
             /\ Agreed(x)' <=> Agreed(x)
  BY DEF Loaded, Agreed, Happens
<1>3. ASSUME NEW r \in Sessions
      PROVE  /\ Loaded(session'[r]) /\ Agreed(session'[r])
             /\ Proposing(session'[r], scenario.files[r])
  BY <1>1, <1>3 DEF MappingIInv
<1>4. ASSUME NEW r \in Sessions
      PROVE  Loaded(session[r])' /\ Agreed(session[r])' /\ Proposing(session[r], scenario.files[r])'
  BY <1>3 DEF Loaded, Agreed, Proposing, Happens
<1> QED  BY <1>1, <1>4 DEF MappingIInv

LEMMA SessionsGoOn ==
    ASSUME MappingIInv, Learning', UNCHANGED <<session, scenario>>
    PROVE  MappingIInv'
BY DEF MappingIInv, Sessions, Loaded, Agreed, Proposing, Happens

LEMMA CreateGoesOn ==
    ASSUME TypeOK, MappingIInv, NEW s \in Sessions, CreateRun(s)
    PROVE  MappingIInv'
<1> DEFINE v == [session[s] EXCEPT !.pc = "created"]
<1>1. session[s] \in SessionRec(scenario.files[s]) /\ Proposing(session[s], scenario.files[s])
  BY DEF TypeOK, MappingIInv
<1>2. session' = [session EXCEPT ![s] = v] /\ session[s].pc = "new"
  BY DEF CreateRun
<1>3. v.pc = "created" /\ v.status = session[s].status
  BY <1>1 DEF SessionRec
<1>4. session[s].status = "none"
  BY <1>1, <1>2 DEF Proposing, Mapped
<1>5. Loaded(v) /\ Agreed(v) /\ Proposing(v, scenario.files[s])
  BY <1>3, <1>4 DEF Loaded, Agreed, Proposing, Mapped
<1>6. Learning'
  BY DEF CreateRun, MappingIInv, Learning, tables, Happens, Readable
<1> QED  BY <1>2, <1>5, <1>6, OneSessionGoesOn DEF CreateRun

LEMMA LoadGoesOn ==
    ASSUME TypeOK, MappingIInv, NEW s \in Sessions, LoadSavedMappings(s)
    PROVE  MappingIInv'
<1>1. session[s] \in SessionRec(scenario.files[s]) /\ Proposing(session[s], scenario.files[s])
  BY DEF TypeOK, MappingIInv
<1>2. PICK read \in {Readable} \cup (IF Happens("failures") THEN {FALSE} ELSE {}) :
          session' = [session EXCEPT ![s] = [session[s] EXCEPT
                         !.pc = "loaded", !.path = "tenant",
                         !.saved = IF read THEN maps ELSE Nothing,
                         !.promised = IF Readable THEN learnt ELSE Nothing]]
  BY DEF LoadSavedMappings
<1> DEFINE saved == IF read THEN maps ELSE Nothing
           promised == IF Readable THEN learnt ELSE Nothing
           v == [session[s] EXCEPT !.pc = "loaded", !.path = "tenant", !.saved = saved,
                                   !.promised = promised]
<1>3. /\ v.pc = "loaded" /\ v.path = "tenant" /\ v.saved = saved /\ v.promised = promised
      /\ v.status = session[s].status
  BY <1>1 DEF SessionRec
<1>4. ~Happens("failures") => saved = promised
  BY <1>2 DEF MappingIInv, Learning, Readable
<1>5. session[s].status = "none"
  BY <1>1 DEF LoadSavedMappings, Proposing, Mapped
<1>6. Loaded(v) /\ Agreed(v) /\ Proposing(v, scenario.files[s])
  <2> HIDE DEF v, saved, promised
  <2> QED  BY <1>3, <1>4, <1>5 DEF Loaded, Agreed, Proposing, Mapped
<1>7. Learning'
  BY DEF LoadSavedMappings, MappingIInv, Learning, tables, Happens, Readable
<1> QED  BY <1>2, <1>6, <1>7, OneSessionGoesOn DEF LoadSavedMappings

LEMMA PersistGoesOn ==
    ASSUME TypeOK, MappingIInv, NEW s \in Sessions, Persist(s)
    PROVE  MappingIInv'
<1> DEFINE file == scenario.files[s]
           proposals == ScoreAllFields(session[s].saved, file)
<1>1. /\ session[s] \in SessionRec(file) /\ IsFile(file) /\ session[s].saved \in [Fields -> Names]
      /\ Proposing(session[s], file) /\ Loaded(session[s]) /\ Agreed(session[s])
  BY ScenarioFacts DEF TypeOK, MappingIInv, SessionRec, Names
<1>2. /\ proposals \in [DOMAIN ExtractFields(file) -> ProposalRec]
      /\ \A x \in DOMAIN ExtractFields(file) : proposals[x].field = Header(file, x)
  <2>1. \A x \in DOMAIN ExtractFields(file) :
           ScoreField(session[s].saved, Header(file, x), ExtractFields(file)[x]).field = Header(file, x)
    BY <1>1, ScoresTyped, ScoreTyped
  <2> QED  BY <1>1, <2>1, ScoresTyped
<1>3. Learning'
  BY DEF Persist, MappingIInv, Learning, tables, Happens, Readable
<1>4. CASE session[s].path = "tenant" /\ session' = [session EXCEPT ![s] = [session[s] EXCEPT
                !.pc = "review", !.status = "PENDING_REVIEW", !.saved = Nothing, !.promised = Nothing,
                !.proposals = proposals]]
  <2> DEFINE v == [session[s] EXCEPT !.pc = "review", !.status = "PENDING_REVIEW",
                       !.saved = Nothing, !.promised = Nothing, !.proposals = proposals]
  <2>1. v.pc = "review" /\ v.status = "PENDING_REVIEW" /\ v.proposals = proposals
    <3> HIDE DEF proposals
    <3> QED  BY <1>1 DEF SessionRec
  <2>2. Loaded(v) /\ Agreed(v) /\ Proposing(v, file)
    <3> HIDE DEF v, proposals
    <3> QED  BY <1>2, <2>1 DEF Loaded, Agreed, Proposing, Mapped
  <2> HIDE DEF proposals
  <2> QED  BY <1>3, <1>4, <2>2, OneSessionGoesOn DEF Persist
<1>5. CASE /\ session[s].path # "tenant" \/ Happens("failures")
           /\ session' = [session EXCEPT ![s].pc = "failed"]
  <2> DEFINE v == [session[s] EXCEPT !.pc = "failed"]
  <2>1. v.pc = "failed" /\ v.status = session[s].status
    BY <1>1 DEF SessionRec
  <2>2. session[s].pc = "loaded"
    BY DEF Persist
  <2>3. session[s].status = "none" /\ Happens("failures")
    BY <1>1, <1>5, <2>2 DEF Proposing, Loaded, Mapped
  <2>4. Loaded(v) /\ Agreed(v) /\ Proposing(v, file)
    <3> HIDE DEF v
    <3> QED  BY <2>1, <2>3 DEF Loaded, Agreed, Proposing, Mapped
  <2> QED  BY <1>3, <1>5, <2>4, OneSessionGoesOn DEF Persist
<1> QED  BY <1>4, <1>5 DEF Persist

LEMMA CorrectionGoesOn ==
    ASSUME TypeOK, MappingIInv, NEW s \in Sessions, UpdateMappingProposal(s)
    PROVE  MappingIInv'
<1> DEFINE file == scenario.files[s]
           old == session[s].proposals
<1>1. /\ session[s] \in SessionRec(file)
      /\ Proposing(session[s], file) /\ Loaded(session[s]) /\ Agreed(session[s])
  BY DEF TypeOK, MappingIInv
<1>2. /\ session[s].pc = "review" \/ Happens("late_edit")
      /\ session[s].pc \in {"review", "saving", "queued"}
  BY DEF UpdateMappingProposal, Correctable
<1>3. \A i \in DOMAIN old : old[i] \in ProposalRec
  BY <1>1 DEF SessionRec
<1>4. PICK q : /\ session' = [session EXCEPT ![s] = [session[s] EXCEPT !.edits = @ + 1, !.proposals = q]]
               /\ DOMAIN q = DOMAIN old /\ \A j \in DOMAIN old : q[j].field = old[j].field
  <2>1. PICK i \in DOMAIN old :
            \/ \E t \in Targets :
                  session' = [session EXCEPT ![s].edits = @ + 1, ![s].proposals[i].target = t]
            \/ \E x \in BOOLEAN :
                  session' = [session EXCEPT ![s].edits = @ + 1, ![s].proposals[i].excluded = x]
    BY DEF UpdateMappingProposal
  <2>2. ASSUME NEW t \in Targets,
               session' = [session EXCEPT ![s].edits = @ + 1, ![s].proposals[i].target = t]
        PROVE  \E q : /\ session' = [session EXCEPT ![s] = [session[s] EXCEPT !.edits = @ + 1, !.proposals = q]]
                      /\ DOMAIN q = DOMAIN old /\ \A j \in DOMAIN old : q[j].field = old[j].field
    <3> DEFINE q == [old EXCEPT ![i].target = t]
    <3>1. session' = [session EXCEPT ![s] = [session[s] EXCEPT !.edits = @ + 1, !.proposals = q]]
      BY <2>2
    <3>2. DOMAIN q = DOMAIN old /\ \A j \in DOMAIN old : q[j].field = old[j].field
      BY <1>3, <2>1 DEF ProposalRec
    <3> QED  BY <3>1, <3>2
  <2>3. ASSUME NEW x \in BOOLEAN,
               session' = [session EXCEPT ![s].edits = @ + 1, ![s].proposals[i].excluded = x]
        PROVE  \E q : /\ session' = [session EXCEPT ![s] = [session[s] EXCEPT !.edits = @ + 1, !.proposals = q]]
                      /\ DOMAIN q = DOMAIN old /\ \A j \in DOMAIN old : q[j].field = old[j].field
    <3> DEFINE q == [old EXCEPT ![i].excluded = x]
    <3>1. session' = [session EXCEPT ![s] = [session[s] EXCEPT !.edits = @ + 1, !.proposals = q]]
      BY <2>3
    <3>2. DOMAIN q = DOMAIN old /\ \A j \in DOMAIN old : q[j].field = old[j].field
      BY <1>3, <2>1 DEF ProposalRec
    <3> QED  BY <3>1, <3>2
  <2> QED  BY <2>1, <2>2, <2>3
<1> DEFINE v == [session[s] EXCEPT !.edits = @ + 1, !.proposals = q]
<1>5. v.pc = session[s].pc /\ v.status = session[s].status /\ v.proposals = q
  BY <1>1 DEF SessionRec
<1>6. Loaded(v) /\ Agreed(v) /\ Proposing(v, file)
  <2> HIDE DEF v
  <2>1. Loaded(v)
    BY <1>2, <1>5 DEF Loaded
  <2>2. Agreed(v)
    BY <1>2, <1>5 DEF Agreed
  <2>3. Proposing(v, file)
    BY <1>1, <1>4, <1>5 DEF Proposing
  <2> QED  BY <2>1, <2>2, <2>3
<1>7. Learning'
  BY DEF UpdateMappingProposal, MappingIInv, Learning, tables, Happens, Readable
<1> QED  BY <1>4, <1>6, <1>7, OneSessionGoesOn DEF UpdateMappingProposal

LEMMA DecisionGoesOn ==
    ASSUME TypeOK, MappingIInv, NEW s \in Sessions,
           \/ ApproveMapping(s) \/ RejectMapping(s) \/ LoadApprovedProposals(s)
    PROVE  MappingIInv'
<1> DEFINE file == scenario.files[s]
<1>1. /\ session[s] \in SessionRec(file)
      /\ Proposing(session[s], file) /\ Loaded(session[s]) /\ Agreed(session[s])
  BY DEF TypeOK, MappingIInv
<1>2. scenario' = scenario /\ Learning'
  BY DEF ApproveMapping, RejectMapping, LoadApprovedProposals, MappingIInv, Learning, tables,
         Happens, Readable
<1>3. \E v : /\ session' = [session EXCEPT ![s] = v]
             /\ Loaded(v) /\ Agreed(v) /\ Proposing(v, file)
  <2>1. CASE ApproveMapping(s)
    <3> DEFINE v == [session[s] EXCEPT !.pc = "saving", !.status = "APPROVED",
                                       !.approved = InUse(session[s].proposals)]
    <3>1. session' = [session EXCEPT ![s] = v] /\ session[s].status = "PENDING_REVIEW"
      BY <2>1 DEF ApproveMapping
    <3>2. /\ v.pc = "saving" /\ v.status = "APPROVED" /\ v.proposals = session[s].proposals
          /\ v.approved = InUse(session[s].proposals)
      BY <1>1 DEF SessionRec
    <3>3. Loaded(v) /\ Agreed(v) /\ Proposing(v, file)
      <4> HIDE DEF v
      <4> QED  BY <1>1, <3>1, <3>2 DEF Loaded, Agreed, Proposing, Mapped
    <3> QED  BY <3>1, <3>3
  <2>2. CASE RejectMapping(s)
    <3> DEFINE pc == IF session[s].pc = "review" THEN "rejected" ELSE session[s].pc
               v  == [session[s] EXCEPT !.status = "REJECTED", !.pc = pc]
    <3>1. session' = [session EXCEPT ![s] = v] /\ session[s].status \in {"PENDING_REVIEW", "APPROVED"}
      BY <2>2 DEF RejectMapping
    <3>2. /\ v.pc = pc /\ v.status = "REJECTED" /\ v.proposals = session[s].proposals
          /\ v.approved = session[s].approved /\ v.used = session[s].used
      BY <1>1 DEF SessionRec
    <3>3. session[s].pc \in Mapped /\ pc \in Mapped \ {"review"}
          /\ (pc = session[s].pc \/ pc = "rejected")
      BY <1>1, <3>1 DEF Proposing, Mapped
    <3>4. Loaded(v)
      <4> HIDE DEF v, pc
      <4> QED  BY <3>2, <3>3 DEF Loaded, Mapped
    <3>5. Agreed(v)
      <4> HIDE DEF v, pc
      <4> QED  BY <1>1, <3>2, <3>3 DEF Agreed, Mapped
    <3>6. Proposing(v, file)
      <4> HIDE DEF v, pc
      <4> QED  BY <1>1, <3>2, <3>3 DEF Proposing, Mapped
    <3> QED  BY <3>1, <3>4, <3>5, <3>6
  <2>3. CASE LoadApprovedProposals(s)
    <3> DEFINE found == InUse(session[s].proposals)
               pc == IF found = {} THEN "empty" ELSE "done"
               v  == [session[s] EXCEPT !.pc = pc, !.used = found]
    <3>1. session' = [session EXCEPT ![s] = v] /\ session[s].pc = "queued"
      BY <2>3 DEF LoadApprovedProposals
    <3>2. /\ v.pc = pc /\ v.used = found /\ v.proposals = session[s].proposals
          /\ v.approved = session[s].approved /\ v.status = session[s].status
      BY <1>1 DEF SessionRec
    <3>3. pc \in {"empty", "done"}
      OBVIOUS
    <3>4. Loaded(v)
      <4> HIDE DEF v, pc, found
      <4> QED  BY <3>2, <3>3 DEF Loaded
    <3>5. Agreed(v)
      <4> HIDE DEF v, pc
      <4> QED  BY <1>1, <3>1, <3>2, <3>3 DEF Agreed
    <3>6. Proposing(v, file)
      <4> HIDE DEF v, pc, found
      <4> QED  BY <1>1, <3>1, <3>2, <3>3 DEF Proposing, Mapped
    <3> QED  BY <3>1, <3>4, <3>5, <3>6
  <2> QED  BY <2>1, <2>2, <2>3
<1> QED  BY <1>2, <1>3, OneSessionGoesOn

LEMMA SaveGoesOn ==
    ASSUME TypeOK, MappingIInv, NEW s \in Sessions, SaveApprovedMappings(s)
    PROVE  MappingIInv'
<1> DEFINE file == scenario.files[s]
           v == [session[s] EXCEPT !.pc = "queued"]
<1>1. /\ session[s] \in SessionRec(file)
      /\ Proposing(session[s], file) /\ Agreed(session[s])
  BY DEF TypeOK, MappingIInv
<1>2. /\ session[s].pc = "saving" /\ session' = [session EXCEPT ![s] = v]
      /\ UNCHANGED <<column, scenario>>
  BY SaveStores
<1>3. /\ v.pc = "queued" /\ v.status = session[s].status /\ v.proposals = session[s].proposals
      /\ v.approved = session[s].approved
  BY <1>1 DEF SessionRec
<1>4. Loaded(v) /\ Agreed(v) /\ Proposing(v, file)
  <2> HIDE DEF v
  <2> QED  BY <1>1, <1>2, <1>3 DEF Loaded, Agreed, Proposing, Mapped
<1>5. Learning'
  BY <1>2, SaveStores DEF MappingIInv, Learning, Readable, Happens
<1> QED  BY <1>2, <1>4, <1>5, OneSessionGoesOn

LEMMA MappingInductive == TypeOK /\ MappingIInv /\ [Next]_vars => MappingIInv'
<1> SUFFICES ASSUME TypeOK, MappingIInv, [Next]_vars PROVE MappingIInv'
  OBVIOUS
<1>1. CASE UNCHANGED vars
  <2>1. Learning' /\ UNCHANGED <<session, scenario>>
    BY <1>1 DEF vars, MappingIInv, Learning, Readable, Happens
  <2> QED  BY <2>1, SessionsGoOn
<1>2. ASSUME NEW s \in Sessions, CreateRun(s) \/ LoadSavedMappings(s) \/ Persist(s)
      PROVE  MappingIInv'
  BY <1>2, CreateGoesOn, LoadGoesOn, PersistGoesOn
<1>3. ASSUME NEW s \in Sessions, UpdateMappingProposal(s)
      PROVE  MappingIInv'
  BY <1>3, CorrectionGoesOn
<1>4. ASSUME NEW s \in Sessions,
             ApproveMapping(s) \/ RejectMapping(s) \/ LoadApprovedProposals(s)
      PROVE  MappingIInv'
  BY <1>4, DecisionGoesOn
<1>5. ASSUME NEW s \in Sessions, SaveApprovedMappings(s)
      PROVE  MappingIInv'
  BY <1>5, SaveGoesOn
<1>6. CASE BulkUpsertFieldMaps \/ DeleteFieldMap \/ Migrate
  <2>1. UNCHANGED <<session, scenario>>
    BY <1>6 DEF BulkUpsertFieldMaps, DeleteFieldMap, Migrate
  <2>2. Learning'
    BY <1>6 DEF BulkUpsertFieldMaps, DeleteFieldMap, Migrate, MappingIInv, Learning, Readable, Happens
  <2> QED  BY <2>1, <2>2, SessionsGoOn
<1> QED  BY <1>1, <1>2, <1>3, <1>4, <1>5, <1>6 DEF Next

LEMMA MappingInvariant == Spec => [](TypeOK /\ MappingIInv)
<1>1. Init => TypeOK /\ MappingIInv
  BY MappingTypesInit, MappingInit
<1>2. TypeOK /\ MappingIInv /\ [Next]_vars => (TypeOK /\ MappingIInv)'
  BY MappingTypesInductive, MappingInductive
<1> QED  BY <1>1, <1>2, PTL DEF Spec

-----------------------------------------------------------------------------
(* The properties.                                                         *)

(* Every upload ends with a session that proposes each header of its file, *)
(* one time but for the doubled ones, or fails because something failed;   *)
(* also where the saved mappings cannot be read, for any files.            *)
THEOREM UploadsAreReviewable == Spec => []UploadIsReviewable
<1>1. TypeOK /\ MappingIInv => UploadIsReviewable
  <2> SUFFICES ASSUME TypeOK, MappingIInv, NEW s \in Sessions
               PROVE  /\ session[s].pc = "failed" => Happens("failures")
                      /\ session[s].pc \in Mapped =>
                            \A x \in Named(scenario.files[s]) :
                                /\ \E y \in DOMAIN session[s].proposals :
                                      session[s].proposals[y].field = Header(scenario.files[s], x)
                                /\ Header(scenario.files[s], x) \notin Doubled(scenario.files[s]) =>
                                      \A y, z \in DOMAIN session[s].proposals :
                                          /\ session[s].proposals[y].field = Header(scenario.files[s], x)
                                          /\ session[s].proposals[z].field = Header(scenario.files[s], x)
                                          => y = z
    BY DEF UploadIsReviewable
  <2> DEFINE file == scenario.files[s]
             proposals == session[s].proposals
  <2>1. IsFile(file) /\ Loaded(session[s]) /\ Proposing(session[s], file)
    BY ScenarioFacts DEF MappingIInv
  <2>2. session[s].pc = "failed" => Happens("failures")
    BY <2>1 DEF Loaded
  <2>3. ASSUME session[s].pc \in Mapped, NEW x \in Named(file)
        PROVE  /\ \E y \in DOMAIN proposals : proposals[y].field = Header(file, x)
               /\ Header(file, x) \notin Doubled(file) =>
                     \A y, z \in DOMAIN proposals :
                         /\ proposals[y].field = Header(file, x)
                         /\ proposals[z].field = Header(file, x)
                         => y = z
    <3>1. /\ DOMAIN proposals = DOMAIN ExtractFields(file)
          /\ \A y \in DOMAIN proposals : proposals[y].field = Header(file, y)
      BY <2>1, <2>3 DEF Proposing
    <3> HIDE DEF proposals, file
    <3>2. \E y \in DOMAIN ExtractFields(file) : Header(file, y) = Header(file, x)
      BY <2>1, <2>3, EveryHeaderIsExtracted
    <3>3. ASSUME Header(file, x) \notin Doubled(file), NEW y \in DOMAIN proposals,
                 NEW z \in DOMAIN proposals,
                 proposals[y].field = Header(file, x), proposals[z].field = Header(file, x)
          PROVE  y = z
      <4>1. Header(file, y) = Header(file, x) /\ Header(file, z) = Header(file, x)
        BY <3>1, <3>3
      <4> QED  BY <2>1, <3>1, <3>3, <4>1, OnlyDoubledTwice
    <3> QED  BY <3>1, <3>2, <3>3
  <2> QED  BY <2>2, <2>3
<1> QED  BY <1>1, MappingInvariant, PTL

(* The parsers are given the mapping that was approved, for any number of  *)
(* uploads reviewed side by side and whatever becomes of the saved         *)
(* mappings, unless the session is corrected after its approval.           *)
THEOREM ReviewedMappingIsUsed == Spec => []ReviewedIsUsed
<1>1. MappingIInv => ReviewedIsUsed
  BY DEF MappingIInv, Agreed, ReviewedIsUsed
<1> QED  BY <1>1, MappingInvariant, PTL

(* What was last approved for a sure field is what the next upload         *)
(* proposes for it while the saved mappings can be read, unless saving or  *)
(* reading fails or an approved session is corrected.                      *)
THEOREM LearntMappingIsProposed == Spec => LearntIsProposed
<1>1. ASSUME TypeOK, MappingIInv, [Next]_vars, NEW s \in Sessions,
             session[s].pc = "loaded", session'[s].pc = "review", ~Happens("failures"),
             NEW x \in DOMAIN session'[s].proposals,
             session[s].promised[session'[s].proposals[x].field] # Unmatched
      PROVE  /\ session'[s].proposals[x].target = session[s].promised[session'[s].proposals[x].field]
             /\ session'[s].proposals[x].confidence = "HIGH"
  <2> DEFINE file == scenario.files[s]
             saved == session[s].saved
             f == Header(file, x)
  <2>1. /\ session[s] \in SessionRec(file) /\ IsFile(file) /\ saved \in [Fields -> Names]
        /\ saved = session[s].promised
    BY <1>1, ScenarioFacts DEF TypeOK, MappingIInv, SessionRec, Names, Loaded
  <2>2. Persist(s)
    <3>1. Sessions = DOMAIN session
      BY <1>1 DEF TypeOK
    <3>2. session' # session
      BY <1>1
    <3>3. PICK r \in Sessions :
             \/ CreateRun(r) \/ LoadSavedMappings(r) \/ Persist(r)
             \/ UpdateMappingProposal(r) \/ ApproveMapping(r) \/ RejectMapping(r)
             \/ SaveApprovedMappings(r) \/ LoadApprovedProposals(r)
      BY <1>1, <3>2 DEF Next, vars, BulkUpsertFieldMaps, DeleteFieldMap, Migrate
    <3>4. \A q \in Sessions : q # r => session'[q] = session[q]
      <4>1. CASE CreateRun(r) \/ LoadSavedMappings(r) \/ Persist(r)
        BY <3>1, <4>1 DEF CreateRun, LoadSavedMappings, Persist
      <4>2. CASE UpdateMappingProposal(r)
        BY <3>1, <4>2 DEF UpdateMappingProposal
      <4>3. CASE ApproveMapping(r) \/ RejectMapping(r) \/ LoadApprovedProposals(r)
        BY <3>1, <4>3 DEF ApproveMapping, RejectMapping, LoadApprovedProposals
      <4>4. CASE SaveApprovedMappings(r)
        BY <1>1, <3>1, <4>4, SaveStores
      <4> QED  BY <3>3, <4>1, <4>2, <4>3, <4>4
    <3>5. r = s
      BY <1>1, <3>4
    <3>6. session[s].status = "none"
      BY <1>1 DEF MappingIInv, Proposing, Mapped
    <3>7. ~LoadSavedMappings(s) /\ ~CreateRun(s)
      BY <1>1 DEF CreateRun, LoadSavedMappings
    <3>8. ~UpdateMappingProposal(s) /\ ~SaveApprovedMappings(s) /\ ~LoadApprovedProposals(s)
      BY <1>1 DEF UpdateMappingProposal, Correctable, SaveApprovedMappings, LoadApprovedProposals
    <3>9. ~ApproveMapping(s) /\ ~RejectMapping(s)
      BY <3>6 DEF ApproveMapping, RejectMapping
    <3> QED  BY <3>3, <3>5, <3>7, <3>8, <3>9
  <2>3. session'[s].proposals = ScoreAllFields(saved, file)
    <3>1. \/ session' = [session EXCEPT ![s] = [session[s] EXCEPT
                !.pc = "review", !.status = "PENDING_REVIEW", !.saved = Nothing, !.promised = Nothing,
                !.proposals = ScoreAllFields(saved, file)]]
          \/ session' = [session EXCEPT ![s].pc = "failed"]
      BY <2>2 DEF Persist
    <3> HIDE DEF saved, file
    <3>2. s \in DOMAIN session
      BY <1>1 DEF TypeOK
    <3>3. session'[s].pc = "review"
      BY <1>1
    <3> QED  BY <2>1, <3>1, <3>2, <3>3 DEF SessionRec
  <2>4. /\ x \in DOMAIN ExtractFields(file) /\ f \in Fields
        /\ session'[s].proposals[x] = ScoreField(saved, f, ExtractFields(file)[x])
    BY <1>1, <2>1, <2>3, ScoresTyped
  <2> HIDE DEF f, saved, file
  <2>5. session'[s].proposals[x].field = f
    BY <2>1, <2>4, ScoreTyped
  <2>6. saved[f] # Unmatched
    BY <1>1, <2>1, <2>5
  <2> QED  BY <2>1, <2>4, <2>5, <2>6, ScoreTyped
<1>2. TypeOK /\ MappingIInv /\ [Next]_vars =>
         \A s \in Sessions :
           session[s].pc = "loaded" /\ session'[s].pc = "review" /\ ~Happens("failures") =>
               \A x \in DOMAIN session'[s].proposals :
                   LET p == session'[s].proposals[x]
                       t == session[s].promised[p.field]
                   IN  t # Unmatched => p.target = t /\ p.confidence = "HIGH"
  BY <1>1
<1>3. TypeOK /\ MappingIInv /\ [Next]_vars =>
         [ \A s \in Sessions :
           session[s].pc = "loaded" /\ session'[s].pc = "review" /\ ~Happens("failures") =>
               \A x \in DOMAIN session'[s].proposals :
                   LET p == session'[s].proposals[x]
                       t == session[s].promised[p.field]
                   IN  t # Unmatched => p.target = t /\ p.confidence = "HIGH" ]_vars
  BY <1>2
<1> QED  BY <1>3, MappingInvariant, PTL DEF Spec, LearntIsProposed

=============================================================================
