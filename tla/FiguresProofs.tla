---------------------------- MODULE FiguresProofs ----------------------------
(***************************************************************************)
(* What holds of AuditFigures for any policies, files, runs, audits and    *)
(* events: types, nothing stays of a run that was rolled back, the         *)
(* received reports and the risk are those of the newest file, and a       *)
(* percentage is of the amounts beside it.                                 *)
(***************************************************************************)
EXTENDS AuditFigures, FiniteSetTheorems, WellFoundedInduction, TLAPS

-----------------------------------------------------------------------------
(* Finite sets and numbers.                                                *)

LEMMA StrictSubsets ==
    ASSUME NEW S, IsFiniteSet(S)
    PROVE  \E R : /\ IsWellFoundedOn(R, FiniteSubsetsOf(S))
                  /\ \A U, V \in SUBSET S : U \subseteq V /\ U # V => <<U, V>> \in R
<1>1. \A U, V \in SUBSET S : U \subseteq V /\ U # V => <<U, V>> \in StrictSubsetOrdering(S)
  BY DEF StrictSubsetOrdering
<1> QED  BY <1>1, FS_StrictSubsetOrderingWellFounded

(* Of finitely many numbers one is the greatest. *)
LEMMA GreatestExists ==
    ASSUME NEW S, IsFiniteSet(S), S # {}, NEW f, \A x \in S : f[x] \in Int
    PROVE  \E x \in S : \A y \in S : f[y] <= f[x]
<1> DEFINE HasGreatest(U) == \E x \in U : \A y \in U : f[y] <= f[x]
           Bad == {U \in FiniteSubsetsOf(S) : U # {} /\ ~HasGreatest(U)}
<1> SUFFICES ASSUME ~HasGreatest(S) PROVE FALSE
  OBVIOUS
<1>1. PICK R : /\ IsWellFoundedOn(R, FiniteSubsetsOf(S))
               /\ \A U, V \in SUBSET S : U \subseteq V /\ U # V => <<U, V>> \in R
  BY StrictSubsets
<1>2. Bad \subseteq FiniteSubsetsOf(S) /\ Bad # {}
  <2>1. S \in Bad
    BY DEF FiniteSubsetsOf
  <2> QED  BY <2>1
<1>3. PICK U \in Bad : \A V \in Bad : ~ (<<V, U>> \in R)
  <2>1. IsWellFoundedOn(R, FiniteSubsetsOf(S))
    BY <1>1
  <2> HIDE DEF Bad
  <2> QED  BY <1>2, <2>1, WFMin
<1>4. U \in SUBSET S /\ IsFiniteSet(U) /\ U # {} /\ ~HasGreatest(U)
  BY <1>3 DEF FiniteSubsetsOf
<1>5. PICK u \in U : TRUE
  BY <1>4
<1> DEFINE V == U \ {u}
<1>6. V \in SUBSET S /\ IsFiniteSet(V) /\ V \subseteq U /\ V # U
  BY <1>4, <1>5, FS_RemoveElement
<1>7. V \notin Bad
  BY <1>1, <1>3, <1>4, <1>6
<1>8. V = {} \/ HasGreatest(V)
  BY <1>6, <1>7 DEF FiniteSubsetsOf
<1>9. HasGreatest(U)
  <2>1. CASE V = {}
    <3>1. U = {u}
      BY <1>5, <2>1
    <3>2. f[u] \in Int
      BY <1>4, <1>5
    <3> QED  BY <3>1, <3>2
  <2>2. CASE HasGreatest(V)
    <3>1. PICK v \in V : \A y \in V : f[y] <= f[v]
      BY <2>2
    <3>2. f[u] \in Int /\ f[v] \in Int /\ \A y \in V : f[y] \in Int
      BY <1>4, <1>5, <1>6, <3>1
    <3>3. \A y \in U : y = u \/ y \in V
      OBVIOUS
    <3>4. CASE f[u] <= f[v]
      BY <3>1, <3>3, <3>4, <1>6
    <3>5. CASE f[v] <= f[u]
      <4>1. \A y \in V : f[y] <= f[u]
        BY <3>1, <3>2, <3>5
      <4> QED  BY <1>5, <3>2, <3>3, <4>1
    <3> QED  BY <3>2, <3>4, <3>5
  <2> QED  BY <1>8, <2>1, <2>2
<1> QED  BY <1>4, <1>9

(* What Max and Min are of some numbers that are finitely many. *)
LEMMA MaxIsGreatest ==
    ASSUME NEW S, IsFiniteSet(S), S \subseteq Int, S # {}
    PROVE  Max(S) \in S /\ \A y \in S : y <= Max(S)
<1> DEFINE f == [x \in S |-> x]
<1>1. \A x \in S : f[x] \in Int
  OBVIOUS
<1>2. \E x \in S : \A y \in S : f[y] <= f[x]
  <2> HIDE DEF f
  <2> QED  BY <1>1, GreatestExists
<1>3. \E x \in S : \A y \in S : x >= y
  BY <1>2
<1>4. Max(S) \in S /\ \A y \in S : Max(S) >= y
  BY <1>3 DEF Max
<1> QED  BY <1>4

LEMMA MinIsLeast ==
    ASSUME NEW S, IsFiniteSet(S), S \subseteq Int, S # {}
    PROVE  Min(S) \in S
<1> DEFINE f == [x \in S |-> -x]
<1>1. \A x \in S : f[x] \in Int
  OBVIOUS
<1>2. \E x \in S : \A y \in S : f[y] <= f[x]
  <2> HIDE DEF f
  <2> QED  BY <1>1, GreatestExists
<1>3. \E x \in S : \A y \in S : x <= y
  BY <1>2
<1> QED  BY <1>3 DEF Min

LEMMA Sizes ==
    /\ MaxPolicies \in Nat /\ MaxRuns \in Nat /\ MaxTasks \in Nat
    /\ Policies \subseteq Nat /\ Runs \subseteq Nat /\ NoRun \notin Runs /\ 0 \notin Policies
    /\ Runs \subseteq Tasks /\ Policies # {} /\ Runs # {}
    /\ IsFiniteSet(Policies) /\ IsFiniteSet(Runs) /\ IsFiniteSet(Policies \X Runs)
<1>1. MaxPolicies \in Nat \ {0} /\ MaxRuns \in Nat \ {0} /\ MaxTasks \in Nat
  BY FactsAssumption DEF FactsAssumption
<1>2. IsFiniteSet(Policies) /\ IsFiniteSet(Runs)
  BY <1>1, FS_Interval DEF Policies, Runs
<1>3. IsFiniteSet(Policies \X Runs)
  BY <1>2, FS_Product
<1>4. 1 \in Policies /\ 1 \in Runs
  BY <1>1 DEF Policies, Runs
<1>5. /\ Policies \subseteq Nat /\ Runs \subseteq Nat /\ NoRun \notin Runs /\ 0 \notin Policies
      /\ Runs \subseteq Tasks
  BY <1>1 DEF Policies, Runs, Tasks, NoRun
<1> QED  BY <1>1, <1>2, <1>3, <1>4, <1>5

(* Numbered rows of each run are finitely many. *)
LEMMA RowsAreFinite ==
    ASSUME NEW n, \A r \in Runs : n[r] \in Nat
    PROVE  IsFiniteSet(UNION {{r} \X (1 .. n[r]) : r \in Runs})
<1>1. PICK q \in Runs : \A r \in Runs : n[r] <= n[q]
  <2>1. \A r \in Runs : n[r] \in Int
    OBVIOUS
  <2> QED  BY <2>1, Sizes, GreatestExists
<1>2. IsFiniteSet(Runs \X (1 .. n[q]))
  <2>1. IsFiniteSet(1 .. n[q])
    BY FS_Interval
  <2> QED  BY <2>1, Sizes, FS_Product
<1>3. UNION {{r} \X (1 .. n[r]) : r \in Runs} \subseteq Runs \X (1 .. n[q])
  BY <1>1
<1> QED  BY <1>2, <1>3, FS_Subset

-----------------------------------------------------------------------------
(* Files, rows and figures.                                                *)

LEMMA FileTypes ==
    ASSUME scenario \in Scenarios
    PROVE  /\ DOMAIN scenario.files \subseteq Runs
           /\ \A r \in DOMAIN scenario.files : File(r) \in FileRec
           /\ scenario.threshold \in Nat
<1>1. /\ Len(scenario.files) <= MaxRuns /\ scenario.files \in Seq(FileRec)
      /\ scenario.threshold \in Nat
  BY FactsAssumption DEF FactsAssumption
<1>2. DOMAIN scenario.files = 1 .. Len(scenario.files) /\ Len(scenario.files) \in Nat
  <2> HIDE DEF FileRec
  <2> QED  BY <1>1
<1>3. \A r \in DOMAIN scenario.files : scenario.files[r] \in FileRec
  <2> HIDE DEF FileRec
  <2> QED  BY <1>1
<1>4. DOMAIN scenario.files \subseteq Runs
  BY <1>1, <1>2, Sizes DEF Runs
<1> QED  BY <1>1, <1>3, <1>4 DEF File

LEMMA DivTyped ==
    ASSUME NEW a \in Int, NEW b \in Nat \ {0}
    PROVE  /\ a \div b \in Int
           /\ a \in Nat => a \div b \in Nat
OBVIOUS

LEMMA RateTypes ==
    ASSUME NEW freq, NEW dated
    PROVE  /\ Annual(freq) \in Nat \ {0} /\ CycleDays(freq) \in Nat \ {0}
           /\ Elapsed(freq, dated) \in Nat
           /\ \A amount \in Nat : ToDate(amount, freq, dated) \in Nat
<1>1. Annual(freq) \in {52, 26, 24, 12} /\ CycleDays(freq) \in {7, 14, 15, 30}
  BY DEF Annual, CycleDays
<1>2. Annual(freq) \in Nat \ {0} /\ CycleDays(freq) \in Nat \ {0}
  BY <1>1
<1>3. Today \in Nat
  BY FactsAssumption DEF FactsAssumption
<1> DEFINE days == CycleDays(freq)
           so_far == CASE freq \in {"Weekly", "Bi-Weekly"} -> (2 * Today + days) \div (2 * days)
                       [] freq = "Semi-Monthly" -> 2 * (Today \div 30)
                       [] OTHER -> Today \div 30
<1>4. so_far \in Nat
  <2>1. (2 * Today + days) \div (2 * days) \in Nat
    <3>1. 2 * Today + days \in Nat /\ 2 * days \in Nat \ {0}
      BY <1>2, <1>3
    <3> HIDE DEF days
    <3> QED  BY <3>1, DivTyped
  <2>2. Today \div 30 \in Nat /\ 2 * (Today \div 30) \in Nat
    BY <1>3, DivTyped
  <2> HIDE DEF days
  <2> QED  BY <2>1, <2>2
<1>5. Elapsed(freq, dated) = IF dated THEN AtMost(AtLeastOne(so_far), Annual(freq)) ELSE Annual(freq)
  BY DEF Elapsed
<1>6. Elapsed(freq, dated) \in Nat
  <2> HIDE DEF so_far
  <2> QED  BY <1>2, <1>4, <1>5 DEF AtMost, AtLeastOne
<1>7. ASSUME NEW amount \in Nat
      PROVE  ToDate(amount, freq, dated) \in Nat
  <2>1. amount \div Annual(freq) \in Nat
    BY <1>2, DivTyped
  <2>2. \A m, n \in Nat : m * n \in Nat
    OBVIOUS
  <2> QED  BY <1>6, <2>1, <2>2 DEF ToDate
<1> QED  BY <1>2, <1>6, <1>7

LEMMA ShareTypes ==
    ASSUME NEW a \in Nat, NEW b \in Nat
    PROVE  Share(a, b) \in Int
<1>1. CASE b = 0
  BY <1>1 DEF Share, None
<1>2. CASE b # 0
  <2>1. a * 100 \in Int /\ b \in Nat \ {0}
    BY <1>2
  <2> QED  BY <1>2, <2>1, DivTyped DEF Share
<1> QED  BY <1>1, <1>2

LEMMA PctTypes ==
    ASSUME NEW row \in PremiumRec
    PROVE  Pct(row) \in Int
<1>1. row.est \in Nat /\ row.act \in Nat
  BY DEF PremiumRec
<1>2. CASE row.id = 0 \/ row.est = 0
  BY <1>2 DEF Pct, None
<1>3. CASE ~ (row.id = 0 \/ row.est = 0)
  <2>1. (row.act - row.est) * 100 \in Int /\ row.est \in Nat \ {0}
    BY <1>1, <1>3
  <2> QED  BY <1>3, <2>1, DivTyped DEF Pct
<1> QED  BY <1>2, <1>3

LEMMA ReportedTypes ==
    ASSUME NEW p, NEW row \in PayrollRec
    PROVE  ReportedAmount(p, row) \in Nat /\ ReportedShare(p, row) \in Int
<1>1. row.est \in Nat /\ row.rep \in Nat
  BY DEF PayrollRec
<1> DEFINE est == ToDate(row.est, policy[p].freq, policy[p].dated)
<1>2. est \in Nat
  BY <1>1, RateTypes
<1>3. /\ ReportedAmount(p, row) = IF row.rep = row.est THEN est ELSE row.rep
      /\ ReportedShare(p, row) = Share(IF row.rep = row.est THEN est ELSE row.rep, est)
  BY DEF ReportedAmount, ReportedShare
<1> HIDE DEF est
<1> QED  BY <1>1, <1>2, <1>3, ShareTypes

LEMMA MissingTypes ==
    ASSUME pvp \in Table(PayrollRec), missing \in Table(Nat), NEW p \in Policies
    PROVE  Received(p) \in Nat /\ MissingRows(p) \in Nat /\ MissingCount(p) \in Nat
<1>1. IsFiniteSet({r \in Runs : pvp[p][r].row})
  BY Sizes, FS_Subset
<1>2. IsFiniteSet(UNION {{r} \X (1 .. pvp[p][r].periods) : r \in Runs})
  <2> DEFINE n == [r \in Runs |-> pvp[p][r].periods]
  <2>1. \A r \in Runs : n[r] = pvp[p][r].periods /\ n[r] \in Nat
    BY DEF Table, PayrollRec
  <2> HIDE DEF n
  <2>2. IsFiniteSet(UNION {{r} \X (1 .. n[r]) : r \in Runs})
    BY <2>1, RowsAreFinite
  <2>3. UNION {{r} \X (1 .. n[r]) : r \in Runs} = UNION {{r} \X (1 .. pvp[p][r].periods) : r \in Runs}
    BY <2>1
  <2> QED  BY <2>2, <2>3
<1>3. IsFiniteSet(UNION {{r} \X (1 .. missing[p][r]) : r \in Runs})
  <2> DEFINE n == [r \in Runs |-> missing[p][r]]
  <2>1. \A r \in Runs : n[r] = missing[p][r] /\ n[r] \in Nat
    BY DEF Table
  <2> HIDE DEF n
  <2>2. IsFiniteSet(UNION {{r} \X (1 .. n[r]) : r \in Runs})
    BY <2>1, RowsAreFinite
  <2>3. UNION {{r} \X (1 .. n[r]) : r \in Runs} = UNION {{r} \X (1 .. missing[p][r]) : r \in Runs}
    BY <2>1
  <2> QED  BY <2>2, <2>3
<1>4. Received(p) \in Nat
  BY <1>1, <1>2, FS_CardinalityType DEF Received
<1>5. MissingRows(p) \in Nat
  BY <1>3, FS_CardinalityType DEF MissingRows
<1>6. MissingPeriods(p) \in Nat
  <2> DEFINE cycle == CycleDays(policy[p].freq)
             expected == AtLeastOne(TermDays \div cycle)
             Overdue(i) == LET days == Today - cycle * i IN days <= 0 \/ 2 * days > 3 * cycle
             late == {i \in Received(p) .. expected - 1 : Overdue(i)}
  <2>1. expected \in Nat
    <3>1. cycle \in Nat \ {0} /\ TermDays \in Nat
      BY RateTypes, FactsAssumption DEF FactsAssumption
    <3>2. TermDays \div cycle \in Nat
      BY <3>1, DivTyped
    <3> HIDE DEF cycle
    <3> QED  BY <3>2 DEF AtLeastOne
  <2>2. IsFiniteSet(Received(p) .. expected - 1)
    <3> HIDE DEF expected
    <3> QED  BY <1>4, <2>1, FS_Interval
  <2>3. IsFiniteSet(late)
    BY <2>2, FS_Subset
  <2>4. Cardinality(late) \in Nat
    BY <2>3, FS_CardinalityType
  <2>5. MissingPeriods(p) = IF ~policy[p].dated \/ policy[p].freq = "none" THEN 0 ELSE Cardinality(late)
    BY Zenon DEF MissingPeriods
  <2> HIDE DEF late
  <2> QED  BY <2>4, <2>5
<1> QED  BY <1>4, <1>5, <1>6 DEF MissingCount

(* The next identity is above every one that is there. *)
LEMMA NextIdIsNew ==
    ASSUME pv \in Table(PremiumRec)
    PROVE  NextId \in Nat \ {0} /\ \A p \in Policies, r \in Runs : pv[p][r].id < NextId
<1> DEFINE Cell == Policies \X Runs
           f == [c \in Cell |-> pv[c[1]][c[2]].id]
           ids == {pv[c[1]][c[2]].id : c \in Cell}
<1>1. \A p \in Policies, r \in Runs : pv[p][r].id \in Nat
  BY DEF Table, PremiumRec
<1>2. \A c \in Cell : c[1] \in Policies /\ c[2] \in Runs /\ f[c] = pv[c[1]][c[2]].id
  OBVIOUS
<1>3. \A c \in Cell : pv[c[1]][c[2]].id \in Nat /\ f[c] \in Int
  BY <1>1, <1>2
<1>4. Cell # {} /\ IsFiniteSet(Cell)
  <2>1. PICK p \in Policies, r \in Runs : TRUE
    BY Sizes
  <2>2. <<p, r>> \in Cell
    OBVIOUS
  <2> QED  BY <2>2, Sizes
<1>5. PICK c \in Cell : \A d \in Cell : f[d] <= f[c]
  <2> HIDE DEF f, Cell
  <2> QED  BY <1>3, <1>4, GreatestExists
<1>6. \E x \in ids : \A y \in ids : x >= y
  <2>1. \A d \in Cell : pv[c[1]][c[2]].id >= pv[d[1]][d[2]].id
    <3> HIDE DEF f, Cell
    <3> QED  BY <1>2, <1>3, <1>5
  <2> HIDE DEF Cell
  <2> QED  BY <2>1
<1>7. Max(ids) \in ids /\ \A y \in ids : Max(ids) >= y
  BY <1>6 DEF Max
<1>8. Max(ids) \in Nat /\ \A d \in Cell : pv[d[1]][d[2]].id \in Nat /\ Max(ids) >= pv[d[1]][d[2]].id
  <2> HIDE DEF Cell, f
  <2> QED  BY <1>3, <1>7
<1>9. NextId = 1 + Max(ids)
  BY DEF NextId
<1>10. ASSUME NEW p \in Policies, NEW r \in Runs
       PROVE  pv[p][r].id \in Nat /\ Max(ids) >= pv[p][r].id
  <2>1. <<p, r>> \in Cell
    OBVIOUS
  <2> HIDE DEF ids, Cell
  <2> QED  BY <2>1, <1>8
<1> HIDE DEF ids
<1> QED  BY <1>8, <1>9, <1>10

LEMMA NewIdIsNew ==
    ASSUME pv \in Table(PremiumRec), NEW f, f.policies \subseteq Policies, NEW p
    PROVE  NewId(f, p) \in Nat \ {0} /\ NewId(f, p) >= NextId
<1>1. IsFiniteSet({q \in f.policies : q < p})
  BY Sizes, FS_Subset
<1>2. Cardinality({q \in f.policies : q < p}) \in Nat
  BY <1>1, FS_CardinalityType
<1> QED  BY <1>2, NextIdIsNew DEF NewId

-----------------------------------------------------------------------------
(* Types. A task that works knows its run, and its policy is one that is   *)
(* left to do; a run that started has a file.                              *)

Working(t) == task[t].pc \notin {"none", "done"}

TaskKnown ==
    \A t \in Tasks : Working(t) =>
        /\ task[t].run \in Runs
        /\ task[t].pc \in {"zero", "missing", "risk", "persist"} => task[t].policy \in task[t].todo
        /\ task[t].pc \in {"read", "narrate"} => task[t].todo # {}

RunsHaveFiles == \A r \in Runs : run[r] # "none" => r \in DOMAIN scenario.files

TypeInv == TypeOK /\ TaskKnown /\ RunsHaveFiles

LEMMA TypeInvInit == Init => TypeInv
<1> SUFFICES ASSUME Init PROVE TypeInv
  OBVIOUS
<1>1. NoPremium \in PremiumRec /\ NoPayroll \in PayrollRec /\ [busy |-> 0, idle |-> 0] \in ClassRec
  BY DEF NoPremium, NoPayroll, PremiumRec, PayrollRec, ClassRec, None, NoRun
<1>2. \A S : \A row \in S : Filled(row) \in Table(S)
  BY DEF Filled, Table
<1>3. pv \in Table(PremiumRec) /\ pvp \in Table(PayrollRec) /\ pvc \in Table(ClassRec)
  BY <1>1, <1>2 DEF Init
<1>4. zero \in Table(Nat) /\ missing \in Table(Nat)
  BY <1>2 DEF Init
<1>5. NoTask \in TaskRec
  BY DEF NoTask, TaskRec, TaskPC, NoRun, None
<1>6. task \in [Tasks -> TaskRec] /\ run \in [Runs -> RunPC]
  BY <1>5 DEF Init, RunPC
<1>7. policy \in [Policies -> PolicyRec]
  BY DEF Init, PolicyRec
<1>8. TaskKnown
  BY DEF Init, TaskKnown, Working, NoTask
<1>9. RunsHaveFiles
  BY DEF Init, RunsHaveFiles
<1> QED  BY <1>3, <1>4, <1>6, <1>7, <1>8, <1>9 DEF TypeInv, TypeOK, Init

LEMMA FileOf ==
    ASSUME TypeInv, NEW r \in Runs, run[r] # "none" \/ r \in DOMAIN scenario.files
    PROVE  /\ r \in DOMAIN scenario.files /\ File(r) \in FileRec
           /\ File(r).policies \subseteq Policies
           /\ File(r).submitted \in Nat /\ File(r).premium \in Nat /\ File(r).earned \in Nat
           /\ File(r).payroll \in Nat /\ File(r).idle \in 0 .. 1 /\ File(r).dated \in BOOLEAN
           /\ File(r).freq \in Frequencies \cup {"none"} /\ File(r).owner \in Owners \cup {"none"}
           /\ File(r).effective \in [year : Nat, month : 1 .. 12, day : 1 .. 31]
<1>1. r \in DOMAIN scenario.files /\ File(r) \in FileRec
  BY FileTypes DEF TypeInv, TypeOK, RunsHaveFiles
<1> QED  BY <1>1 DEF FileRec

(* What a step of the parser of r leaves of the other policies. *)
SameCell(p, q) ==
    /\ pv'[p][q] = pv[p][q] /\ pvp'[p][q] = pvp[p][q] /\ pvc'[p][q] = pvc[p][q]
    /\ zero'[p][q] = zero[p][q] /\ missing'[p][q] = missing[p][q]

(* The row of a policy and a run after a step of the parser of r: the same *)
(* or a new one of r, or one that has an amount of r put into it.          *)
PremiumStep(r, p, q) ==
    \/ pv'[p][q] = pv[p][q]
    \/ /\ p \in File(r).policies /\ q = r /\ run[r] = "rows"
       /\ pv'[p][q].id >= NextId /\ pv'[p][q].pct = None
    \/ /\ p \in File(r).policies /\ q = r /\ run[r] = "premium" /\ pv[p][q].id = 0
       /\ pv'[p][q].id >= NextId /\ pv'[p][q].pct = pv[p][q].pct
    \/ /\ p \in File(r).policies /\ run[r] = "premium" /\ pv[p][q].id # 0
       /\ pv'[p][q].id = pv[p][q].id /\ pv'[p][q].pct = pv[p][q].pct
       /\ r \in {pv'[p][q].estFrom, pv'[p][q].actFrom}

LEMMA PutPremiumIs ==
    ASSUME TypeInv, NEW r \in Runs, run[r] = "rows", NEW est \in Nat, NEW act \in Nat,
           pv' = PutPremium(File(r), r, est, act)
    PROVE  pv' \in Table(PremiumRec) /\ \A p \in Policies, q \in Runs : PremiumStep(r, p, q)
<1> DEFINE f == File(r)
           row(p) == [id |-> NewId(f, p), est |-> est, act |-> act, pct |-> None,
                      estFrom |-> r, actFrom |-> r]
<1>1. f.policies \subseteq Policies /\ pv \in Table(PremiumRec)
  BY FileOf DEF TypeInv, TypeOK
<1>2. ASSUME NEW p \in Policies
      PROVE  row(p) \in PremiumRec /\ row(p).id >= NextId /\ row(p).pct = None
  <2>1. NewId(f, p) \in Nat \ {0} /\ NewId(f, p) >= NextId
    BY <1>1, NewIdIsNew
  <2> HIDE DEF f
  <2> QED  BY <2>1 DEF PremiumRec, None
<1>3. pv' = [p \in Policies |-> IF p \in f.policies THEN [pv[p] EXCEPT ![r] = row(p)] ELSE pv[p]]
  BY DEF PutPremium
<1> HIDE DEF row, f
<1>4. pv' \in Table(PremiumRec)
  BY <1>1, <1>2, <1>3 DEF Table
<1>5. ASSUME NEW p \in Policies, NEW q \in Runs
      PROVE  pv'[p][q] = IF p \in f.policies /\ q = r THEN row(p) ELSE pv[p][q]
  BY <1>1, <1>3 DEF Table
<1>6. ASSUME NEW p \in Policies, NEW q \in Runs
      PROVE  PremiumStep(r, p, q)
  BY <1>2, <1>5 DEF PremiumStep, f
<1> QED  BY <1>4, <1>6

LEMMA LatestIsThere ==
    ASSUME TypeInv, NEW p \in Policies, PremiumRuns(p) # {}
    PROVE  /\ LatestPremium(p) \in PremiumRuns(p) /\ LatestPremium(p) \in Runs
           /\ pv[p][LatestPremium(p)].id # 0
           /\ \A q \in PremiumRuns(p) : q <= LatestPremium(p)
<1>1. PremiumRuns(p) \subseteq Runs
  BY DEF PremiumRuns
<1>2. PremiumRuns(p) \subseteq Int
  <2>1. \A q \in Runs : q \in Int
    BY Sizes
  <2> QED  BY <1>1, <2>1
<1>3. IsFiniteSet(PremiumRuns(p))
  BY <1>1, Sizes, FS_Subset
<1>4. LatestPremium(p) \in PremiumRuns(p) /\ \A q \in PremiumRuns(p) : q <= LatestPremium(p)
  BY <1>2, <1>3, MaxIsGreatest DEF LatestPremium
<1> QED  BY <1>1, <1>4 DEF PremiumRuns

(* Of the rows of a policy one is the newest. *)
LEMMA NewestIsThere ==
    ASSUME TypeInv, NEW p \in Policies, PremiumRuns(p) # {}
    PROVE  /\ NewestPremium(p) \in PremiumRuns(p) /\ NewestPremium(p) \in Runs
           /\ pv[p][NewestPremium(p)].id # 0
           /\ \A q \in PremiumRuns(p) : pv[p][q].id <= pv[p][NewestPremium(p)].id
<1> DEFINE f == [q \in Runs |-> pv[p][q].id]
<1>1. PremiumRuns(p) \subseteq Runs
  BY DEF PremiumRuns
<1>2. \A q \in PremiumRuns(p) : f[q] = pv[p][q].id /\ f[q] \in Int
  BY <1>1 DEF TypeInv, TypeOK, Table, PremiumRec
<1>3. \E r \in PremiumRuns(p) : \A q \in PremiumRuns(p) : f[q] <= f[r]
  <2> HIDE DEF f
  <2> QED  BY <1>1, <1>2, Sizes, FS_Subset, GreatestExists
<1>4. \E r \in PremiumRuns(p) : \A q \in PremiumRuns(p) : pv[p][q].id <= pv[p][r].id
  BY <1>2, <1>3
<1>5. /\ NewestPremium(p) \in PremiumRuns(p)
      /\ \A q \in PremiumRuns(p) : pv[p][q].id <= pv[p][NewestPremium(p)].id
  BY <1>4 DEF NewestPremium
<1> QED  BY <1>1, <1>5 DEF PremiumRuns

LEMMA WritePremiumIs ==
    ASSUME TypeInv, NEW r \in Runs, WritePremium(r)
    PROVE  pv' \in Table(PremiumRec) /\ \A p \in Policies, q \in Runs : PremiumStep(r, p, q)
<1> DEFINE f == File(r)
           report == Kind(r) = "audit_report"
           est == ToDate(f.premium, f.freq, f.dated)
           Kept(p) == PremiumRuns(p) # {} /\ (report => pv[p][LatestPremium(p)].act > 0)
           Updated(row) == IF report THEN [row EXCEPT !.est = est, !.estFrom = r]
                           ELSE [row EXCEPT !.act = f.earned, !.actFrom = r]
           Inserted(row, p) == [id |-> IF row.id = 0 THEN NewId(f, p) ELSE row.id, pct |-> row.pct,
                                est |-> IF report THEN est ELSE 0,
                                act |-> IF report THEN est ELSE f.earned,
                                estFrom |-> r, actFrom |-> r]
<1>1. /\ pv' = [p \in Policies |->
                   IF p \notin f.policies THEN pv[p]
                   ELSE IF Kept(p) THEN [pv[p] EXCEPT ![LatestPremium(p)] = Updated(pv[p][LatestPremium(p)])]
                   ELSE [pv[p] EXCEPT ![r] = Inserted(pv[p][r], p)]]
      /\ run[r] = "premium"
  BY DEF WritePremium
<1>2. /\ f.policies \subseteq Policies /\ pv \in Table(PremiumRec)
      /\ f.premium \in Nat /\ f.earned \in Nat
  BY <1>1, FileOf DEF TypeInv, TypeOK
<1>3. est \in Nat
  BY <1>2, RateTypes
<1>4. ASSUME NEW row \in PremiumRec
      PROVE  /\ Updated(row) \in PremiumRec /\ Updated(row).id = row.id /\ Updated(row).pct = row.pct
             /\ r \in {Updated(row).estFrom, Updated(row).actFrom}
  <2> HIDE DEF est, f, report
  <2> QED  BY <1>2, <1>3 DEF PremiumRec
<1>5. ASSUME NEW row \in PremiumRec, NEW p \in Policies
      PROVE  /\ Inserted(row, p) \in PremiumRec /\ Inserted(row, p).pct = row.pct
             /\ Inserted(row, p).estFrom = r
             /\ row.id = 0 => Inserted(row, p).id >= NextId
             /\ row.id # 0 => Inserted(row, p).id = row.id
  <2>1. NewId(f, p) \in Nat \ {0} /\ NewId(f, p) >= NextId
    BY <1>2, NewIdIsNew
  <2> HIDE DEF est, f, report
  <2> QED  BY <1>2, <1>3, <2>1 DEF PremiumRec
<1> HIDE DEF f, Kept, Updated, Inserted
<1>6. ASSUME NEW p \in Policies
      PROVE  pv'[p] \in [Runs -> PremiumRec] /\ \A q \in Runs : PremiumStep(r, p, q)
  <2>1. pv[p] \in [Runs -> PremiumRec]
    BY <1>2 DEF Table
  <2>2. CASE p \notin f.policies
    <3>1. pv'[p] = pv[p]
      BY <1>1, <2>2
    <3> QED  BY <2>1, <3>1 DEF PremiumStep
  <2>3. CASE p \in f.policies /\ Kept(p)
    <3>1. LatestPremium(p) \in Runs /\ pv[p][LatestPremium(p)].id # 0
      BY <2>3, LatestIsThere DEF Kept
    <3>2. pv'[p] = [pv[p] EXCEPT ![LatestPremium(p)] = Updated(pv[p][LatestPremium(p)])]
      BY <1>1, <2>3
    <3>3. Updated(pv[p][LatestPremium(p)]) \in PremiumRec
      BY <1>4, <2>1, <3>1
    <3>4. pv'[p] \in [Runs -> PremiumRec]
      BY <2>1, <3>2, <3>3
    <3>5. ASSUME NEW q \in Runs
          PROVE  PremiumStep(r, p, q)
      <4>1. CASE q # LatestPremium(p)
        BY <2>1, <3>2, <4>1 DEF PremiumStep
      <4>2. CASE q = LatestPremium(p)
        <5>1. pv'[p][q] = Updated(pv[p][q]) /\ pv[p][q] \in PremiumRec
          BY <2>1, <3>2, <4>2
        <5> QED  BY <1>1, <1>4, <2>3, <3>1, <4>2, <5>1 DEF PremiumStep, f
      <4> QED  BY <4>1, <4>2
    <3> QED  BY <3>4, <3>5
  <2>4. CASE p \in f.policies /\ ~Kept(p)
    <3>1. pv'[p] = [pv[p] EXCEPT ![r] = Inserted(pv[p][r], p)]
      BY <1>1, <2>4
    <3>2. Inserted(pv[p][r], p) \in PremiumRec
      BY <1>5, <2>1
    <3>3. pv'[p] \in [Runs -> PremiumRec]
      BY <2>1, <3>1, <3>2
    <3>4. ASSUME NEW q \in Runs
          PROVE  PremiumStep(r, p, q)
      <4>1. CASE q # r
        BY <2>1, <3>1, <4>1 DEF PremiumStep
      <4>2. CASE q = r
        <5>1. pv'[p][q] = Inserted(pv[p][q], p) /\ pv[p][q] \in PremiumRec
          BY <2>1, <3>1, <4>2
        <5> QED  BY <1>1, <1>5, <2>4, <4>2, <5>1 DEF PremiumStep, f
      <4> QED  BY <4>1, <4>2
    <3> QED  BY <3>3, <3>4
  <2> QED  BY <2>2, <2>3, <2>4
<1>7. pv' \in Table(PremiumRec)
  <2>1. DOMAIN pv' = Policies /\ pv' = [p \in Policies |-> pv'[p]]
    BY <1>1
  <2> QED  BY <1>6, <2>1 DEF Table
<1> QED  BY <1>6, <1>7

-----------------------------------------------------------------------------
(* The steps of a parser.                                                  *)

(* The row of payroll_variance_policy of a policy and a run after a step   *)
(* of the parser of r.                                                     *)
PayrollStep(r, p, q) ==
    \/ pvp'[p][q] = pvp[p][q]
    \/ /\ p \in File(r).policies /\ q = r /\ run[r] = "rows" /\ Kind(r) = "payroll_summary"
       /\ pvp'[p][q].row /\ pvp'[p][q].periods = 0
    \/ /\ p \in File(r).policies /\ run[r] = "clear"
       /\ pvp'[p][q] = [pvp[p][q] EXCEPT !.periods = 0]
    \/ /\ p \in File(r).policies /\ q = r /\ run[r] = "summary" /\ run'[r] = "periods"
       /\ pvp'[p][q].row /\ pvp'[p][q].periods = 0
    \/ /\ p \in File(r).policies /\ q = r /\ run[r] = "periods"
       /\ File(r).submitted > 1 /\ File(r).freq # "none"
       /\ \E n \in Nat : pvp'[p][q] = [pvp[p][q] EXCEPT !.periods = n]

(* What is the same of every step of the parser of r. *)
ParseFrame(r) ==
    /\ \A q \in Runs : q # r => run'[q] = run[q]
    /\ r \in DOMAIN scenario.files /\ run[r] \in Parsing \cup {"none"}
    /\ run'[r] \in Parsing \cup {"complete", "failed"}
    /\ scenario' = scenario
    /\ \/ run[r] = "finish" /\ run'[r] = "complete"
       \/ task' = task /\ run'[r] # "complete"
    /\ \A t \in Tasks : t # r => task'[t] = task[t]
    /\ \A p \in Policies : p \notin File(r).policies =>
          policy'[p] = policy[p] /\ \A q \in Runs : SameCell(p, q)
    /\ \A p \in Policies, q \in Runs :
          /\ PremiumStep(r, p, q) /\ PayrollStep(r, p, q)
          /\ q # r \/ run[r] # "rows" =>
                pvc'[p][q] = pvc[p][q] /\ zero'[p][q] = zero[p][q] /\ missing'[p][q] = missing[p][q]

(* A step that writes none of the tables. *)
LEMMA QuietParseFrame ==
    ASSUME TypeInv, NEW r \in Runs, r \in DOMAIN scenario.files, run[r] \in Parsing \cup {"none"},
           NEW pc \in Parsing \cup {"failed"}, Goto(r, pc), facts' = facts, UNCHANGED <<task, scenario>>,
           \A p \in Policies : p \notin File(r).policies => policy'[p] = policy[p]
    PROVE  ParseFrame(r)
<1>1. pv' = pv /\ pvp' = pvp /\ pvc' = pvc /\ zero' = zero /\ missing' = missing
  BY DEF facts
<1>2. run' = [run EXCEPT ![r] = pc] /\ run \in [Runs -> RunPC]
  BY DEF Goto, TypeInv, TypeOK
<1>3. pc # "complete"
  BY DEF Parsing
<1>4. \A p \in Policies, q \in Runs : SameCell(p, q) /\ PremiumStep(r, p, q) /\ PayrollStep(r, p, q)
  BY <1>1 DEF SameCell, PremiumStep, PayrollStep
<1>5. /\ \A q \in Runs : q # r => run'[q] = run[q]
      /\ run'[r] = pc
  BY <1>2
<1> QED  BY <1>1, <1>3, <1>4, <1>5 DEF ParseFrame

LEMMA UploadIs ==
    ASSUME TypeInv, NEW r \in Runs, Upload(r)
    PROVE  ParseFrame(r) /\ TypeOK'
<1> DEFINE pc == IF Kind(r) \in {"audit_report", "xml"} THEN "policy" ELSE "rows"
<1>1. /\ r \in DOMAIN scenario.files /\ run[r] = "none" /\ Goto(r, pc)
      /\ UNCHANGED <<policy, facts, task, scenario>>
  BY DEF Upload
<1>2. pc \in Parsing \cup {"failed"}
  BY DEF Parsing
<1> HIDE DEF pc
<1>3. ParseFrame(r)
  BY <1>1, <1>2, QuietParseFrame
<1>4. run' \in [Runs -> RunPC]
  BY <1>1, <1>2 DEF Goto, TypeInv, TypeOK, RunPC, Parsing
<1> QED  BY <1>1, <1>3, <1>4 DEF TypeInv, TypeOK, facts

LEMMA EnsuredIs ==
    ASSUME TypeInv, NEW r \in Runs, run[r] # "none"
    PROVE  /\ Ensured(File(r)) \in [Policies -> PolicyRec]
           /\ Enriched(File(r)) \in [Policies -> PolicyRec]
           /\ \A p \in Policies : p \notin File(r).policies =>
                 Ensured(File(r))[p] = policy[p] /\ Enriched(File(r))[p] = policy[p]
<1> DEFINE f == File(r)
<1>1. /\ f.dated \in BOOLEAN /\ f.freq \in Frequencies \cup {"none"}
      /\ f.owner \in Owners \cup {"none"}
  BY FileOf
<1>2. policy \in [Policies -> PolicyRec]
  BY DEF TypeInv, TypeOK
<1> HIDE DEF f
<1>3. ASSUME NEW row \in PolicyRec
      PROVE  /\ [row EXCEPT !.known = TRUE, !.dated = @ \/ f.dated] \in PolicyRec
             /\ [row EXCEPT !.known = TRUE, !.dated = @ \/ f.dated,
                            !.freq = IF f.freq = "none" THEN @ ELSE f.freq,
                            !.owner = IF f.owner = "none" THEN @ ELSE f.owner] \in PolicyRec
  BY <1>1 DEF PolicyRec
<1>4. \A p \in Policies : policy[p] \in PolicyRec
  BY <1>2
<1>5. Ensured(f) \in [Policies -> PolicyRec] /\ Enriched(f) \in [Policies -> PolicyRec]
  BY <1>3, <1>4 DEF Ensured, Enriched
<1>6. \A p \in Policies : p \notin f.policies => Ensured(f)[p] = policy[p] /\ Enriched(f)[p] = policy[p]
  BY DEF Ensured, Enriched
<1> QED  BY <1>5, <1>6 DEF f

LEMMA ParsePolicyIs ==
    ASSUME TypeInv, NEW r \in Runs, ParsePolicy(r)
    PROVE  ParseFrame(r) /\ TypeOK'
<1>1. /\ run[r] = "policy" /\ Goto(r, "rows") /\ UNCHANGED <<facts, task, scenario>>
      /\ policy' = IF Kind(r) = "xml" THEN Ensured(File(r)) ELSE Enriched(File(r))
  BY DEF ParsePolicy
<1>2. /\ policy' \in [Policies -> PolicyRec]
      /\ \A p \in Policies : p \notin File(r).policies => policy'[p] = policy[p]
  BY <1>1, EnsuredIs
<1>3. r \in DOMAIN scenario.files
  BY <1>1, FileOf
<1>4. ParseFrame(r)
  <2>1. "rows" \in Parsing \cup {"failed"} /\ run[r] \in Parsing \cup {"none"}
    BY <1>1 DEF Parsing
  <2> QED  BY <1>1, <1>2, <1>3, <2>1, QuietParseFrame DEF facts
<1>5. run' \in [Runs -> RunPC]
  BY <1>1 DEF Goto, TypeInv, TypeOK, RunPC
<1> QED  BY <1>1, <1>2, <1>4, <1>5 DEF TypeInv, TypeOK, facts

LEMMA ParseFailsIs ==
    ASSUME TypeInv, NEW r \in Runs, ParseFails(r)
    PROVE  ParseFrame(r) /\ TypeOK'
<1>1. /\ run[r] \in Parsing /\ Goto(r, "failed") /\ UNCHANGED <<policy, facts, task, scenario>>
  BY DEF ParseFails
<1>2. r \in DOMAIN scenario.files
  BY <1>1, FileOf DEF Parsing
<1>3. ParseFrame(r)
  <2>1. "failed" \in Parsing \cup {"failed"} /\ run[r] \in Parsing \cup {"none"}
    BY <1>1
  <2> QED  BY <1>1, <1>2, <2>1, QuietParseFrame DEF facts
<1>4. run' \in [Runs -> RunPC]
  BY <1>1 DEF Goto, TypeInv, TypeOK, RunPC
<1> QED  BY <1>1, <1>3, <1>4 DEF TypeInv, TypeOK, facts

(* The rows of a file. *)
LEMMA ParseRowsIs ==
    ASSUME TypeInv, NEW r \in Runs, ParseRows(r)
    PROVE  /\ ParseFrame(r) /\ TypeOK'
           /\ run'[r] \in {"clear", "premium", "finish"}
           /\ run'[r] = "clear" => Kind(r) = "audit_report"
           /\ run'[r] = "premium" => pv' = pv /\ Kind(r) = "payroll_detail"
           /\ Kind(r) = "audit_report" => run'[r] = "clear" /\ pv' = pv /\ policy' = policy
<1> DEFINE f == File(r)
<1>1. /\ run[r] = "rows" /\ task' = task /\ scenario' = scenario
      /\ policy' = IF Kind(r) \in {"audit_report", "xml"} THEN policy ELSE Ensured(f)
      /\ \/ ParseDetail(r) \/ ParseAuditClasses(r) \/ ParseSummary(r)
         \/ ParsePremium(r) \/ ParseXml(r) \/ ParseList(r)
  BY DEF ParseRows
<1>2. /\ r \in DOMAIN scenario.files /\ f.idle \in Nat /\ f.premium \in Nat /\ f.earned \in Nat
      /\ f.payroll \in Nat
  BY <1>1, FileOf
<1>3. /\ policy' \in [Policies -> PolicyRec]
      /\ \A p \in Policies : p \notin f.policies => policy'[p] = policy[p]
  BY <1>1, EnsuredIs DEF TypeInv, TypeOK
<1>4. /\ pv \in Table(PremiumRec) /\ pvp \in Table(PayrollRec) /\ pvc \in Table(ClassRec)
      /\ zero \in Table(Nat) /\ missing \in Table(Nat) /\ run \in [Runs -> RunPC]
  BY DEF TypeInv, TypeOK
<1> HIDE DEF f
<1> DEFINE Rows ==
             /\ pvp' \in Table(PayrollRec) /\ pvc' \in Table(ClassRec)
             /\ zero' \in Table(Nat) /\ missing' \in Table(Nat)
             /\ \A p \in Policies, q \in Runs :
                   /\ PayrollStep(r, p, q)
                   /\ p \notin f.policies \/ q # r =>
                        pvp'[p][q] = pvp[p][q] /\ pvc'[p][q] = pvc[p][q]
                        /\ zero'[p][q] = zero[p][q] /\ missing'[p][q] = missing[p][q]
           Premium ==
             /\ pv' \in Table(PremiumRec)
             /\ \A p \in Policies, q \in Runs : PremiumStep(r, p, q)
           Ends ==
             /\ \E pc \in {"clear", "premium", "finish"} :
                   /\ Goto(r, pc)
                   /\ pc = "clear" => Kind(r) = "audit_report"
                   /\ pc = "premium" => pv' = pv /\ Kind(r) = "payroll_detail"
                   /\ Kind(r) = "audit_report" => pc = "clear" /\ pv' = pv
<1>5. pv' = pv => Premium
  BY <1>4 DEF PremiumStep
<1>6. ASSUME NEW n \in Nat, NEW m \in Nat, pvc' = Put(pvc, f, r, [busy |-> n, idle |-> m]),
             UNCHANGED <<pvp, zero, missing>>
      PROVE  Rows
  <2>1. [busy |-> n, idle |-> m] \in ClassRec
    BY DEF ClassRec
  <2>2. /\ pvc' \in Table(ClassRec)
        /\ \A p \in Policies, q \in Runs : p \notin f.policies \/ q # r => pvc'[p][q] = pvc[p][q]
    <3>1. /\ Put(pvc, f, r, [busy |-> n, idle |-> m]) \in Table(ClassRec)
          /\ \A p \in Policies, q \in Runs :
                Put(pvc, f, r, [busy |-> n, idle |-> m])[p][q]
                  = IF p \in f.policies /\ q = r THEN [busy |-> n, idle |-> m] ELSE pvc[p][q]
      BY <1>4, <2>1 DEF Put, Table
    <3> QED  BY <1>6, <3>1
  <2> QED  BY <1>4, <1>6, <2>2 DEF PayrollStep
<1>7. ASSUME UNCHANGED <<pvp, pvc, zero, missing>>
      PROVE  Rows
  BY <1>4, <1>7 DEF PayrollStep
<1>8. ASSUME ParseDetail(r)
      PROVE  Rows /\ Premium /\ Ends
  <2>1. /\ Kind(r) = "payroll_detail" /\ pvc' = Put(pvc, f, r, [busy |-> 1, idle |-> f.idle])
        /\ Goto(r, IF f.format = "csv" \/ f.earned = 0 THEN "finish" ELSE "premium")
        /\ UNCHANGED <<pv, pvp, zero, missing>>
    BY <1>8 DEF ParseDetail, f
  <2>2. Rows
    BY <1>2, <1>6, <2>1
  <2>3. Ends
    BY <2>1
  <2> QED  BY <1>5, <2>1, <2>2, <2>3
<1>9. ASSUME ParseAuditClasses(r)
      PROVE  Rows /\ Premium /\ Ends
  <2>1. /\ Kind(r) = "audit_report" /\ pvc' = Put(pvc, f, r, [busy |-> 1, idle |-> f.idle])
        /\ Goto(r, "clear") /\ UNCHANGED <<pv, pvp, zero, missing>>
    BY <1>9 DEF ParseAuditClasses, f
  <2>2. Rows
    BY <1>2, <1>6, <2>1
  <2>3. Ends
    BY <2>1
  <2> QED  BY <1>5, <2>1, <2>2, <2>3
<1>10. ASSUME ParseSummary(r)
      PROVE  Rows /\ Premium /\ Ends
  <2> DEFINE row == [row |-> TRUE, est |-> f.payroll, rep |-> f.earned, pct |-> None, periods |-> 0]
  <2>1. /\ Kind(r) = "payroll_summary" /\ Goto(r, "finish") /\ UNCHANGED <<pv, pvc, zero, missing>>
        /\ pvp' = IF f.payroll = 0 /\ f.earned = 0 THEN pvp ELSE Put(pvp, f, r, row)
    BY <1>10 DEF ParseSummary, f
  <2>2. row \in PayrollRec /\ row.row /\ row.periods = 0
    BY <1>2 DEF PayrollRec, NoPayroll, None
  <2> HIDE DEF row
  <2>3. /\ pvp' \in Table(PayrollRec)
        /\ \A p \in Policies, q \in Runs :
              pvp'[p][q] = pvp[p][q] \/ (p \in f.policies /\ q = r /\ pvp'[p][q] = row)
    <3>1. /\ Put(pvp, f, r, row) \in Table(PayrollRec)
          /\ \A p \in Policies, q \in Runs :
                Put(pvp, f, r, row)[p][q] = IF p \in f.policies /\ q = r THEN row ELSE pvp[p][q]
      BY <1>4, <2>2 DEF Put, Table
    <3> QED  BY <1>4, <2>1, <3>1
  <2>4. \A p \in Policies, q \in Runs : PayrollStep(r, p, q)
    BY <1>1, <2>1, <2>2, <2>3 DEF PayrollStep, f
  <2>5. Rows
    BY <1>4, <2>1, <2>3, <2>4
  <2>6. Ends
    BY <2>1
  <2> QED  BY <1>5, <2>1, <2>5, <2>6
<1>11. ASSUME ParsePremium(r)
      PROVE  Rows /\ Premium /\ Ends
  <2>1. /\ Kind(r) = "premium" /\ pv' = PutPremium(f, r, f.premium, f.earned)
        /\ Goto(r, "finish") /\ UNCHANGED <<pvp, pvc, zero, missing>>
    BY <1>11 DEF ParsePremium, f
  <2>2. Premium
    BY <1>1, <1>2, <2>1, PutPremiumIs DEF f
  <2>3. Ends
    BY <2>1
  <2> QED  BY <1>7, <2>1, <2>2, <2>3
<1>12. ASSUME ParseXml(r)
      PROVE  Rows /\ Premium /\ Ends
  <2>1. /\ Kind(r) = "xml" /\ pvc' = Put(pvc, f, r, [busy |-> 0, idle |-> 1 + f.idle])
        /\ pv' = IF f.premium = 0 THEN pv ELSE PutPremium(f, r, f.premium, f.premium)
        /\ Goto(r, "finish") /\ UNCHANGED <<pvp, zero, missing>>
    BY <1>12 DEF ParseXml, f
  <2>2. 0 \in Nat /\ 1 + f.idle \in Nat
    BY <1>2
  <2>3. Rows
    BY <1>6, <2>1, <2>2
  <2>4. Premium
    <3>1. CASE f.premium = 0
      BY <1>5, <2>1, <3>1
    <3>2. CASE f.premium # 0
      <4>1. pv' = PutPremium(f, r, f.premium, f.premium)
        BY <2>1, <3>2
      <4> QED  BY <1>1, <1>2, <4>1, PutPremiumIs DEF f
    <3> QED  BY <3>1, <3>2
  <2>5. Ends
    BY <2>1
  <2> QED  BY <2>3, <2>4, <2>5
<1>13. ASSUME ParseList(r)
      PROVE  Rows /\ Premium /\ Ends
  <2>1. /\ Kind(r) \in {"zero", "missing", "policies", "nothing"}
        /\ zero' = IF Kind(r) = "zero" THEN Put(zero, f, r, 1) ELSE zero
        /\ missing' = IF Kind(r) = "missing" THEN Put(missing, f, r, 1) ELSE missing
        /\ Goto(r, "finish") /\ UNCHANGED <<pv, pvp, pvc>>
    BY <1>13 DEF ParseList, f
  <2>2. /\ zero' \in Table(Nat)
        /\ \A p \in Policies, q \in Runs : p \notin f.policies \/ q # r => zero'[p][q] = zero[p][q]
    <3>1. /\ Put(zero, f, r, 1) \in Table(Nat)
          /\ \A p \in Policies, q \in Runs :
                Put(zero, f, r, 1)[p][q] = IF p \in f.policies /\ q = r THEN 1 ELSE zero[p][q]
      <4>1. 1 \in Nat
        OBVIOUS
      <4> QED  BY <1>4, <4>1 DEF Put, Table
    <3> QED  BY <1>4, <2>1, <3>1
  <2>3. /\ missing' \in Table(Nat)
        /\ \A p \in Policies, q \in Runs : p \notin f.policies \/ q # r => missing'[p][q] = missing[p][q]
    <3>1. /\ Put(missing, f, r, 1) \in Table(Nat)
          /\ \A p \in Policies, q \in Runs :
                Put(missing, f, r, 1)[p][q] = IF p \in f.policies /\ q = r THEN 1 ELSE missing[p][q]
      <4>1. 1 \in Nat
        OBVIOUS
      <4> QED  BY <1>4, <4>1 DEF Put, Table
    <3> QED  BY <1>4, <2>1, <3>1
  <2>4. Rows
    BY <1>4, <2>1, <2>2, <2>3 DEF PayrollStep
  <2>5. Ends
    BY <2>1
  <2> QED  BY <1>5, <2>1, <2>4, <2>5
<1>14. Rows /\ Premium /\ Ends
  BY <1>1, <1>8, <1>9, <1>10, <1>11, <1>12, <1>13
<1>15. PICK pc \in {"clear", "premium", "finish"} :
         /\ Goto(r, pc)
         /\ pc = "clear" => Kind(r) = "audit_report"
         /\ pc = "premium" => pv' = pv /\ Kind(r) = "payroll_detail"
         /\ Kind(r) = "audit_report" => pc = "clear" /\ pv' = pv
  BY <1>14
<1>16. run' = [run EXCEPT ![r] = pc] /\ pc \in RunPC /\ pc # "complete" /\ pc \in Parsing
  BY <1>15 DEF Goto, RunPC, Parsing
<1>17. run' \in [Runs -> RunPC] /\ run'[r] = pc /\ \A q \in Runs : q # r => run'[q] = run[q]
  BY <1>4, <1>16
<1> HIDE DEF Ends
<1>18. ASSUME NEW p \in Policies, p \notin f.policies, NEW q \in Runs
       PROVE  SameCell(p, q)
  <2>1. pv'[p][q] = pv[p][q]
    BY <1>14, <1>18 DEF PremiumStep, f
  <2> QED  BY <1>14, <1>18, <2>1 DEF SameCell
<1>19. \A p \in Policies, q \in Runs : q # r =>
          pvc'[p][q] = pvc[p][q] /\ zero'[p][q] = zero[p][q] /\ missing'[p][q] = missing[p][q]
  BY <1>14
<1>20. ParseFrame(r)
  <2>1. run[r] \in Parsing
    BY <1>1 DEF Parsing
  <2>2. \A p \in Policies, q \in Runs : PremiumStep(r, p, q) /\ PayrollStep(r, p, q)
    BY <1>14
  <2>3. \A p \in Policies : p \notin f.policies =>
           policy'[p] = policy[p] /\ \A q \in Runs : SameCell(p, q)
    BY <1>3, <1>18
  <2> HIDE DEF Rows, Premium
  <2> QED  BY <1>1, <1>2, <1>16, <1>17, <1>19, <2>1, <2>2, <2>3 DEF ParseFrame, f
<1>21. TypeOK'
  BY <1>1, <1>3, <1>14, <1>17 DEF TypeInv, TypeOK
<1> QED  BY <1>1, <1>15, <1>17, <1>20, <1>21

(* A step that writes payroll_variance_policy alone. *)
LEMMA PayrollParseFrame ==
    ASSUME TypeInv, NEW r \in Runs, run[r] \in {"clear", "summary", "periods"},
           NEW pc \in {"summary", "periods", "premium", "finish"}, Goto(r, pc),
           UNCHANGED <<policy, pv, pvc, zero, missing, task, scenario>>,
           pvp' \in Table(PayrollRec),
           \A p \in Policies, q \in Runs : PayrollStep(r, p, q),
           \A p \in Policies : p \notin File(r).policies => pvp'[p] = pvp[p]
    PROVE  ParseFrame(r) /\ TypeOK'
<1>1. run' = [run EXCEPT ![r] = pc] /\ run \in [Runs -> RunPC] /\ pc \in RunPC
  BY DEF Goto, TypeInv, TypeOK, RunPC
<1>2. /\ r \in DOMAIN scenario.files /\ run[r] \in Parsing /\ run[r] # "none"
      /\ pc \in Parsing /\ pc # "complete"
  BY FileOf DEF Parsing
<1>3. /\ run' \in [Runs -> RunPC] /\ run'[r] = pc /\ \A q \in Runs : q # r => run'[q] = run[q]
  BY <1>1
<1>4. \A p \in Policies, q \in Runs : PremiumStep(r, p, q)
  BY DEF PremiumStep
<1>5. \A p \in Policies : p \notin File(r).policies => \A q \in Runs : SameCell(p, q)
  BY DEF SameCell
<1>6. ParseFrame(r)
  BY <1>2, <1>3, <1>4, <1>5 DEF ParseFrame
<1> QED  BY <1>3, <1>6 DEF TypeInv, TypeOK

LEMMA ClearPeriodsIs ==
    ASSUME TypeInv, NEW r \in Runs, ClearPeriods(r)
    PROVE  /\ ParseFrame(r) /\ TypeOK'
           /\ run[r] = "clear" /\ run'[r] = "summary"
           /\ UNCHANGED <<policy, pv, pvc, zero, missing, task>>
           /\ \A p \in Policies, q \in Runs :
                 pvp'[p][q] = IF p \in File(r).policies THEN [pvp[p][q] EXCEPT !.periods = 0]
                              ELSE pvp[p][q]
<1> DEFINE f == File(r)
           cleared(row) == [row EXCEPT !.periods = 0]
<1>1. /\ run[r] = "clear" /\ Goto(r, "summary")
      /\ UNCHANGED <<policy, pv, pvc, zero, missing, task, scenario>>
      /\ pvp' = [p \in Policies |->
                    IF p \in f.policies THEN [q \in Runs |-> cleared(pvp[p][q])] ELSE pvp[p]]
  BY DEF ClearPeriods
<1>2. pvp \in Table(PayrollRec) /\ run \in [Runs -> RunPC]
  BY DEF TypeInv, TypeOK
<1>3. \A row \in PayrollRec : cleared(row) \in PayrollRec
  BY DEF PayrollRec
<1> HIDE DEF f, cleared
<1>4. pvp' \in Table(PayrollRec)
  BY <1>1, <1>2, <1>3 DEF Table
<1>5. \A p \in Policies, q \in Runs :
         pvp'[p][q] = IF p \in f.policies THEN cleared(pvp[p][q]) ELSE pvp[p][q]
  BY <1>1, <1>2 DEF Table
<1>6. \A p \in Policies : p \notin f.policies => pvp'[p] = pvp[p]
  BY <1>1
<1>7. \A p \in Policies, q \in Runs : PayrollStep(r, p, q)
  BY <1>1, <1>5 DEF PayrollStep, f, cleared
<1>8. ParseFrame(r) /\ TypeOK'
  BY <1>1, <1>4, <1>6, <1>7, PayrollParseFrame DEF f
<1>9. run'[r] = "summary"
  BY <1>1, <1>2 DEF Goto
<1> QED  BY <1>1, <1>5, <1>8, <1>9 DEF f, cleared

LEMMA WriteSummaryIs ==
    ASSUME TypeInv, NEW r \in Runs, WriteSummary(r)
    PROVE  /\ ParseFrame(r) /\ TypeOK'
           /\ run[r] = "summary" /\ run'[r] = "periods"
           /\ UNCHANGED <<policy, pv, pvc, zero, missing, task>>
           /\ \A p \in Policies, q \in Runs :
                 IF p \in File(r).policies /\ q = r THEN pvp'[p][q].row /\ pvp'[p][q].periods = 0
                                                    ELSE pvp'[p][q] = pvp[p][q]
<1> DEFINE f == File(r)
           amount == ToDate(f.payroll, f.freq, f.dated)
           row == [row |-> TRUE, est |-> amount, rep |-> amount,
                   pct |-> (100 * f.submitted) \div Annual(f.freq), periods |-> 0]
<1>1. /\ run[r] = "summary" /\ Goto(r, "periods")
      /\ UNCHANGED <<policy, pv, pvc, zero, missing, task, scenario>>
      /\ pvp' = Put(pvp, f, r, row)
  BY DEF WriteSummary
<1>2. pvp \in Table(PayrollRec) /\ run \in [Runs -> RunPC]
  BY DEF TypeInv, TypeOK
<1>3. f.payroll \in Nat /\ f.submitted \in Nat
  BY <1>1, FileOf
<1>4. amount \in Nat
  BY <1>3, RateTypes
<1>5. (100 * f.submitted) \div Annual(f.freq) \in Int
  <2>1. 100 * f.submitted \in Int
    BY <1>3
  <2>2. Annual(f.freq) \in Nat \ {0}
    BY RateTypes
  <2> QED  BY <2>1, <2>2, DivTyped
<1>6. row \in PayrollRec /\ row.row /\ row.periods = 0
  <2> HIDE DEF amount, f
  <2> QED  BY <1>4, <1>5 DEF PayrollRec
<1> HIDE DEF row, f
<1>7. /\ pvp' \in Table(PayrollRec)
      /\ \A p \in Policies, q \in Runs : pvp'[p][q] = IF p \in f.policies /\ q = r THEN row ELSE pvp[p][q]
      /\ \A p \in Policies : p \notin f.policies => pvp'[p] = pvp[p]
  BY <1>1, <1>2, <1>6 DEF Put, Table
<1>8. run'[r] = "periods"
  BY <1>1, <1>2 DEF Goto
<1>9. \A p \in Policies, q \in Runs : PayrollStep(r, p, q)
  BY <1>1, <1>6, <1>7, <1>8 DEF PayrollStep, f
<1>10. ParseFrame(r) /\ TypeOK'
  BY <1>1, <1>7, <1>9, PayrollParseFrame DEF f
<1> QED  BY <1>1, <1>6, <1>7, <1>8, <1>10 DEF f

LEMMA PeriodRowsAreFinite ==
    ASSUME NEW f, f.submitted \in Nat
    PROVE  Cardinality(PeriodRows(f)) \in Nat
<1>1. IsFiniteSet(1 .. f.submitted - 1)
  BY FS_Interval
<1>2. PeriodRows(f) \subseteq 1 .. f.submitted - 1
  BY DEF PeriodRows
<1>3. IsFiniteSet(PeriodRows(f))
  BY <1>1, <1>2, FS_Subset
<1> QED  BY <1>3, FS_CardinalityType

(* Every month has 28 days.                                                *)
LEMMA EarlyDayIsInEveryMonth ==
    ASSUME NEW date, date.day \in Int, date.day <= 28, NEW months
    PROVE  HasDay(date, months)
<1>1. \A year, month : DaysIn(year, month) \in {28, 29, 30, 31}
  BY DEF DaysIn
<1>2. PICK n \in {28, 29, 30, 31} :
         n = DaysIn(date.year + (date.month + months - 1) \div 12,
                    1 + ((date.month + months - 1) % 12))
  BY <1>1
<1>3. date.day <= n
  BY <1>2
<1> QED  BY <1>2, <1>3 DEF HasDay

LEMMA PeriodRowsAreAll ==
    ASSUME NEW f, f.submitted \in Nat, f.submitted > 1, f.effective.day \in Int,
           f.freq = "Monthly" => f.effective.day <= 28
    PROVE  Cardinality(PeriodRows(f)) = f.submitted - 1
<1>1. ASSUME NEW i \in 1 .. f.submitted - 1, f.freq = "Monthly"
      PROVE  HasDay(f.effective, i)
  BY <1>1, EarlyDayIsInEveryMonth
<1>2. PeriodRows(f) = 1 .. f.submitted - 1
  BY <1>1 DEF PeriodRows
<1> QED  BY <1>2, FS_Interval

LEMMA WritePeriodsIs ==
    ASSUME TypeInv, NEW r \in Runs, WritePeriods(r)
    PROVE  /\ ParseFrame(r) /\ TypeOK'
           /\ run[r] = "periods" /\ run'[r] \in {"premium", "finish"}
           /\ UNCHANGED <<policy, pv, pvc, zero, missing, task>>
           /\ \E n \in Nat :
                 /\ ~Event("failures") => n = Cardinality(PeriodRows(File(r)))
                 /\ \A p \in Policies, q \in Runs :
                       pvp'[p][q] = IF p \in File(r).policies /\ q = r /\ File(r).submitted > 1
                                       /\ File(r).freq # "none"
                                    THEN [pvp[p][q] EXCEPT !.periods = n]
                                    ELSE pvp[p][q]
<1> DEFINE f == File(r)
           more == f.submitted > 1 /\ f.freq # "none"
<1>1. PICK kept \in {PeriodRows(f)} \cup (IF Event("failures") THEN {{}} ELSE {}) :
         pvp' = [p \in Policies |->
                    IF p \in f.policies /\ f.submitted > 1 /\ f.freq # "none"
                    THEN [pvp[p] EXCEPT ![r].periods = Cardinality(kept)] ELSE pvp[p]]
  BY DEF WritePeriods
<1>2. /\ run[r] = "periods" /\ Goto(r, IF f.premium = 0 THEN "finish" ELSE "premium")
      /\ UNCHANGED <<policy, pv, pvc, zero, missing, task, scenario>>
  BY DEF WritePeriods
<1>3. pvp \in Table(PayrollRec) /\ run \in [Runs -> RunPC]
  BY DEF TypeInv, TypeOK
<1>4. Cardinality(PeriodRows(f)) \in Nat
  <2>1. f.submitted \in Nat
    BY <1>2, FileOf
  <2> QED  BY <2>1, PeriodRowsAreFinite
<1>5. PICK n \in Nat : n = Cardinality(kept)
  <2>1. kept = PeriodRows(f) \/ kept = {}
    BY <1>1
  <2>2. Cardinality({}) = 0
    BY FS_EmptySet
  <2> QED  BY <1>4, <2>1, <2>2
<1>6. ~Event("failures") => n = Cardinality(PeriodRows(f))
  BY <1>1, <1>5
<1> DEFINE numbered(row) == [row EXCEPT !.periods = n]
<1>7. ASSUME NEW row \in PayrollRec
      PROVE  numbered(row) \in PayrollRec
  BY <1>7 DEF PayrollRec
<1>8. pvp' = [p \in Policies |->
                 IF p \in f.policies /\ more
                 THEN [pvp[p] EXCEPT ![r] = numbered(pvp[p][r])] ELSE pvp[p]]
  BY <1>1, <1>5
<1> HIDE DEF f, numbered, more
<1>9. /\ pvp' \in Table(PayrollRec)
      /\ \A p \in Policies, q \in Runs :
            pvp'[p][q] = IF p \in f.policies /\ q = r /\ more THEN numbered(pvp[p][q]) ELSE pvp[p][q]
      /\ \A p \in Policies : p \notin f.policies => pvp'[p] = pvp[p]
  BY <1>3, <1>7, <1>8 DEF Table
<1>10. PICK pc \in {"premium", "finish"} : Goto(r, pc)
  BY <1>2
<1>11. run'[r] \in {"premium", "finish"}
  BY <1>3, <1>10 DEF Goto
<1>12. \A p \in Policies, q \in Runs : PayrollStep(r, p, q)
  BY <1>2, <1>9 DEF PayrollStep, f, more, numbered
<1>13. ParseFrame(r) /\ TypeOK'
  BY <1>2, <1>9, <1>10, <1>12, PayrollParseFrame DEF f
<1>14. \A p \in Policies, q \in Runs :
          pvp'[p][q] = IF p \in f.policies /\ q = r /\ f.submitted > 1 /\ f.freq # "none"
                       THEN [pvp[p][q] EXCEPT !.periods = n] ELSE pvp[p][q]
  BY <1>9 DEF more, numbered
<1> QED  BY <1>2, <1>6, <1>11, <1>13, <1>14 DEF f

LEMMA WritePremiumFrame ==
    ASSUME TypeInv, NEW r \in Runs, WritePremium(r)
    PROVE  /\ ParseFrame(r) /\ TypeOK'
           /\ run[r] = "premium" /\ run'[r] = "finish"
           /\ UNCHANGED <<policy, pvp, pvc, zero, missing, task>>
<1>1. /\ run[r] = "premium" /\ Goto(r, "finish")
      /\ UNCHANGED <<policy, pvp, pvc, zero, missing, task, scenario>>
  BY DEF WritePremium
<1>2. pv' \in Table(PremiumRec) /\ \A p \in Policies, q \in Runs : PremiumStep(r, p, q)
  BY WritePremiumIs
<1>3. run' = [run EXCEPT ![r] = "finish"] /\ run \in [Runs -> RunPC]
  BY <1>1 DEF Goto, TypeInv, TypeOK
<1>4. run' \in [Runs -> RunPC] /\ run'[r] = "finish" /\ \A q \in Runs : q # r => run'[q] = run[q]
  BY <1>3 DEF RunPC
<1>5. r \in DOMAIN scenario.files /\ run[r] \in Parsing /\ run'[r] \in Parsing
  BY <1>1, <1>4, FileOf DEF Parsing
<1>6. ASSUME NEW p \in Policies, p \notin File(r).policies, NEW q \in Runs
      PROVE  SameCell(p, q)
  BY <1>1, <1>2, <1>6 DEF SameCell, PremiumStep
<1>7. \A p \in Policies, q \in Runs : PayrollStep(r, p, q)
  BY <1>1 DEF PayrollStep
<1>8. ParseFrame(r)
  BY <1>1, <1>2, <1>4, <1>5, <1>6, <1>7 DEF ParseFrame
<1>9. TypeOK'
  BY <1>1, <1>2, <1>4 DEF TypeInv, TypeOK
<1> QED  BY <1>1, <1>4, <1>8, <1>9

LEMMA FinishIs ==
    ASSUME TypeInv, NEW r \in Runs, Finish(r)
    PROVE  /\ ParseFrame(r) /\ TypeOK'
           /\ run[r] = "finish" /\ run'[r] = "complete"
           /\ UNCHANGED <<policy, facts>>
           /\ task'[r].run = r /\ task'[r].todo = {p \in Policies : pv[p][r].id # 0}
           /\ task'[r].pc = IF task'[r].todo = {} THEN "done" ELSE "read"
<1> DEFINE todo == {p \in Policies : pv[p][r].id # 0}
           row == [NoTask EXCEPT !.pc = IF todo = {} THEN "done" ELSE "read", !.run = r, !.todo = todo]
<1>1. /\ run[r] = "finish" /\ Goto(r, "complete") /\ UNCHANGED <<policy, facts, scenario>>
      /\ task' = [task EXCEPT ![r] = row]
  BY DEF Finish
<1>2. /\ run \in [Runs -> RunPC] /\ task \in [Tasks -> TaskRec] /\ r \in Tasks
  BY Sizes DEF TypeInv, TypeOK
<1>3. NoTask \in TaskRec
  BY DEF NoTask, TaskRec, TaskPC, NoRun, None
<1>4. todo \subseteq Policies
  OBVIOUS
<1> HIDE DEF todo
<1>5. /\ row \in TaskRec /\ row.run = r /\ row.todo = todo
      /\ row.pc = IF todo = {} THEN "done" ELSE "read"
  BY <1>3, <1>4 DEF TaskRec, TaskPC
<1> HIDE DEF row
<1>6. /\ task' \in [Tasks -> TaskRec] /\ task'[r] = row
      /\ \A t \in Tasks : t # r => task'[t] = task[t]
  BY <1>1, <1>2, <1>5
<1>7. /\ run' \in [Runs -> RunPC] /\ run'[r] = "complete"
      /\ \A q \in Runs : q # r => run'[q] = run[q]
  BY <1>1, <1>2 DEF Goto, RunPC
<1>8. r \in DOMAIN scenario.files /\ run[r] \in Parsing
  BY <1>1, FileOf DEF Parsing
<1>9. pv' = pv /\ pvp' = pvp /\ pvc' = pvc /\ zero' = zero /\ missing' = missing
  BY <1>1 DEF facts
<1>10. \A p \in Policies, q \in Runs : SameCell(p, q) /\ PremiumStep(r, p, q) /\ PayrollStep(r, p, q)
  BY <1>9 DEF SameCell, PremiumStep, PayrollStep
<1>11. ParseFrame(r)
  BY <1>1, <1>6, <1>7, <1>8, <1>9, <1>10 DEF ParseFrame
<1>12. TypeOK'
  BY <1>1, <1>6, <1>7, <1>9 DEF TypeInv, TypeOK
<1> QED  BY <1>1, <1>5, <1>6, <1>7, <1>11, <1>12 DEF todo

LEMMA ParseStepIs ==
    ASSUME TypeInv, NEW r \in Runs, ParseStep(r)
    PROVE  ParseFrame(r) /\ TypeOK'
BY UploadIs, ParsePolicyIs, ParseRowsIs, ClearPeriodsIs, WriteSummaryIs, WritePeriodsIs,
   WritePremiumFrame, FinishIs, ParseFailsIs DEF ParseStep

-----------------------------------------------------------------------------
(* The steps of a rollback and of the engine.                              *)

Blank(p, q) ==
    /\ pv[p][q].id = 0 /\ ~pvp[p][q].row /\ pvp[p][q].periods = 0
    /\ pvc[p][q].busy = 0 /\ pvc[p][q].idle = 0 /\ zero[p][q] = 0 /\ missing[p][q] = 0

LEMMA UndoStartIs ==
    ASSUME TypeInv, NEW r \in Runs, UndoStart(r)
    PROVE  /\ TypeOK' /\ Event("rollback") /\ run[r] = "complete" /\ run'[r] = "rolling_back"
           /\ \A q \in Runs : q # r => run'[q] = run[q]
           /\ Event("overlap") \/ Quiet
           /\ UNCHANGED <<policy, facts, task, scenario>>
<1>1. /\ Event("rollback") /\ run[r] = "complete" /\ Goto(r, "rolling_back")
      /\ Event("overlap") \/ Quiet
      /\ UNCHANGED <<policy, facts, task, scenario>>
  BY DEF UndoStart
<1>2. /\ run' \in [Runs -> RunPC] /\ run'[r] = "rolling_back"
      /\ \A q \in Runs : q # r => run'[q] = run[q]
  BY <1>1 DEF Goto, RunPC, TypeInv, TypeOK
<1>3. TypeOK'
  BY <1>1, <1>2 DEF TypeInv, TypeOK, facts
<1> QED  BY <1>1, <1>2, <1>3

LEMMA UndoRowsIs ==
    ASSUME TypeInv, NEW r \in Runs, UndoRows(r)
    PROVE  /\ TypeOK' /\ run[r] = "rolling_back" /\ run'[r] = "rolled_back"
           /\ \A q \in Runs : q # r => run'[q] = run[q]
           /\ UNCHANGED <<policy, task, scenario>>
           /\ \A p \in Policies, q \in Runs : q # r => SameCell(p, q)
           /\ \A p \in Policies : Blank(p, r)' /\ pv'[p][r] = NoPremium
<1>1. /\ run[r] = "rolling_back" /\ Goto(r, "rolled_back") /\ UNCHANGED <<policy, task, scenario>>
      /\ pv' = Emptied(pv, r, NoPremium) /\ pvp' = Emptied(pvp, r, NoPayroll)
      /\ pvc' = Emptied(pvc, r, [busy |-> 0, idle |-> 0])
      /\ zero' = Emptied(zero, r, 0) /\ missing' = Emptied(missing, r, 0)
  BY DEF UndoRows
<1>2. /\ pv \in Table(PremiumRec) /\ pvp \in Table(PayrollRec) /\ pvc \in Table(ClassRec)
      /\ zero \in Table(Nat) /\ missing \in Table(Nat) /\ run \in [Runs -> RunPC]
  BY DEF TypeInv, TypeOK
<1>3. /\ run' \in [Runs -> RunPC] /\ run'[r] = "rolled_back"
      /\ \A q \in Runs : q # r => run'[q] = run[q]
  BY <1>1, <1>2 DEF Goto, RunPC
<1>4. /\ NoPremium \in PremiumRec /\ NoPayroll \in PayrollRec /\ [busy |-> 0, idle |-> 0] \in ClassRec
      /\ NoPremium.id = 0 /\ ~NoPayroll.row /\ NoPayroll.periods = 0
  BY DEF NoPremium, NoPayroll, PremiumRec, PayrollRec, ClassRec, None, NoRun
<1>5. /\ pv' \in Table(PremiumRec)
      /\ \A p \in Policies, q \in Runs : pv'[p][q] = IF q = r THEN NoPremium ELSE pv[p][q]
  BY <1>1, <1>2, <1>4 DEF Emptied, Table
<1>6. /\ pvp' \in Table(PayrollRec)
      /\ \A p \in Policies, q \in Runs : pvp'[p][q] = IF q = r THEN NoPayroll ELSE pvp[p][q]
  BY <1>1, <1>2, <1>4 DEF Emptied, Table
<1>7. /\ pvc' \in Table(ClassRec)
      /\ \A p \in Policies, q \in Runs :
            pvc'[p][q] = IF q = r THEN [busy |-> 0, idle |-> 0] ELSE pvc[p][q]
  BY <1>1, <1>2, <1>4 DEF Emptied, Table
<1>8. /\ zero' \in Table(Nat)
      /\ \A p \in Policies, q \in Runs : zero'[p][q] = IF q = r THEN 0 ELSE zero[p][q]
  BY <1>1, <1>2 DEF Emptied, Table
<1>9. /\ missing' \in Table(Nat)
      /\ \A p \in Policies, q \in Runs : missing'[p][q] = IF q = r THEN 0 ELSE missing[p][q]
  BY <1>1, <1>2 DEF Emptied, Table
<1>10. TypeOK'
  BY <1>1, <1>3, <1>5, <1>6, <1>7, <1>8, <1>9 DEF TypeInv, TypeOK
<1>11. \A p \in Policies, q \in Runs : q # r => SameCell(p, q)
  BY <1>5, <1>6, <1>7, <1>8, <1>9 DEF SameCell
<1>12. \A p \in Policies : Blank(p, r)' /\ pv'[p][r] = NoPremium
  BY <1>4, <1>5, <1>6, <1>7, <1>8, <1>9 DEF Blank
<1> QED  BY <1>1, <1>3, <1>10, <1>11, <1>12

(* What is the same of every step of a task. *)
EngineFrame(t) ==
    /\ UNCHANGED <<run, scenario, pvc, missing>>
    /\ \A u \in Tasks : u # t => task'[u] = task[u]
    /\ \A p \in Policies :
          /\ policy'[p].known = policy[p].known /\ policy'[p].dated = policy[p].dated
          /\ policy'[p].freq = policy[p].freq /\ policy'[p].owner = policy[p].owner
          /\ \/ policy'[p].risk = policy[p].risk
             \/ task[t].pc = "risk" /\ p = task[t].policy
    /\ \A p \in Policies, q \in Runs :
          /\ \/ pv'[p][q] = pv[p][q]
             \/ /\ task[t].pc = "persist" /\ p = task[t].policy /\ pv[p][q].id # 0
                /\ pv'[p][q] = [pv[p][q] EXCEPT !.pct = pv'[p][q].pct]
          /\ \/ pvp'[p][q] = pvp[p][q]
             \/ /\ pvp[p][q].row
                /\ pvp'[p][q] = [pvp[p][q] EXCEPT !.pct = pvp'[p][q].pct]
          /\ zero'[p][q] \in {zero[p][q], zero[p][q] + pvc[p][q].idle}

(* A task after its step: it knows its run and its policy. *)
TaskIsKnown(t) ==
    Working(t) =>
        /\ task[t].run \in Runs
        /\ task[t].pc \in {"zero", "missing", "risk", "persist"} => task[t].policy \in task[t].todo
        /\ task[t].pc \in {"read", "narrate"} => task[t].todo # {}

(* A step of a task that writes no table and no policy. *)
LEMMA QuietEngineFrame ==
    ASSUME TypeInv, NEW t \in Tasks, UNCHANGED <<policy, facts, run, scenario>>,
           NEW row \in TaskRec, task' = [task EXCEPT ![t] = row]
    PROVE  EngineFrame(t) /\ TypeOK' /\ task'[t] = row
<1>1. pv' = pv /\ pvp' = pvp /\ pvc' = pvc /\ zero' = zero /\ missing' = missing
  BY DEF facts
<1>2. /\ task' \in [Tasks -> TaskRec] /\ task'[t] = row
      /\ \A u \in Tasks : u # t => task'[u] = task[u]
  BY DEF TypeInv, TypeOK
<1>3. EngineFrame(t)
  BY <1>1, <1>2 DEF EngineFrame
<1>4. TypeOK'
  BY <1>1, <1>2 DEF TypeInv, TypeOK
<1> QED  BY <1>2, <1>3, <1>4

LEMMA AuditStartIs ==
    ASSUME TypeInv, NEW t \in Tasks, NEW r \in Runs, AuditStart(t, r)
    PROVE  /\ EngineFrame(t) /\ TypeOK' /\ TaskIsKnown(t)'
           /\ UNCHANGED <<policy, facts>>
           /\ ~Automatic(t) /\ run[r] \in {"complete", "failed", "rolled_back"}
           /\ Event("late_audit") \/ (Event("audit") /\ Newest(r))
           /\ Event("overlap") \/ Quiet
           /\ task'[t].run = r /\ task'[t].pc \in {"read", "done"}
           /\ task'[t].todo \in AuditPolicies(r) /\ task'[t].todo \subseteq Policies
<1>1. PICK found \in AuditPolicies(r) :
         task' = [task EXCEPT ![t] = [NoTask EXCEPT !.pc = IF found = {} THEN "done" ELSE "read",
                                                    !.run = r, !.todo = found]]
  BY DEF AuditStart
<1>2. /\ ~Automatic(t) /\ run[r] \in {"complete", "failed", "rolled_back"}
      /\ Event("late_audit") \/ (Event("audit") /\ Newest(r))
      /\ Event("overlap") \/ Quiet
      /\ r \in DOMAIN scenario.files
      /\ UNCHANGED <<policy, facts, run, scenario>>
  BY DEF AuditStart
<1>3. found \subseteq Policies
  <2>1. File(r).policies \subseteq Policies
    BY <1>2, FileOf
  <2>2. AuditPolicies(r) \subseteq SUBSET Policies
    BY <2>1 DEF AuditPolicies
  <2> QED  BY <2>2
<1> DEFINE row == [NoTask EXCEPT !.pc = IF found = {} THEN "done" ELSE "read",
                                 !.run = r, !.todo = found]
<1>4. NoTask \in TaskRec
  BY DEF NoTask, TaskRec, TaskPC, NoRun, None
<1>5. /\ row \in TaskRec /\ row.run = r /\ row.todo = found
      /\ row.pc = IF found = {} THEN "done" ELSE "read"
  BY <1>3, <1>4 DEF TaskRec, TaskPC
<1>6. task' = [task EXCEPT ![t] = row]
  BY <1>1
<1> HIDE DEF row
<1>7. EngineFrame(t) /\ TypeOK' /\ task'[t] = row
  BY <1>2, <1>5, <1>6, QuietEngineFrame
<1>8. TaskIsKnown(t)'
  BY <1>5, <1>7 DEF TaskIsKnown, Working
<1> QED  BY <1>2, <1>3, <1>5, <1>7, <1>8

LEMMA ReadContextIs ==
    ASSUME TypeInv, NEW t \in Tasks, ReadContext(t)
    PROVE  /\ EngineFrame(t) /\ TypeOK' /\ TaskIsKnown(t)'
           /\ UNCHANGED <<policy, facts>>
           /\ task[t].pc = "read" /\ task'[t].pc = "zero"
           /\ task'[t].run = task[t].run /\ task'[t].todo = task[t].todo
           /\ task'[t].policy \in task[t].todo
           /\ task'[t].pct = Pct(pv[task'[t].policy][task[t].run])
           /\ task'[t].reported = ReportedAmount(task'[t].policy, pvp[task'[t].policy][task[t].run])
<1> DEFINE r == task[t].run
<1>1. /\ task[t].pc = "read" /\ UNCHANGED <<policy, facts, run, scenario>>
  BY DEF ReadContext
<1>2. PICK p \in task[t].todo :
         task' = [task EXCEPT ![t] =
            [@ EXCEPT !.pc = "zero", !.policy = p, !.pct = Pct(pv[p][r]),
                      !.reported = ReportedAmount(p, pvp[p][r]),
                      !.share = ReportedShare(p, pvp[p][r])]]
  BY DEF ReadContext
<1> DEFINE pct == Pct(pv[p][r])
           reported == ReportedAmount(p, pvp[p][r])
           share == ReportedShare(p, pvp[p][r])
           row == [task[t] EXCEPT !.pc = "zero", !.policy = p, !.pct = pct,
                                  !.reported = reported, !.share = share]
<1>3. task' = [task EXCEPT ![t] = row]
  BY <1>2
<1>4. task[t] \in TaskRec /\ task[t].todo \subseteq Policies /\ r \in Runs /\ p \in Policies
  <2>1. task[t] \in TaskRec
    BY DEF TypeInv, TypeOK
  <2>2. task[t].todo \subseteq Policies
    BY <2>1 DEF TaskRec
  <2>3. r \in Runs
    BY <1>1 DEF TypeInv, TaskKnown, Working
  <2> QED  BY <2>1, <2>2, <2>3
<1>5. pv[p][r] \in PremiumRec /\ pvp[p][r] \in PayrollRec
  BY <1>4 DEF TypeInv, TypeOK, Table
<1>6. pct \in Int /\ reported \in Int /\ share \in Int
  <2>1. pct \in Int
    BY <1>5, PctTypes
  <2>2. reported \in Nat /\ share \in Int
    BY <1>5, ReportedTypes
  <2> QED  BY <2>1, <2>2
<1> HIDE DEF pct, reported, share, r
<1>7. /\ row \in TaskRec /\ row.run = task[t].run /\ row.todo = task[t].todo /\ row.pc = "zero"
      /\ row.policy = p /\ row.pct = pct /\ row.reported = reported
  BY <1>4, <1>6 DEF TaskRec, TaskPC
<1> HIDE DEF row
<1>8. EngineFrame(t) /\ TypeOK' /\ task'[t] = row
  BY <1>1, <1>3, <1>7, QuietEngineFrame
<1>9. TaskIsKnown(t)'
  BY <1>4, <1>7, <1>8 DEF TaskIsKnown, Working, r
<1> QED  BY <1>1, <1>7, <1>8, <1>9 DEF pct, reported, r

(* The task of a step between the reading and the writing. *)
LEMMA Midway ==
    ASSUME TypeInv, NEW t \in Tasks, task[t].pc \in {"zero", "missing", "risk", "persist"}
    PROVE  /\ task[t] \in TaskRec /\ task[t].run \in Runs /\ task[t].policy \in Policies
           /\ task[t].policy \in task[t].todo /\ task[t].todo \subseteq Policies
           /\ task[t].pct \in Int /\ task[t].share \in Int
<1>1. task[t] \in TaskRec
  BY DEF TypeInv, TypeOK
<1>2. /\ task[t].todo \subseteq Policies /\ task[t].pct \in Int /\ task[t].share \in Int
  BY <1>1 DEF TaskRec
<1>3. task[t].run \in Runs /\ task[t].policy \in task[t].todo
  BY DEF TypeInv, TaskKnown, Working
<1> QED  BY <1>1, <1>2, <1>3

LEMMA DetectZeroIs ==
    ASSUME TypeInv, NEW t \in Tasks, DetectZero(t)
    PROVE  /\ EngineFrame(t) /\ TypeOK' /\ TaskIsKnown(t)'
           /\ UNCHANGED <<policy, pv, pvp>>
           /\ task[t].pc = "zero" /\ task' = [task EXCEPT ![t] = [task[t] EXCEPT !.pc = "missing"]]
           /\ task'[t] = [task[t] EXCEPT !.pc = "missing"]
<1> DEFINE p == task[t].policy
           r == task[t].run
           row == [task[t] EXCEPT !.pc = "missing"]
<1>1. /\ task[t].pc = "zero" /\ task' = [task EXCEPT ![t] = row]
      /\ zero' = [zero EXCEPT ![p][r] = zero[p][r] + pvc[p][r].idle]
      /\ UNCHANGED <<policy, pv, pvp, pvc, missing, run, scenario>>
  BY DEF DetectZero
<1>2. task[t] \in TaskRec /\ r \in Runs /\ p \in Policies /\ p \in task[t].todo
  BY <1>1, Midway
<1>3. row \in TaskRec /\ row.run = r /\ row.todo = task[t].todo /\ row.pc = "missing" /\ row.policy = p
  BY <1>2 DEF TaskRec, TaskPC
<1>4. zero \in Table(Nat) /\ pvc \in Table(ClassRec) /\ task \in [Tasks -> TaskRec]
  BY DEF TypeInv, TypeOK
<1>5. pvc[p][r].idle \in Nat
  BY <1>2, <1>4 DEF Table, ClassRec
<1> HIDE DEF p, r, row
<1>6. /\ zero' \in Table(Nat)
      /\ \A a \in Policies, b \in Runs : zero'[a][b] \in {zero[a][b], zero[a][b] + pvc[a][b].idle}
  BY <1>1, <1>2, <1>4, <1>5 DEF Table
<1>7. /\ task' \in [Tasks -> TaskRec] /\ task'[t] = row
      /\ \A u \in Tasks : u # t => task'[u] = task[u]
  BY <1>1, <1>3, <1>4
<1>8. EngineFrame(t)
  BY <1>1, <1>6, <1>7 DEF EngineFrame
<1>9. TypeOK'
  BY <1>1, <1>6, <1>7 DEF TypeInv, TypeOK
<1>10. TaskIsKnown(t)'
  BY <1>2, <1>3, <1>7 DEF TaskIsKnown
<1> QED  BY <1>1, <1>7, <1>8, <1>9, <1>10 DEF row

LEMMA DetectMissingIs ==
    ASSUME TypeInv, NEW t \in Tasks, DetectMissing(t)
    PROVE  /\ EngineFrame(t) /\ TypeOK' /\ TaskIsKnown(t)'
           /\ UNCHANGED <<policy, facts>>
           /\ task[t].pc = "missing" /\ task'[t].pc = "risk"
           /\ task'[t].missing = MissingCount(task[t].policy)
           /\ task'[t].run = task[t].run /\ task'[t].todo = task[t].todo
           /\ task'[t].policy = task[t].policy /\ task'[t].pct = task[t].pct
           /\ task'[t].reported = task[t].reported
<1> DEFINE n == MissingCount(task[t].policy)
           row == [task[t] EXCEPT !.pc = "risk", !.missing = n]
<1>1. /\ task[t].pc = "missing" /\ UNCHANGED <<policy, facts, run, scenario>>
      /\ task' = [task EXCEPT ![t].pc = "risk", ![t].missing = n]
  BY DEF DetectMissing
<1>2. /\ task[t] \in TaskRec /\ task[t].run \in Runs /\ task[t].policy \in Policies
      /\ task[t].policy \in task[t].todo
  BY <1>1, Midway
<1>3. n \in Nat
  BY <1>2, MissingTypes DEF TypeInv, TypeOK
<1> HIDE DEF n
<1>4. task' = [task EXCEPT ![t] = row]
  BY <1>1 DEF TypeInv, TypeOK
<1>5. /\ row \in TaskRec /\ row.run = task[t].run /\ row.todo = task[t].todo /\ row.pc = "risk"
      /\ row.policy = task[t].policy /\ row.missing = n /\ row.pct = task[t].pct
      /\ row.reported = task[t].reported
  BY <1>2, <1>3 DEF TaskRec, TaskPC
<1> HIDE DEF row
<1>6. EngineFrame(t) /\ TypeOK' /\ task'[t] = row
  BY <1>1, <1>4, <1>5, QuietEngineFrame
<1>7. TaskIsKnown(t)'
  BY <1>2, <1>5, <1>6 DEF TaskIsKnown
<1> QED  BY <1>1, <1>5, <1>6, <1>7 DEF n

(* A step that writes one policy and goes on. *)
LEMMA PolicyEngineFrame ==
    ASSUME TypeInv, NEW t \in Tasks, UNCHANGED <<facts, run, scenario>>,
           NEW row \in TaskRec, task' = [task EXCEPT ![t] = row],
           policy' \in [Policies -> PolicyRec],
           \A p \in Policies :
              /\ policy'[p].known = policy[p].known /\ policy'[p].dated = policy[p].dated
              /\ policy'[p].freq = policy[p].freq /\ policy'[p].owner = policy[p].owner
              /\ \/ policy'[p].risk = policy[p].risk
                 \/ task[t].pc = "risk" /\ p = task[t].policy
    PROVE  EngineFrame(t) /\ TypeOK' /\ task'[t] = row
<1>1. pv' = pv /\ pvp' = pvp /\ pvc' = pvc /\ zero' = zero /\ missing' = missing
  BY DEF facts
<1>2. /\ task' \in [Tasks -> TaskRec] /\ task'[t] = row
      /\ \A u \in Tasks : u # t => task'[u] = task[u]
  BY DEF TypeInv, TypeOK
<1>3. EngineFrame(t)
  BY <1>1, <1>2 DEF EngineFrame
<1>4. TypeOK'
  BY <1>1, <1>2 DEF TypeInv, TypeOK
<1> QED  BY <1>2, <1>3, <1>4

LEMMA AssessTypes ==
    ASSUME NEW pct, NEW gaps
    PROVE  Assess(pct, gaps) \in {"Low", "Medium", "High"}
<1> DEFINE off == pct # None /\ (IF pct < 0 THEN -pct ELSE pct) > scenario.threshold
<1>1. Assess(pct, gaps) = CASE off /\ gaps > 0 -> "High" [] off \/ gaps > 0 -> "Medium" [] OTHER -> "Low"
  BY Zenon DEF Assess
<1> HIDE DEF off
<1>2. CASE off /\ gaps > 0
  BY <1>1, <1>2, Zenon
<1>3. CASE ~ (off /\ gaps > 0)
  BY <1>1, <1>3
<1> QED  BY <1>2, <1>3

LEMMA UpdateRiskIs ==
    ASSUME TypeInv, NEW t \in Tasks, UpdateRisk(t)
    PROVE  /\ EngineFrame(t) /\ TypeOK' /\ TaskIsKnown(t)'
           /\ UNCHANGED facts
           /\ task[t].pc = "risk" /\ task'[t] = [task[t] EXCEPT !.pc = "persist"]
           /\ task'[t].run = task[t].run /\ task'[t].todo = task[t].todo /\ task'[t].pc = "persist"
           /\ task'[t].policy = task[t].policy /\ task'[t].pct = task[t].pct
           /\ task'[t].reported = task[t].reported
           /\ ~OutOfBounds(task[t].policy, task[t].reported) =>
                 policy'[task[t].policy].risk = Assess(task[t].pct, task[t].missing)
<1> DEFINE p == task[t].policy
           risk == Assess(task[t].pct, task[t].missing)
           row == [task[t] EXCEPT !.pc = "persist"]
<1>1. /\ task[t].pc = "risk" /\ UNCHANGED <<facts, run, scenario>>
      /\ task' = [task EXCEPT ![t].pc = "persist"]
      /\ policy' = IF OutOfBounds(p, task[t].reported) THEN policy ELSE [policy EXCEPT ![p].risk = risk]
  BY DEF UpdateRisk
<1>2. /\ task[t] \in TaskRec /\ task[t].run \in Runs /\ p \in Policies /\ p \in task[t].todo
  BY <1>1, Midway
<1>3. task' = [task EXCEPT ![t] = row]
  BY <1>1
<1>4. /\ row \in TaskRec /\ row.run = task[t].run /\ row.todo = task[t].todo /\ row.pc = "persist"
      /\ row.policy = p /\ row.pct = task[t].pct /\ row.reported = task[t].reported
  BY <1>2 DEF TaskRec, TaskPC
<1>5. risk \in {"none", "Low", "Medium", "High"}
  BY AssessTypes
<1> HIDE DEF p, risk
<1>6. policy \in [Policies -> PolicyRec]
  BY DEF TypeInv, TypeOK
<1>7. /\ policy' \in [Policies -> PolicyRec]
      /\ ~OutOfBounds(p, task[t].reported) => policy'[p].risk = risk
      /\ \A q \in Policies :
            /\ policy'[q].known = policy[q].known /\ policy'[q].dated = policy[q].dated
            /\ policy'[q].freq = policy[q].freq /\ policy'[q].owner = policy[q].owner
            /\ policy'[q].risk = policy[q].risk \/ q = p
  BY <1>1, <1>2, <1>5, <1>6 DEF PolicyRec
<1> HIDE DEF row
<1>8. EngineFrame(t) /\ TypeOK' /\ task'[t] = row
  BY <1>1, <1>3, <1>4, <1>7, PolicyEngineFrame DEF p
<1>9. TaskIsKnown(t)'
  BY <1>2, <1>4, <1>8 DEF TaskIsKnown
<1> QED  BY <1>1, <1>4, <1>7, <1>8, <1>9 DEF p, risk, row

LEMMA NarrateIs ==
    ASSUME TypeInv, NEW t \in Tasks, Narrate(t)
    PROVE  /\ EngineFrame(t) /\ TypeOK' /\ TaskIsKnown(t)'
           /\ UNCHANGED facts
           /\ \A p \in Policies : policy'[p].risk = policy[p].risk
           /\ task[t].pc = "narrate" /\ task'[t].pc \in {"narrate", "done"}
           /\ task'[t].run = task[t].run /\ task'[t].todo \subseteq task[t].todo
<1> DEFINE p == Min(task[t].todo)
           left == task[t].todo \ {p}
           pc == IF left = {} THEN "done" ELSE task[t].pc
           row == [task[t] EXCEPT !.todo = left, !.pc = pc]
<1>1. /\ task[t].pc = "narrate" /\ UNCHANGED <<facts, run, scenario>>
      /\ task' = [task EXCEPT ![t].todo = left, ![t].pc = IF left = {} THEN "done" ELSE @]
  BY DEF Narrate
<1>2. PICK said \in IF Event("failures") THEN {"text", "fallback", policy[p].narrative} ELSE {"text"} :
         policy' = [policy EXCEPT ![p].narrative = said]
  BY DEF Narrate
<1>3. task \in [Tasks -> TaskRec] /\ policy \in [Policies -> PolicyRec]
  BY DEF TypeInv, TypeOK
<1>4. /\ task[t] \in TaskRec /\ task[t].run \in Runs /\ task[t].todo # {} /\ task[t].todo \subseteq Policies
  BY <1>1, <1>3 DEF TypeInv, TaskKnown, Working, TaskRec
<1>5. p \in task[t].todo
  <2>1. IsFiniteSet(task[t].todo)
    BY <1>4, Sizes, FS_Subset
  <2>2. \A q \in Policies : q \in Int
    BY Sizes
  <2>3. task[t].todo \subseteq Int
    BY <1>4, <2>2
  <2> QED  BY <1>4, <2>1, <2>3, MinIsLeast
<1>6. p \in Policies
  BY <1>4, <1>5
<1>7. said \in {"none", "text", "fallback"}
  <2>1. policy[p].narrative \in {"none", "text", "fallback"}
    BY <1>3, <1>6 DEF PolicyRec
  <2> HIDE DEF p
  <2> QED  BY <2>1
<1> HIDE DEF p
<1>8. task' = [task EXCEPT ![t] = row]
  BY <1>1, <1>3
<1>9. /\ row \in TaskRec /\ row.run = task[t].run /\ row.todo = left /\ row.pc = pc
  BY <1>1, <1>4 DEF TaskRec, TaskPC
<1>10. /\ policy' \in [Policies -> PolicyRec]
       /\ \A q \in Policies :
            /\ policy'[q].known = policy[q].known /\ policy'[q].dated = policy[q].dated
            /\ policy'[q].freq = policy[q].freq /\ policy'[q].owner = policy[q].owner
            /\ policy'[q].risk = policy[q].risk
  BY <1>2, <1>3, <1>6, <1>7 DEF PolicyRec
<1> HIDE DEF row
<1>11. EngineFrame(t) /\ TypeOK' /\ task'[t] = row
  <2>1. \A q \in Policies :
           /\ policy'[q].known = policy[q].known /\ policy'[q].dated = policy[q].dated
           /\ policy'[q].freq = policy[q].freq /\ policy'[q].owner = policy[q].owner
           /\ \/ policy'[q].risk = policy[q].risk
              \/ task[t].pc = "risk" /\ q = task[t].policy
    BY <1>10
  <2> QED  BY <1>1, <1>8, <1>9, <1>10, <2>1, PolicyEngineFrame
<1>12. TaskIsKnown(t)'
  BY <1>1, <1>4, <1>9, <1>11 DEF TaskIsKnown, Working
<1> QED  BY <1>1, <1>9, <1>10, <1>11, <1>12

LEMMA EngineFailsIs ==
    ASSUME TypeInv, NEW t \in Tasks, EngineFails(t)
    PROVE  /\ EngineFrame(t) /\ TypeOK' /\ TaskIsKnown(t)'
           /\ UNCHANGED <<policy, facts>> /\ Event("failures")
           /\ task[t].pc \in {"zero", "missing", "risk", "persist"} /\ task'[t].pc \in {"read", "done"}
           /\ task'[t].run = task[t].run /\ task'[t].todo \subseteq task[t].todo
<1>1. /\ task[t].pc \in {"zero", "missing", "risk", "persist"} /\ UNCHANGED <<policy, facts, run, scenario>>
      /\ Event("failures")
  BY DEF EngineFails
<1>2. PICK left \in {{}, task[t].todo \ {task[t].policy}} :
          task' = [task EXCEPT ![t].pc = IF Automatic(t) /\ left # {} THEN "read" ELSE "done",
                               ![t].todo = left]
  BY DEF EngineFails
<1> DEFINE pc == IF Automatic(t) /\ left # {} THEN "read" ELSE "done"
           row == [task[t] EXCEPT !.pc = pc, !.todo = left]
<1>3. /\ task[t] \in TaskRec /\ task[t].run \in Runs /\ task[t].todo \subseteq Policies
  BY <1>1, Midway
<1>4. left \subseteq task[t].todo /\ pc \in {"read", "done"} /\ (pc = "read" => left # {})
  BY <1>2
<1>5. task' = [task EXCEPT ![t] = row]
  BY <1>2 DEF TypeInv, TypeOK
<1> HIDE DEF pc
<1>6. row \in TaskRec /\ row.run = task[t].run /\ row.todo = left /\ row.pc = pc
  BY <1>3, <1>4 DEF TaskRec, TaskPC
<1> HIDE DEF row
<1>7. EngineFrame(t) /\ TypeOK' /\ task'[t] = row
  BY <1>1, <1>5, <1>6, QuietEngineFrame
<1>8. TaskIsKnown(t)'
  BY <1>3, <1>4, <1>6, <1>7 DEF TaskIsKnown, Working
<1> QED  BY <1>1, <1>4, <1>6, <1>7, <1>8

(* The next policies of a task: After. *)
LEMMA AfterIs ==
    ASSUME TypeInv, NEW t \in Tasks, task[t].pc = "persist",
           task' = After(t, task[t].todo \ {task[t].policy})
    PROVE  /\ task' \in [Tasks -> TaskRec] /\ TaskIsKnown(t)'
           /\ \A u \in Tasks : u # t => task'[u] = task[u]
           /\ task'[t].run = task[t].run
           /\ task'[t].pc \in {"read", "narrate", "done"}
           /\ Automatic(t) => /\ task'[t].todo = task[t].todo \ {task[t].policy}
                              /\ task'[t].pc = IF task'[t].todo = {} THEN "done" ELSE "read"
           /\ ~Automatic(t) => task'[t].todo = task[t].todo /\ task'[t].pc = "narrate"
<1> DEFINE left == task[t].todo \ {task[t].policy}
           next == [task[t] EXCEPT !.pc = IF left = {} THEN "done" ELSE "read", !.todo = left]
           told == [task[t] EXCEPT !.pc = "narrate"]
<1>1. task' = [task EXCEPT ![t] = IF Automatic(t) THEN next ELSE told]
  BY DEF After
<1>2. /\ task[t] \in TaskRec /\ task[t].run \in Runs /\ task[t].policy \in task[t].todo
      /\ task[t].todo \subseteq Policies
  BY Midway
<1>3. left \subseteq Policies
  BY <1>2
<1> HIDE DEF left
<1>4. /\ next \in TaskRec /\ next.run = task[t].run /\ next.todo = left
      /\ next.pc = IF left = {} THEN "done" ELSE "read"
  BY <1>2, <1>3 DEF TaskRec, TaskPC
<1>5. /\ told \in TaskRec /\ told.run = task[t].run /\ told.todo = task[t].todo /\ told.pc = "narrate"
  BY <1>2 DEF TaskRec, TaskPC
<1> HIDE DEF next, told
<1>6. task \in [Tasks -> TaskRec]
  BY DEF TypeInv, TypeOK
<1>7. /\ task' \in [Tasks -> TaskRec] /\ task'[t] = IF Automatic(t) THEN next ELSE told
      /\ \A u \in Tasks : u # t => task'[u] = task[u]
  BY <1>1, <1>4, <1>5, <1>6
<1>8. TaskIsKnown(t)'
  BY <1>2, <1>4, <1>5, <1>7 DEF TaskIsKnown, Working
<1> QED  BY <1>4, <1>5, <1>7, <1>8 DEF left

(* What Persist writes as the percentage of a premium row. *)
Stored(t, row) == IF task[t].pct # None \/ row.act = 0 THEN task[t].pct ELSE Pct(row)

LEMMA PersistIs ==
    ASSUME TypeInv, NEW t \in Tasks, Persist(t)
    PROVE  /\ EngineFrame(t) /\ TypeOK' /\ TaskIsKnown(t)'
           /\ policy' = policy /\ zero' = zero
           /\ task[t].pc = "persist" /\ task'[t].pc \in {"read", "narrate", "done"}
           /\ task'[t].run = task[t].run
           /\ Automatic(t) => /\ task'[t].todo = task[t].todo \ {task[t].policy}
                              /\ task'[t].pc = IF task'[t].todo = {} THEN "done" ELSE "read"
           /\ ~Automatic(t) => task'[t].todo = task[t].todo /\ task'[t].pc = "narrate"
           /\ \A p \in Policies, q \in Runs :
                 \/ pv'[p][q] = pv[p][q]
                 \/ /\ p = task[t].policy /\ q = NewestPremium(p) /\ PremiumRuns(p) # {}
                    /\ pv'[p][q].pct = Stored(t, pv[p][q])
<1> DEFINE p == task[t].policy
           n == NewestPremium(p)
           summary == {r \in Runs : pvp[p][r].row}
           m == Max(summary)
           x == IF task[t].pct # None \/ pv[p][n].act = 0 THEN task[t].pct ELSE Pct(pv[p][n])
<1>1. /\ task[t].pc = "persist" /\ UNCHANGED <<policy, pvc, zero, missing, run, scenario>>
      /\ task' = After(t, task[t].todo \ {p})
      /\ pv' = IF PremiumRuns(p) = {} THEN pv ELSE [pv EXCEPT ![p][n].pct = x]
      /\ pvp' = IF summary = {} THEN pvp ELSE [pvp EXCEPT ![p][m].pct = task[t].share]
  BY DEF Persist
<1>2. /\ task[t] \in TaskRec /\ task[t].run \in Runs /\ p \in Policies
      /\ task[t].pct \in Int /\ task[t].share \in Int
  BY <1>1, Midway
<1>3. pv \in Table(PremiumRec) /\ pvp \in Table(PayrollRec)
  BY DEF TypeInv, TypeOK
<1>4. ASSUME PremiumRuns(p) # {}
      PROVE  n \in Runs /\ pv[p][n].id # 0 /\ pv[p][n] \in PremiumRec /\ x \in Int /\ x = Stored(t, pv[p][n])
  <2>1. n \in Runs /\ pv[p][n].id # 0
    BY <1>2, <1>4, NewestIsThere
  <2>2. pv[p][n] \in PremiumRec
    BY <1>2, <1>3, <2>1 DEF Table
  <2>3. x \in Int
    <3>1. Pct(pv[p][n]) \in Int
      BY <2>2, PctTypes
    <3> HIDE DEF n, p
    <3> QED  BY <1>2, <3>1
  <2>4. x = Stored(t, pv[p][n])
    BY DEF Stored
  <2> QED  BY <2>1, <2>2, <2>3, <2>4
<1>5. ASSUME summary # {}
      PROVE  m \in Runs /\ pvp[p][m].row
  <2>1. IsFiniteSet(summary)
    BY Sizes, FS_Subset
  <2>2. \A r \in Runs : r \in Int
    BY Sizes
  <2>3. summary \subseteq Int
    BY <2>2
  <2> HIDE DEF summary
  <2>4. m \in summary
    BY <1>5, <2>1, <2>3, MaxIsGreatest
  <2> QED  BY <2>4 DEF summary
<1> HIDE DEF p, n, summary, m, x
<1>6. /\ pv' \in Table(PremiumRec)
      /\ \A a \in Policies, b \in Runs :
            \/ pv'[a][b] = pv[a][b]
            \/ /\ a = p /\ b = n /\ PremiumRuns(p) # {} /\ pv[a][b].id # 0
               /\ pv'[a][b] = [pv[a][b] EXCEPT !.pct = x]
  <2>1. CASE PremiumRuns(p) = {}
    BY <1>1, <1>3, <2>1
  <2>2. CASE PremiumRuns(p) # {}
    <3> DEFINE row == [pv[p][n] EXCEPT !.pct = x]
    <3>1. pv' = [pv EXCEPT ![p] = [pv[p] EXCEPT ![n] = row]]
      BY <1>1, <2>2
    <3>2. row \in PremiumRec
      BY <1>4, <2>2 DEF PremiumRec
    <3> HIDE DEF row
    <3>3. pv' \in Table(PremiumRec)
      BY <1>2, <1>3, <1>4, <2>2, <3>1, <3>2 DEF Table
    <3>4. \A a \in Policies, b \in Runs : pv'[a][b] = IF a = p /\ b = n THEN row ELSE pv[a][b]
      BY <1>2, <1>3, <1>4, <2>2, <3>1 DEF Table
    <3> QED  BY <1>4, <2>2, <3>3, <3>4 DEF row
  <2> QED  BY <2>1, <2>2
<1>7. /\ pvp' \in Table(PayrollRec)
      /\ \A a \in Policies, b \in Runs :
            \/ pvp'[a][b] = pvp[a][b]
            \/ /\ a = p /\ b = m /\ pvp[a][b].row
               /\ pvp'[a][b] = [pvp[a][b] EXCEPT !.pct = task[t].share]
  <2>1. CASE summary = {}
    BY <1>1, <1>3, <2>1
  <2>2. CASE summary # {}
    <3> DEFINE row == [pvp[p][m] EXCEPT !.pct = task[t].share]
    <3>1. pvp' = [pvp EXCEPT ![p] = [pvp[p] EXCEPT ![m] = row]]
      BY <1>1, <2>2
    <3>2. row \in PayrollRec
      <4>1. pvp[p][m] \in PayrollRec
        BY <1>2, <1>3, <1>5, <2>2 DEF Table
      <4> QED  BY <1>2, <4>1 DEF PayrollRec
    <3> HIDE DEF row
    <3>3. pvp' \in Table(PayrollRec)
      BY <1>2, <1>3, <1>5, <2>2, <3>1, <3>2 DEF Table
    <3>4. \A a \in Policies, b \in Runs : pvp'[a][b] = IF a = p /\ b = m THEN row ELSE pvp[a][b]
      BY <1>2, <1>3, <1>5, <2>2, <3>1 DEF Table
    <3> QED  BY <1>5, <2>2, <3>3, <3>4 DEF row
  <2> QED  BY <2>1, <2>2
<1>8. /\ task' \in [Tasks -> TaskRec] /\ TaskIsKnown(t)'
      /\ \A u \in Tasks : u # t => task'[u] = task[u]
      /\ task'[t].run = task[t].run
      /\ task'[t].pc \in {"read", "narrate", "done"}
      /\ Automatic(t) => /\ task'[t].todo = task[t].todo \ {p}
                         /\ task'[t].pc = IF task'[t].todo = {} THEN "done" ELSE "read"
      /\ ~Automatic(t) => task'[t].todo = task[t].todo /\ task'[t].pc = "narrate"
  BY <1>1, AfterIs DEF p
<1>9. \A a \in Policies, b \in Runs :
         /\ \/ pv'[a][b] = pv[a][b]
            \/ /\ task[t].pc = "persist" /\ a = task[t].policy /\ pv[a][b].id # 0
               /\ pv'[a][b] = [pv[a][b] EXCEPT !.pct = pv'[a][b].pct]
         /\ \/ pvp'[a][b] = pvp[a][b]
            \/ pvp[a][b].row /\ pvp'[a][b] = [pvp[a][b] EXCEPT !.pct = pvp'[a][b].pct]
  <2> TAKE a \in Policies, b \in Runs
  <2>1. pv[a][b] \in PremiumRec /\ pvp[a][b] \in PayrollRec
    BY <1>3 DEF Table
  <2>2. \/ pv'[a][b] = pv[a][b]
        \/ /\ task[t].pc = "persist" /\ a = task[t].policy /\ pv[a][b].id # 0
           /\ pv'[a][b] = [pv[a][b] EXCEPT !.pct = pv'[a][b].pct]
    <3>1. [pv[a][b] EXCEPT !.pct = x].pct = x
      BY <2>1 DEF PremiumRec
    <3>2. \/ pv'[a][b] = pv[a][b]
          \/ a = p /\ pv[a][b].id # 0 /\ pv'[a][b] = [pv[a][b] EXCEPT !.pct = x]
      BY <1>6
    <3>3. CASE pv'[a][b] = [pv[a][b] EXCEPT !.pct = x]
      <4>1. pv'[a][b].pct = x
        BY <3>1, <3>3
      <4>2. pv'[a][b] = [pv[a][b] EXCEPT !.pct = pv'[a][b].pct]
        BY <3>3, <4>1
      <4> QED  BY <1>1, <3>2, <4>2 DEF p
    <3> QED  BY <3>2, <3>3
  <2>3. \/ pvp'[a][b] = pvp[a][b]
        \/ pvp[a][b].row /\ pvp'[a][b] = [pvp[a][b] EXCEPT !.pct = pvp'[a][b].pct]
    BY <1>7, <2>1 DEF PayrollRec
  <2> QED  BY <2>2, <2>3
<1>10. EngineFrame(t)
  BY <1>1, <1>8, <1>9 DEF EngineFrame
<1>11. TypeOK'
  BY <1>1, <1>6, <1>7, <1>8 DEF TypeInv, TypeOK
<1>12. \A a \in Policies, b \in Runs :
         \/ pv'[a][b] = pv[a][b]
         \/ /\ a = task[t].policy /\ b = NewestPremium(a) /\ PremiumRuns(a) # {}
            /\ pv'[a][b].pct = Stored(t, pv[a][b])
  <2> TAKE a \in Policies, b \in Runs
  <2>1. pv[a][b] \in PremiumRec
    BY <1>3 DEF Table
  <2>2. \/ pv'[a][b] = pv[a][b]
        \/ /\ a = p /\ b = n /\ PremiumRuns(p) # {} /\ pv'[a][b].pct = x /\ x = Stored(t, pv[p][n])
    <3>1. PremiumRuns(p) # {} => x = Stored(t, pv[p][n])
      BY <1>4
    <3>2. [pv[a][b] EXCEPT !.pct = x].pct = x
      BY <2>1 DEF PremiumRec
    <3> QED  BY <1>6, <3>1, <3>2
  <2> QED  BY <2>2 DEF n, p
<1> QED  BY <1>1, <1>8, <1>10, <1>11, <1>12 DEF p

LEMMA EngineStepIs ==
    ASSUME TypeInv, NEW t \in Tasks, EngineStep(t)
    PROVE  EngineFrame(t) /\ TypeOK' /\ TaskIsKnown(t)'
BY AuditStartIs, ReadContextIs, DetectZeroIs, DetectMissingIs, UpdateRiskIs, PersistIs, NarrateIs,
   EngineFailsIs DEF EngineStep

LEMMA TypeInvInductive == TypeInv /\ [Next]_vars => TypeInv'
<1> SUFFICES ASSUME TypeInv, [Next]_vars PROVE TypeInv'
  OBVIOUS
<1>1. ASSUME NEW r \in Runs, ParseStep(r)
      PROVE  TypeInv'
  <2>1. ParseFrame(r) /\ TypeOK'
    BY <1>1, ParseStepIs
  <2>2. TaskKnown'
    <3>1. CASE Finish(r)
      <4>1. task'[r].run = r /\ (task'[r].pc = IF task'[r].todo = {} THEN "done" ELSE "read")
        BY <3>1, FinishIs
      <4>2. \A t \in Tasks : t # r => task'[t] = task[t]
        BY <2>1 DEF ParseFrame
      <4> QED  BY <4>1, <4>2 DEF TypeInv, TaskKnown, Working
    <3>2. CASE ~Finish(r)
      <4>1. task' = task
        <5>1. CASE run[r] = "finish" /\ run'[r] = "complete"
          <6>1. ParseFails(r)
            BY <1>1, <3>2, <5>1 DEF ParseStep, Upload, ParsePolicy, ParseRows, ClearPeriods,
                                    WriteSummary, WritePeriods, WritePremium
          <6> QED  BY <6>1 DEF ParseFails
        <5> QED  BY <2>1, <5>1 DEF ParseFrame
      <4> QED  BY <4>1 DEF TypeInv, TaskKnown, Working
    <3> QED  BY <3>1, <3>2
  <2>3. RunsHaveFiles'
    <3>1. /\ \A q \in Runs : q # r => run'[q] = run[q]
          /\ r \in DOMAIN scenario.files /\ scenario' = scenario
      BY <2>1 DEF ParseFrame
    <3> QED  BY <3>1 DEF TypeInv, RunsHaveFiles
  <2> QED  BY <2>1, <2>2, <2>3 DEF TypeInv
<1>2. ASSUME NEW r \in Runs, UndoStep(r)
      PROVE  TypeInv'
  <2>1. /\ TypeOK' /\ task' = task /\ scenario' = scenario /\ run[r] # "none"
        /\ \A q \in Runs : q # r => run'[q] = run[q]
    BY <1>2, UndoStartIs, UndoRowsIs DEF UndoStep
  <2>2. TaskKnown'
    BY <2>1 DEF TypeInv, TaskKnown, Working
  <2>3. RunsHaveFiles'
    BY <2>1 DEF TypeInv, RunsHaveFiles
  <2> QED  BY <2>1, <2>2, <2>3 DEF TypeInv
<1>3. ASSUME NEW t \in Tasks, EngineStep(t)
      PROVE  TypeInv'
  <2>1. EngineFrame(t) /\ TypeOK' /\ TaskIsKnown(t)'
    BY <1>3, EngineStepIs
  <2>2. /\ run' = run /\ scenario' = scenario /\ \A u \in Tasks : u # t => task'[u] = task[u]
    BY <2>1 DEF EngineFrame
  <2>3. TaskKnown'
    BY <2>1, <2>2 DEF TypeInv, TaskKnown, TaskIsKnown, Working
  <2>4. RunsHaveFiles'
    BY <2>2 DEF TypeInv, RunsHaveFiles
  <2> QED  BY <2>1, <2>3, <2>4 DEF TypeInv
<1>4. CASE UNCHANGED vars
  BY <1>4 DEF vars, facts, TypeInv, TypeOK, TaskKnown, Working, RunsHaveFiles
<1> QED  BY <1>1, <1>2, <1>3, <1>4 DEF Next

LEMMA TypeInvHolds == Spec => []TypeInv
<1> QED  BY TypeInvInit, TypeInvInductive, PTL DEF Spec

(* Types of all tables, runs and tasks, whatever is parsed, calculated,    *)
(* audited and rolled back in whatever order.                              *)
THEOREM FiguresTypeCorrect == Spec => []TypeOK
<1>1. TypeInv => TypeOK
  BY DEF TypeInv
<1> QED  BY <1>1, TypeInvHolds, PTL

-----------------------------------------------------------------------------
(* Nothing stays of a run that was rolled back.                            *)

(* Where a table may have a row: of a policy and a file that names it,     *)
(* which started and was not rolled back.                                  *)
Home(p, q) == /\ q \in DOMAIN scenario.files /\ p \in File(q).policies
              /\ run[q] \notin {"none", "rolled_back"}

Housed == \A p \in Policies, q \in Runs : Home(p, q) \/ Blank(p, q)

LEMMA HousedInit == Init => Housed
BY Sizes DEF Init, Housed, Blank, Filled, NoPremium, NoPayroll

LEMMA HousedInductive == TypeInv /\ Housed /\ [Next]_vars => Housed'
<1> SUFFICES ASSUME TypeInv, Housed, [Next]_vars,
                    NEW p \in Policies, NEW q \in Runs, ~Home(p, q)'
             PROVE  Blank(p, q)'
  BY DEF Housed
<1>1. ASSUME NEW r \in Runs, ParseStep(r)
      PROVE  Blank(p, q)'
  <2>1. ParseFrame(r)
    BY <1>1, ParseStepIs
  <2>2. /\ scenario' = scenario /\ r \in DOMAIN scenario.files
        /\ \A s \in Runs : s # r => run'[s] = run[s]
        /\ run'[r] \in Parsing \cup {"complete", "failed"}
    BY <2>1 DEF ParseFrame
  <2>3. p \notin File(r).policies \/ q # r
    BY <2>2 DEF Home, File, Parsing
  <2>4. ~Home(p, q)
    <3>1. CASE q # r
      BY <2>2, <3>1 DEF Home, File
    <3>2. CASE q = r
      BY <2>3, <3>2 DEF Home
    <3> QED  BY <3>1, <3>2
  <2>5. Blank(p, q)
    BY <2>4 DEF Housed
  <2>6. CASE p \notin File(r).policies
    <3>1. SameCell(p, q)
      BY <2>1, <2>6 DEF ParseFrame
    <3> QED  BY <2>5, <3>1 DEF SameCell, Blank
  <2>7. CASE q # r
    <3>1. /\ PremiumStep(r, p, q) /\ PayrollStep(r, p, q)
          /\ pvc'[p][q] = pvc[p][q] /\ zero'[p][q] = zero[p][q] /\ missing'[p][q] = missing[p][q]
      BY <2>1, <2>7 DEF ParseFrame
    <3>2. pv'[p][q].id = 0
      BY <2>5, <2>7, <3>1 DEF PremiumStep, Blank
    <3>3. ~pvp'[p][q].row /\ pvp'[p][q].periods = 0
      <4>1. pvp[p][q] \in PayrollRec
        BY DEF TypeInv, TypeOK, Table
      <4>2. \/ pvp'[p][q] = pvp[p][q]
            \/ pvp'[p][q] = [pvp[p][q] EXCEPT !.periods = 0]
        BY <2>7, <3>1 DEF PayrollStep
      <4> QED  BY <2>5, <4>1, <4>2 DEF Blank, PayrollRec
    <3> QED  BY <2>5, <3>1, <3>2, <3>3 DEF Blank
  <2> QED  BY <2>3, <2>6, <2>7
<1>2. ASSUME NEW r \in Runs, UndoStep(r)
      PROVE  Blank(p, q)'
  <2>1. CASE UndoStart(r)
    <3>1. /\ UNCHANGED <<facts, scenario>> /\ run[r] = "complete" /\ run'[r] = "rolling_back"
          /\ \A s \in Runs : s # r => run'[s] = run[s]
      BY <2>1, UndoStartIs
    <3>2. ~Home(p, q)
      BY <3>1 DEF Home, File
    <3> QED  BY <3>1, <3>2 DEF Housed, Blank, facts
  <2>2. CASE UndoRows(r)
    <3>1. /\ scenario' = scenario
          /\ \A s \in Runs : s # r => run'[s] = run[s]
          /\ \A a \in Policies, b \in Runs : b # r => SameCell(a, b)
          /\ \A a \in Policies : Blank(a, r)'
      BY <2>2, UndoRowsIs
    <3>2. CASE q = r
      BY <3>1, <3>2
    <3>3. CASE q # r
      <4>1. ~Home(p, q)
        BY <3>1, <3>3 DEF Home, File
      <4> QED  BY <3>1, <3>3, <4>1 DEF Housed, Blank, SameCell
    <3> QED  BY <3>2, <3>3
  <2> QED  BY <1>2, <2>1, <2>2 DEF UndoStep
<1>3. ASSUME NEW t \in Tasks, EngineStep(t)
      PROVE  Blank(p, q)'
  <2>1. EngineFrame(t)
    BY <1>3, EngineStepIs
  <2>2. run' = run /\ scenario' = scenario /\ pvc' = pvc /\ missing' = missing
    BY <2>1 DEF EngineFrame
  <2>3. Blank(p, q)
    BY <2>2 DEF Housed, Home, File
  <2>4. pv'[p][q] = pv[p][q]
    <3>1. \/ pv'[p][q] = pv[p][q]
          \/ pv[p][q].id # 0
      BY <2>1 DEF EngineFrame
    <3> QED  BY <2>3, <3>1 DEF Blank
  <2>5. pvp'[p][q] = pvp[p][q]
    <3>1. \/ pvp'[p][q] = pvp[p][q]
          \/ pvp[p][q].row
      BY <2>1 DEF EngineFrame
    <3> QED  BY <2>3, <3>1 DEF Blank
  <2>6. zero'[p][q] = 0
    <3>1. zero'[p][q] \in {zero[p][q], zero[p][q] + pvc[p][q].idle}
      BY <2>1 DEF EngineFrame
    <3> QED  BY <2>3, <3>1 DEF Blank
  <2> QED  BY <2>2, <2>3, <2>4, <2>5, <2>6 DEF Blank
<1>4. CASE UNCHANGED vars
  BY <1>4 DEF vars, facts, Housed, Home, Blank, File
<1> QED  BY <1>1, <1>2, <1>3, <1>4 DEF Next

LEMMA HousedHolds == Spec => []Housed
<1> QED  BY HousedInit, HousedInductive, TypeInvHolds, PTL DEF Spec

LEMMA HousedForgets == TypeInv /\ Housed => RollbackForgets
<1> SUFFICES ASSUME TypeInv, Housed, NEW p \in Policies, NEW r \in Runs,
                    FilesOf(p) = {r}, run[r] = "rolled_back"
             PROVE  /\ Received(p) = 0 /\ MissingRows(p) = 0
                    /\ PremiumRuns(p) = {}
                    /\ \A q \in Runs : zero[p][q] + pvc[p][q].busy + pvc[p][q].idle = 0
  BY DEF RollbackForgets
<1>1. ASSUME NEW q \in Runs
      PROVE  Blank(p, q)
  <2>1. ~Home(p, q)
    BY DEF Home, FilesOf, File
  <2> QED  BY <2>1 DEF Housed
<1>2. PremiumRuns(p) = {}
  BY <1>1 DEF PremiumRuns, Blank
<1>3. \A q \in Runs : zero[p][q] + pvc[p][q].busy + pvc[p][q].idle = 0
  BY <1>1 DEF Blank
<1>4. 1 .. 0 = {}
  OBVIOUS
<1>5. Received(p) = 0
  <2>1. {q \in Runs : pvp[p][q].row} = {}
    BY <1>1 DEF Blank
  <2>2. UNION {{q} \X (1 .. pvp[p][q].periods) : q \in Runs} = {}
    BY <1>1, <1>4 DEF Blank
  <2>3. Cardinality({}) = 0
    BY FS_EmptySet
  <2>4. Received(p) = Cardinality({q \in Runs : pvp[p][q].row})
                      + Cardinality(UNION {{q} \X (1 .. pvp[p][q].periods) : q \in Runs})
    BY DEF Received
  <2>5. Received(p) = Cardinality({}) + Cardinality({})
    BY <2>1, <2>2, <2>4, Zenon
  <2> QED  BY <2>3, <2>5
<1>6. MissingRows(p) = 0
  <2>1. UNION {{q} \X (1 .. missing[p][q]) : q \in Runs} = {}
    BY <1>1, <1>4 DEF Blank
  <2> QED  BY <2>1, FS_EmptySet DEF MissingRows
<1> QED  BY <1>2, <1>3, <1>5, <1>6

(* A run that was rolled back leaves nothing in the five tables: neither   *)
(* the rows its parser wrote, nor those with a negative run id, nor what   *)
(* the engine or an audit adds to them, before or after the rollback.      *)
THEOREM RolledBackIsForgotten == Spec => []RollbackForgets
<1> QED  BY HousedForgets, HousedHolds, TypeInvHolds, PTL

-----------------------------------------------------------------------------
(* What holds of any events: files start in their order; a run has no      *)
(* premium row before it writes one; a row that is not there has no        *)
(* percentage; the older periods are cleared by reports alone.             *)

Early == {"none", "policy", "rows", "clear", "summary", "periods", "premium"}

Orderly == \A q, r \in Runs : q < r /\ run[r] # "none" => run[q] # "none"

Unwritten == \A r \in Runs : run[r] \in Early => \A p \in Policies : pv[p][r].id = 0

Unmarked == \A p \in Policies, r \in Runs : pv[p][r].id = 0 => pv[p][r].pct = None

ReportsClear == \A r \in Runs : run[r] \in {"clear", "summary", "periods"} => Kind(r) = "audit_report"

Base == TypeInv /\ Housed /\ Orderly /\ Unwritten /\ Unmarked /\ ReportsClear

(* Every step is one of a parser, a rollback or a task. *)
LEMMA StepCases ==
    ASSUME [Next]_vars
    PROVE  \/ \E r \in Runs : ParseStep(r)
           \/ \E r \in Runs : UndoStart(r)
           \/ \E r \in Runs : UndoRows(r)
           \/ \E t \in Tasks : EngineStep(t)
           \/ UNCHANGED <<policy, pv, pvp, pvc, zero, missing, run, task, scenario>>
BY DEF Next, UndoStep, vars, facts

LEMMA EarlyStep ==
    ASSUME TypeInv, NEW r \in Runs, ParseStep(r), run'[r] \in Early
    PROVE  run[r] \in Early /\ pv' = pv
<1>1. CASE Upload(r)
  BY <1>1 DEF Upload, Early, facts
<1>2. CASE ParsePolicy(r)
  BY <1>2 DEF ParsePolicy, Early, facts
<1>3. CASE ParseRows(r)
  <2>1. run[r] = "rows"
    BY <1>3 DEF ParseRows
  <2>2. run'[r] # "finish"
    BY DEF Early
  <2> QED  BY <1>3, <2>1, <2>2, ParseRowsIs DEF Early
<1>4. CASE ClearPeriods(r)
  BY <1>4, ClearPeriodsIs DEF Early
<1>5. CASE WriteSummary(r)
  BY <1>5, WriteSummaryIs DEF Early
<1>6. CASE WritePeriods(r)
  BY <1>6, WritePeriodsIs DEF Early
<1>7. CASE WritePremium(r)
  BY <1>7, WritePremiumFrame DEF Early
<1>8. CASE Finish(r)
  BY <1>8, FinishIs DEF Early
<1>9. CASE ParseFails(r)
  <2>1. run'[r] = "failed"
    BY <1>9 DEF ParseFails, Goto, TypeInv, TypeOK
  <2> QED  BY <2>1 DEF Early
<1> QED  BY <1>1, <1>2, <1>3, <1>4, <1>5, <1>6, <1>7, <1>8, <1>9 DEF ParseStep

(* Only a report goes to the states that clear. *)
LEMMA ClearStep ==
    ASSUME TypeInv, NEW r \in Runs, ParseStep(r), run'[r] \in {"clear", "summary", "periods"}
    PROVE  run[r] \in {"clear", "summary", "periods"} \/ Kind(r) = "audit_report"
<1>1. CASE Upload(r)
  <2>1. run'[r] \in {"policy", "rows"}
    BY <1>1 DEF Upload, Goto, TypeInv, TypeOK
  <2> QED  BY <2>1
<1>2. CASE ParsePolicy(r)
  <2>1. run'[r] = "rows"
    BY <1>2 DEF ParsePolicy, Goto, TypeInv, TypeOK
  <2> QED  BY <2>1
<1>3. CASE ParseRows(r)
  BY <1>3, ParseRowsIs
<1>4. CASE ClearPeriods(r)
  BY <1>4, ClearPeriodsIs
<1>5. CASE WriteSummary(r)
  BY <1>5, WriteSummaryIs
<1>6. CASE WritePeriods(r)
  BY <1>6, WritePeriodsIs
<1>7. CASE WritePremium(r)
  BY <1>7, WritePremiumFrame
<1>8. CASE Finish(r)
  BY <1>8, FinishIs
<1>9. CASE ParseFails(r)
  <2>1. run'[r] = "failed"
    BY <1>9 DEF ParseFails, Goto, TypeInv, TypeOK
  <2> QED  BY <2>1
<1> QED  BY <1>1, <1>2, <1>3, <1>4, <1>5, <1>6, <1>7, <1>8, <1>9 DEF ParseStep

LEMMA BaseInit == Init => Base
<1> SUFFICES ASSUME Init PROVE Base
  OBVIOUS
<1>1. \A p \in Policies, r \in Runs : pv[p][r] = NoPremium
  BY DEF Init, Filled
<1>2. Unwritten /\ Unmarked
  BY <1>1 DEF Unwritten, Unmarked, NoPremium
<1>3. Orderly /\ ReportsClear
  BY DEF Init, Orderly, ReportsClear
<1> QED  BY <1>2, <1>3, TypeInvInit, HousedInit DEF Base

(* The step of a file that is not the first to start. *)
LEMMA InOrder ==
    ASSUME Base, NEW r \in Runs, ParseStep(r)
    PROVE  \A q \in Runs : q < r => run[q] # "none"
<1>1. CASE Upload(r)
  BY <1>1 DEF Upload
<1>2. CASE ~Upload(r)
  <2>1. run[r] # "none"
    BY <1>2 DEF ParseStep, ParsePolicy, ParseRows, ClearPeriods, WriteSummary, WritePeriods,
                WritePremium, Finish, ParseFails, Parsing
  <2> QED  BY <2>1 DEF Base, Orderly
<1> QED  BY <1>1, <1>2

LEMMA BaseInductive == Base /\ [Next]_vars => Base'
<1> SUFFICES ASSUME Base, [Next]_vars PROVE Base'
  OBVIOUS
<1>1. TypeInv /\ TypeInv' /\ Housed'
  BY TypeInvInductive, HousedInductive DEF Base
<1>2. ASSUME NEW r \in Runs, ParseStep(r)
      PROVE  (Orderly /\ Unwritten /\ Unmarked /\ ReportsClear)'
  <2>1. ParseFrame(r)
    BY <1>1, <1>2, ParseStepIs
  <2>2. /\ scenario' = scenario /\ \A s \in Runs : s # r => run'[s] = run[s]
        /\ run'[r] # "none"
        /\ \A p \in Policies, q \in Runs : PremiumStep(r, p, q)
    BY <2>1 DEF ParseFrame, Parsing
  <2>3. Orderly'
    <3>1. \A q \in Runs : q < r => run[q] # "none"
      BY <1>2, InOrder
    <3>2. \A q, s \in Runs : q < s /\ run[s] # "none" => run[q] # "none"
      BY DEF Base, Orderly
    <3> QED  BY <2>2, <3>1, <3>2 DEF Orderly
  <2>4. ASSUME NEW q \in Runs, run'[q] \in Early, NEW p \in Policies
        PROVE  pv'[p][q].id = 0
    <3>1. CASE q = r
      BY <1>1, <1>2, <2>4, <3>1, EarlyStep DEF Base, Unwritten
    <3>2. CASE q # r
      <4>1. pv[p][q].id = 0
        BY <2>2, <2>4, <3>2 DEF Base, Unwritten
      <4> QED  BY <2>2, <3>2, <4>1 DEF PremiumStep
    <3> QED  BY <3>1, <3>2
  <2>5. ASSUME NEW p \in Policies, NEW q \in Runs, pv'[p][q].id = 0
        PROVE  pv'[p][q].pct = None
    <3>1. NextId > 0
      BY <1>1, NextIdIsNew DEF TypeInv, TypeOK
    <3>2. NextId \in Nat /\ ~ (0 >= NextId)
      BY <1>1, <3>1, NextIdIsNew DEF TypeInv, TypeOK
    <3>3. pv'[p][q] = pv[p][q]
      BY <2>2, <2>5, <3>2 DEF PremiumStep
    <3> QED  BY <2>5, <3>3 DEF Base, Unmarked
  <2>6. ASSUME NEW q \in Runs, run'[q] \in {"clear", "summary", "periods"}
        PROVE  Kind(q)' = "audit_report"
    <3>1. Kind(q)' = Kind(q)
      BY <2>2 DEF Kind, File
    <3>2. CASE q = r
      BY <1>1, <1>2, <2>6, <3>1, <3>2, ClearStep DEF Base, ReportsClear
    <3>3. CASE q # r
      BY <2>2, <2>6, <3>1, <3>3 DEF Base, ReportsClear
    <3> QED  BY <3>2, <3>3
  <2> QED  BY <2>3, <2>4, <2>5, <2>6 DEF Unwritten, Unmarked, ReportsClear
<1>3. ASSUME NEW r \in Runs, UndoStart(r)
      PROVE  (Orderly /\ Unwritten /\ Unmarked /\ ReportsClear)'
  <2>1. /\ UNCHANGED <<pv, scenario>> /\ run[r] = "complete" /\ run'[r] = "rolling_back"
        /\ \A s \in Runs : s # r => run'[s] = run[s]
    BY <1>1, <1>3, UndoStartIs DEF facts
  <2>2. \A q \in Runs : Kind(q)' = Kind(q)
    BY <2>1 DEF Kind, File
  <2> QED  BY <2>1, <2>2 DEF Base, Orderly, Unwritten, Unmarked, ReportsClear, Early
<1>4. ASSUME NEW r \in Runs, UndoRows(r)
      PROVE  (Orderly /\ Unwritten /\ Unmarked /\ ReportsClear)'
  <2>1. /\ scenario' = scenario /\ run[r] = "rolling_back" /\ run'[r] = "rolled_back"
        /\ \A s \in Runs : s # r => run'[s] = run[s]
        /\ \A p \in Policies, q \in Runs : q # r => SameCell(p, q)
        /\ \A p \in Policies : pv'[p][r] = NoPremium
    BY <1>1, <1>4, UndoRowsIs
  <2>2. \A q \in Runs : Kind(q)' = Kind(q)
    BY <2>1 DEF Kind, File
  <2>3. \A p \in Policies, q \in Runs : q # r => pv'[p][q] = pv[p][q]
    BY <2>1 DEF SameCell
  <2>4. Orderly' /\ ReportsClear'
    BY <2>1, <2>2 DEF Base, Orderly, ReportsClear
  <2>5. Unwritten'
    BY <2>1, <2>3 DEF Base, Unwritten, Early
  <2>6. Unmarked'
    BY <2>1, <2>3 DEF Base, Unmarked, NoPremium
  <2> QED  BY <2>4, <2>5, <2>6
<1>5. ASSUME NEW t \in Tasks, EngineStep(t)
      PROVE  (Orderly /\ Unwritten /\ Unmarked /\ ReportsClear)'
  <2>1. EngineFrame(t)
    BY <1>1, <1>5, EngineStepIs
  <2>2. run' = run /\ scenario' = scenario
    BY <2>1 DEF EngineFrame
  <2>3. ASSUME NEW p \in Policies, NEW q \in Runs
        PROVE  /\ pv'[p][q].id = pv[p][q].id
               /\ pv[p][q].id = 0 => pv'[p][q] = pv[p][q]
    <3>1. \/ pv'[p][q] = pv[p][q]
          \/ pv[p][q].id # 0 /\ pv'[p][q] = [pv[p][q] EXCEPT !.pct = pv'[p][q].pct]
      BY <2>1 DEF EngineFrame
    <3>2. pv[p][q] \in PremiumRec
      BY <1>1 DEF TypeInv, TypeOK, Table
    <3>3. ASSUME NEW x
          PROVE  [pv[p][q] EXCEPT !.pct = x].id = pv[p][q].id
      BY <3>2 DEF PremiumRec
    <3> QED  BY <3>1, <3>3
  <2>4. \A q \in Runs : Kind(q)' = Kind(q)
    BY <2>2 DEF Kind, File
  <2> QED  BY <2>2, <2>3, <2>4 DEF Base, Orderly, Unwritten, Unmarked, ReportsClear
<1>6. ASSUME UNCHANGED <<policy, pv, pvp, pvc, zero, missing, run, task, scenario>>
      PROVE  (Orderly /\ Unwritten /\ Unmarked /\ ReportsClear)'
  <2>1. \A q \in Runs : Kind(q)' = Kind(q)
    BY <1>6 DEF Kind, File
  <2> QED  BY <1>6, <2>1 DEF Base, Orderly, Unwritten, Unmarked, ReportsClear
<1>7. (Orderly /\ Unwritten /\ Unmarked /\ ReportsClear)'
  <2> DEFINE Rest == (Orderly /\ Unwritten /\ Unmarked /\ ReportsClear)'
  <2>1. /\ \A r \in Runs : ParseStep(r) => Rest
        /\ \A r \in Runs : UndoStart(r) => Rest
        /\ \A r \in Runs : UndoRows(r) => Rest
        /\ \A t \in Tasks : EngineStep(t) => Rest
    BY <1>2, <1>3, <1>4, <1>5
  <2> HIDE DEF Rest
  <2>2. Rest
    BY <1>6, <2>1, StepCases DEF Rest
  <2> QED  BY <2>2 DEF Rest
<1> QED  BY <1>1, <1>7 DEF Base

LEMMA BaseHolds == Spec => []Base
<1> QED  BY BaseInit, BaseInductive, PTL DEF Spec

-----------------------------------------------------------------------------
(* Without overlap: one pipeline, one rollback or one task at a time, and  *)
(* the file that is parsed is the last that started.                       *)

Active(r) == run[r] \in Parsing \cup {"rolling_back"}

Alone ==
    /\ \A q, r \in Runs : Active(q) /\ Active(r) => q = r
    /\ \A t, u \in Tasks : Working(t) /\ Working(u) => t = u
    /\ \A r \in Runs, t \in Tasks : Active(r) => ~Working(t)
    /\ \A q, r \in Runs : run[r] \in Parsing /\ r < q => run[q] = "none"

Calm == ~Event("overlap") => Alone

LEMMA QuietIs == Quiet <=> (\A r \in Runs : ~Active(r)) /\ (\A t \in Tasks : ~Working(t))
BY DEF Quiet, Active, Working

(* Who steps, when nothing overlaps. *)
LEMMA ParserAlone ==
    ASSUME Base, Alone, ~Event("overlap"), NEW r \in Runs, ParseStep(r)
    PROVE  /\ \A q \in Runs : q # r => ~Active(q)
           /\ \A t \in Tasks : ~Working(t)
           /\ \A q \in Runs : r < q => run[q] = "none"
<1>1. CASE Upload(r)
  <2>1. Quiet /\ run[r] = "none"
    BY <1>1 DEF Upload
  <2>2. \A q \in Runs : r < q => run[q] = "none"
    BY <2>1 DEF Base, Orderly
  <2> QED  BY <2>1, <2>2, QuietIs
<1>2. CASE ~Upload(r)
  <2>1. run[r] \in Parsing
    BY <1>2 DEF ParseStep, ParsePolicy, ParseRows, ClearPeriods, WriteSummary, WritePeriods,
                WritePremium, Finish, ParseFails, Parsing
  <2> QED  BY <2>1 DEF Alone, Active
<1> QED  BY <1>1, <1>2

LEMMA TaskAlone ==
    ASSUME Base, Alone, ~Event("overlap"), NEW t \in Tasks, EngineStep(t)
    PROVE  /\ \A u \in Tasks : u # t => ~Working(u)
           /\ \A r \in Runs : ~Active(r)
<1>1. CASE \E r \in Runs : AuditStart(t, r)
  <2>1. Quiet
    BY <1>1 DEF AuditStart
  <2> QED  BY <2>1, QuietIs
<1>2. CASE ~ \E r \in Runs : AuditStart(t, r)
  <2>1. Working(t)
    BY <1>2 DEF EngineStep, ReadContext, DetectZero, DetectMissing, UpdateRisk, Persist, Narrate,
                EngineFails, Working
  <2> QED  BY <2>1 DEF Alone
<1> QED  BY <1>1, <1>2

LEMMA CalmInit == Init => Calm
<1> SUFFICES ASSUME Init PROVE Alone
  BY DEF Calm
<1>1. \A r \in Runs : run[r] = "none"
  BY DEF Init
<1>2. \A t \in Tasks : ~Working(t)
  BY DEF Init, Working, NoTask
<1> QED  BY <1>1, <1>2 DEF Alone, Active, Parsing

LEMMA CalmInductive == Base /\ Calm /\ [Next]_vars => Calm'
<1> SUFFICES ASSUME Base, Calm, [Next]_vars, ~Event("overlap")'
             PROVE  Alone'
  BY DEF Calm
<1>1. TypeInv
  BY DEF Base
<1> DEFINE Goal == Alone'
<1>2. ASSUME NEW r \in Runs, ParseStep(r)
      PROVE  Goal
  <2>1. ParseFrame(r)
    BY <1>1, <1>2, ParseStepIs
  <2>2. scenario' = scenario /\ \A q \in Runs : q # r => run'[q] = run[q]
    BY <2>1 DEF ParseFrame
  <2>3. Alone /\ ~Event("overlap")
    BY <2>2 DEF Calm, Event
  <2>4. /\ \A q \in Runs : q # r => ~Active(q)
        /\ \A t \in Tasks : ~Working(t)
        /\ \A q \in Runs : r < q => run[q] = "none"
    BY <1>2, <2>3, ParserAlone
  <2>5. \A q \in Runs : q # r => ~Active(q)'
    BY <2>2, <2>4 DEF Active
  <2>6. /\ \A t \in Tasks : t # r => ~Working(t)'
        /\ Active(r)' => ~Working(r)'
    <3>1. \A t \in Tasks : t # r => ~Working(t)'
      BY <2>1, <2>4 DEF ParseFrame, Working
    <3>2. ASSUME Active(r)' PROVE ~Working(r)'
      <4>1. run'[r] # "complete"
        BY <3>2 DEF Active, Parsing
      <4>2. task' = task /\ r \in Tasks
        BY <2>1, <4>1, Sizes DEF ParseFrame
      <4> QED  BY <2>4, <4>2 DEF Working
    <3> QED  BY <3>1, <3>2
  <2>7. \A q, s \in Runs : run'[s] \in Parsing /\ s < q => run'[q] = "none"
    <3>1. \A s \in Runs : s # r => run'[s] \notin Parsing
      BY <2>5 DEF Active
    <3>2. \A q \in Runs : r < q => q # r
      BY Sizes
    <3> QED  BY <2>2, <2>4, <3>1, <3>2
  <2> QED  BY <2>5, <2>6, <2>7 DEF Alone
<1>3. ASSUME NEW r \in Runs, UndoStart(r)
      PROVE  Goal
  <2>1. /\ UNCHANGED <<task, scenario>> /\ run'[r] = "rolling_back"
        /\ \A q \in Runs : q # r => run'[q] = run[q]
        /\ Event("overlap") \/ Quiet
    BY <1>1, <1>3, UndoStartIs
  <2>2. Quiet
    BY <2>1 DEF Event
  <2>3. \A q \in Runs : q # r => ~Active(q)'
    BY <2>1, <2>2, QuietIs DEF Active
  <2>4. \A t \in Tasks : ~Working(t)'
    BY <2>1, <2>2, QuietIs DEF Working
  <2>5. \A q \in Runs : run'[q] \notin Parsing
    BY <2>1, <2>3 DEF Active, Parsing
  <2> QED  BY <2>3, <2>4, <2>5 DEF Alone
<1>4. ASSUME NEW r \in Runs, UndoRows(r)
      PROVE  Goal
  <2>1. /\ UNCHANGED <<task, scenario>> /\ run[r] = "rolling_back" /\ run'[r] = "rolled_back"
        /\ \A q \in Runs : q # r => run'[q] = run[q]
    BY <1>1, <1>4, UndoRowsIs
  <2>2. Alone
    BY <2>1 DEF Calm, Event
  <2>3. \A q \in Runs : ~Active(q)'
    BY <2>1, <2>2 DEF Alone, Active, Parsing
  <2>4. \A t, u \in Tasks : Working(t)' /\ Working(u)' => t = u
    BY <2>1, <2>2 DEF Alone, Working
  <2>5. \A q \in Runs : run'[q] \notin Parsing
    BY <2>3 DEF Active
  <2> QED  BY <2>3, <2>4, <2>5 DEF Alone
<1>5. ASSUME NEW t \in Tasks, EngineStep(t)
      PROVE  Goal
  <2>1. EngineFrame(t)
    BY <1>1, <1>5, EngineStepIs
  <2>2. run' = run /\ scenario' = scenario /\ \A u \in Tasks : u # t => task'[u] = task[u]
    BY <2>1 DEF EngineFrame
  <2>3. Alone /\ ~Event("overlap")
    BY <2>2 DEF Calm, Event
  <2>4. (\A u \in Tasks : u # t => ~Working(u)) /\ \A r \in Runs : ~Active(r)
    BY <1>5, <2>3, TaskAlone
  <2>5. (\A u \in Tasks : u # t => ~Working(u)') /\ \A r \in Runs : ~Active(r)'
    BY <2>2, <2>4 DEF Working, Active
  <2>6. \A r \in Runs : run'[r] \notin Parsing
    BY <2>5 DEF Active
  <2> QED  BY <2>5, <2>6 DEF Alone
<1>6. ASSUME UNCHANGED <<policy, pv, pvp, pvc, zero, missing, run, task, scenario>>
      PROVE  Goal
  BY <1>6 DEF Calm, Event, Alone, Active, Working
<1> HIDE DEF Goal
<1>7. Goal
  BY <1>2, <1>3, <1>4, <1>5, <1>6, StepCases
<1> QED  BY <1>7 DEF Goal

LEMMA CalmHolds == Spec => []Calm
<1> QED  BY CalmInit, CalmInductive, BaseHolds, PTL DEF Spec

-----------------------------------------------------------------------------
(* Without overlap and late audits: the run of a task is the newest, its   *)
(* policies are of the file of that run, and what the task has read of a   *)
(* policy is still true when it writes.                                    *)

Placed(t) ==
    Working(t) =>
        /\ task[t].todo \subseteq File(task[t].run).policies
        /\ run[task[t].run] # "none" /\ Newest(task[t].run)
        /\ Automatic(t) => /\ task[t].run = t /\ task[t].pc # "narrate"
                           /\ \A q \in Runs : t < q => run[q] = "none"

Informed(t) ==
    /\ task[t].pc \in {"zero", "missing", "risk", "persist"} =>
          task[t].pct = Pct(pv[task[t].policy][task[t].run])
    /\ task[t].pc \in {"zero", "missing", "risk"} =>
          task[t].reported = ReportedAmount(task[t].policy, pvp[task[t].policy][task[t].run])
    /\ task[t].pc = "risk" => task[t].missing = MissingCount(task[t].policy)

Timely == ~Event("overlap") /\ ~Event("late_audit") => \A t \in Tasks : Placed(t) /\ Informed(t)

(* The reports that are missing depend on the date and the frequency of    *)
(* the policy, on the rows received and on the rows that are missing.      *)
LEMMA MissingSame ==
    ASSUME NEW p, policy'[p].dated = policy[p].dated, policy'[p].freq = policy[p].freq,
           \A q \in Runs : /\ missing'[p][q] = missing[p][q]
                           /\ pvp'[p][q].row = pvp[p][q].row /\ pvp'[p][q].periods = pvp[p][q].periods
    PROVE  Received(p)' = Received(p) /\ MissingCount(p)' = MissingCount(p)
<1>1. Received(p)' = Received(p)
  <2>1. {r \in Runs : pvp'[p][r].row} = {r \in Runs : pvp[p][r].row}
    OBVIOUS
  <2>2. {{r} \X (1 .. pvp'[p][r].periods) : r \in Runs} = {{r} \X (1 .. pvp[p][r].periods) : r \in Runs}
    OBVIOUS
  <2>3. /\ Received(p) = Cardinality({r \in Runs : pvp[p][r].row})
                         + Cardinality(UNION {{r} \X (1 .. pvp[p][r].periods) : r \in Runs})
        /\ Received(p)' = Cardinality({r \in Runs : pvp'[p][r].row})
                          + Cardinality(UNION {{r} \X (1 .. pvp'[p][r].periods) : r \in Runs})
    BY DEF Received
  <2> QED  BY <2>1, <2>2, <2>3, Zenon
<1>2. MissingRows(p)' = MissingRows(p)
  <2>1. {{r} \X (1 .. missing'[p][r]) : r \in Runs} = {{r} \X (1 .. missing[p][r]) : r \in Runs}
    OBVIOUS
  <2>2. /\ MissingRows(p) = Cardinality(UNION {{r} \X (1 .. missing[p][r]) : r \in Runs})
        /\ MissingRows(p)' = Cardinality(UNION {{r} \X (1 .. missing'[p][r]) : r \in Runs})
    BY DEF MissingRows
  <2> QED  BY <2>1, <2>2, Zenon
<1>3. MissingPeriods(p)' = MissingPeriods(p)
  <2> DEFINE Late(freq, received) ==
                 {i \in received .. AtLeastOne(TermDays \div CycleDays(freq)) - 1 :
                     LET days == Today - CycleDays(freq) * i
                     IN  days <= 0 \/ 2 * days > 3 * CycleDays(freq)}
             Of(dated, freq, received) ==
                 IF ~dated \/ freq = "none" THEN 0 ELSE Cardinality(Late(freq, received))
  <2>1. /\ MissingPeriods(p) = Of(policy[p].dated, policy[p].freq, Received(p))
        /\ MissingPeriods(p)' = Of(policy'[p].dated, policy'[p].freq, Received(p)')
    BY Zenon DEF MissingPeriods
  <2> HIDE DEF Of
  <2> QED  BY <1>1, <2>1
<1>4. /\ MissingCount(p) = IF MissingRows(p) > 0 THEN MissingRows(p) ELSE MissingPeriods(p)
      /\ MissingCount(p)' = IF MissingRows(p)' > 0 THEN MissingRows(p)' ELSE MissingPeriods(p)'
  BY Zenon DEF MissingCount
<1> QED  BY <1>1, <1>2, <1>3, <1>4

(* What a task reports of a row depends on the row and the policy. *)
LEMMA ReportedSame ==
    ASSUME NEW p, NEW q, policy'[p].dated = policy[p].dated, policy'[p].freq = policy[p].freq,
           pvp'[p][q].est = pvp[p][q].est, pvp'[p][q].rep = pvp[p][q].rep
    PROVE  ReportedAmount(p, pvp[p][q])' = ReportedAmount(p, pvp[p][q])
BY DEF ReportedAmount

LEMMA PctSame ==
    ASSUME NEW p, NEW q, pv'[p][q].id = pv[p][q].id, pv'[p][q].est = pv[p][q].est,
           pv'[p][q].act = pv[p][q].act
    PROVE  Pct(pv[p][q])' = Pct(pv[p][q])
BY DEF Pct

(* A task disturbs none of them. *)
LEMMA EngineSame ==
    ASSUME TypeInv, NEW t \in Tasks, EngineFrame(t), NEW p \in Policies
    PROVE  /\ Received(p)' = Received(p) /\ MissingCount(p)' = MissingCount(p)
           /\ \A q \in Runs : /\ Pct(pv[p][q])' = Pct(pv[p][q])
                              /\ ReportedAmount(p, pvp[p][q])' = ReportedAmount(p, pvp[p][q])
                              /\ pv'[p][q].id = pv[p][q].id
                              /\ pvp'[p][q].row = pvp[p][q].row
                              /\ pvp'[p][q].periods = pvp[p][q].periods
<1>1. /\ policy'[p].dated = policy[p].dated /\ policy'[p].freq = policy[p].freq /\ missing' = missing
  BY DEF EngineFrame
<1>2. ASSUME NEW q \in Runs
      PROVE  /\ pv'[p][q].id = pv[p][q].id /\ pv'[p][q].est = pv[p][q].est
             /\ pv'[p][q].act = pv[p][q].act
  <2>1. pv[p][q] \in PremiumRec
    BY DEF TypeInv, TypeOK, Table
  <2>2. pv'[p][q] = pv[p][q] \/ pv'[p][q] = [pv[p][q] EXCEPT !.pct = pv'[p][q].pct]
    BY DEF EngineFrame
  <2>3. ASSUME NEW x
        PROVE  /\ [pv[p][q] EXCEPT !.pct = x].id = pv[p][q].id
               /\ [pv[p][q] EXCEPT !.pct = x].est = pv[p][q].est
               /\ [pv[p][q] EXCEPT !.pct = x].act = pv[p][q].act
    BY <2>1 DEF PremiumRec
  <2> QED  BY <2>2, <2>3
<1>3. ASSUME NEW q \in Runs
      PROVE  /\ pvp'[p][q].row = pvp[p][q].row /\ pvp'[p][q].periods = pvp[p][q].periods
             /\ pvp'[p][q].est = pvp[p][q].est /\ pvp'[p][q].rep = pvp[p][q].rep
  <2>1. pvp[p][q] \in PayrollRec
    BY DEF TypeInv, TypeOK, Table
  <2>2. pvp'[p][q] = pvp[p][q] \/ pvp'[p][q] = [pvp[p][q] EXCEPT !.pct = pvp'[p][q].pct]
    BY DEF EngineFrame
  <2>3. ASSUME NEW x
        PROVE  /\ [pvp[p][q] EXCEPT !.pct = x].row = pvp[p][q].row
               /\ [pvp[p][q] EXCEPT !.pct = x].periods = pvp[p][q].periods
               /\ [pvp[p][q] EXCEPT !.pct = x].est = pvp[p][q].est
               /\ [pvp[p][q] EXCEPT !.pct = x].rep = pvp[p][q].rep
    BY <2>1 DEF PayrollRec
  <2> QED  BY <2>2, <2>3
<1>4. Received(p)' = Received(p) /\ MissingCount(p)' = MissingCount(p)
  BY <1>1, <1>3, MissingSame
<1>5. ASSUME NEW q \in Runs
      PROVE  Pct(pv[p][q])' = Pct(pv[p][q]) /\ ReportedAmount(p, pvp[p][q])' = ReportedAmount(p, pvp[p][q])
  BY <1>1, <1>2, <1>3, PctSame, ReportedSame
<1> QED  BY <1>2, <1>3, <1>4, <1>5

LEMMA FinishOnly ==
    ASSUME NEW r \in Runs, ParseStep(r)
    PROVE  Finish(r) \/ task' = task
BY DEF ParseStep, Upload, ParsePolicy, ParseRows, ClearPeriods, WriteSummary, WritePeriods,
       WritePremium, ParseFails

LEMMA TimelyInit == Init => Timely
<1> SUFFICES ASSUME Init, NEW t \in Tasks PROVE Placed(t) /\ Informed(t)
  BY DEF Timely
<1>1. task[t].pc = "none"
  BY DEF Init, NoTask
<1> QED  BY <1>1 DEF Placed, Informed, Working

(* A task that is told of its policies has read of none. *)
LEMMA FinishPlaces ==
    ASSUME Base, Alone, ~Event("overlap"), NEW r \in Runs, Finish(r)
    PROVE  Placed(r)' /\ Informed(r)'
<1>1. /\ run'[r] = "complete" /\ facts' = facts
      /\ task'[r].run = r /\ task'[r].todo = {p \in Policies : pv[p][r].id # 0}
      /\ task'[r].pc = IF task'[r].todo = {} THEN "done" ELSE "read"
      /\ ParseFrame(r)
  BY FinishIs DEF Base
<1>2. scenario' = scenario /\ \A q \in Runs : q # r => run'[q] = run[q]
  BY <1>1 DEF ParseFrame
<1>3. \A q \in Runs : r < q => run[q] = "none"
  BY ParserAlone DEF ParseStep
<1>4. \A p \in Policies : pv[p][r].id # 0 => p \in File(r).policies
  BY DEF Base, Housed, Home, Blank
<1>5. r \in Int /\ \A q \in Runs : q \in Int
  BY Sizes
<1>6. \A q \in Runs : r < q => run'[q] = "none"
  BY <1>2, <1>3, <1>5
<1>7. Newest(r)'
  BY <1>5, <1>6 DEF Newest
<1>8. task'[r].todo \subseteq File(r)'.policies
  BY <1>1, <1>2, <1>4 DEF File
<1>9. task'[r].pc \in {"read", "done"}
  BY <1>1
<1>10. Placed(r)'
  BY <1>1, <1>6, <1>7, <1>8, <1>9 DEF Placed
<1>11. Informed(r)'
  BY <1>9 DEF Informed
<1> QED  BY <1>10, <1>11

(* The policies of an audit are of the file of its run. *)
LEMMA AuditPoliciesNamed ==
    ASSUME Base, NEW r \in Runs, NEW found \in AuditPolicies(r)
    PROVE  found \subseteq File(r).policies
<1> DEFINE rows == {p \in Policies :
                       \/ pv[p][r].id # 0 \/ pvp[p][r].row
                       \/ pvc[p][r].busy + pvc[p][r].idle + zero[p][r] + missing[p][r] > 0}
<1>1. ASSUME NEW p \in rows
      PROVE  p \in File(r).policies
  <2>1. p \in Policies /\ ~Blank(p, r)
    BY <1>1 DEF Blank
  <2> QED  BY <2>1 DEF Base, Housed, Home
<1>2. AuditPolicies(r) = IF rows # {} THEN {rows}
                         ELSE {{}, {p \in File(r).policies : policy[p].known}}
  BY DEF AuditPolicies
<1> HIDE DEF rows
<1> QED  BY <1>1, <1>2

LEMMA EnginePlaces ==
    ASSUME Base, NEW t \in Tasks, Placed(t), Informed(t), ~Event("late_audit"), EngineStep(t)
    PROVE  Placed(t)' /\ Informed(t)'
<1>1. TypeInv
  BY DEF Base
<1>2. EngineFrame(t)
  BY <1>1, EngineStepIs
<1>3. run' = run /\ scenario' = scenario
  BY <1>2 DEF EngineFrame
<1>4. /\ \A r : Newest(r)' = Newest(r)
      /\ \A r : File(r)' = File(r)
  BY <1>3 DEF Newest, File
<1>5. ASSUME Working(t), task'[t].run = task[t].run, task'[t].todo \subseteq task[t].todo,
             Automatic(t) => task'[t].pc # "narrate"
      PROVE  Placed(t)'
  BY <1>3, <1>4, <1>5 DEF Placed
<1>6. CASE \E r \in Runs : AuditStart(t, r)
  <2>1. PICK r \in Runs : AuditStart(t, r)
    BY <1>6
  <2>2. /\ ~Automatic(t) /\ run[r] \in {"complete", "failed", "rolled_back"} /\ Newest(r)
        /\ task'[t].run = r /\ task'[t].pc \in {"read", "done"} /\ task'[t].todo \in AuditPolicies(r)
    BY <1>1, <2>1, AuditStartIs
  <2>3. task'[t].todo \subseteq File(r).policies
    BY <2>2, AuditPoliciesNamed
  <2>4. Placed(t)'
    BY <1>3, <1>4, <2>2, <2>3 DEF Placed
  <2>5. Informed(t)'
    BY <2>2 DEF Informed
  <2> QED  BY <2>4, <2>5
<1>7. CASE ReadContext(t)
  <2>1. /\ UNCHANGED <<policy, facts>> /\ task[t].pc = "read" /\ task'[t].pc = "zero"
        /\ task'[t].run = task[t].run /\ task'[t].todo = task[t].todo
        /\ task'[t].pct = Pct(pv[task'[t].policy][task[t].run])
        /\ task'[t].reported = ReportedAmount(task'[t].policy, pvp[task'[t].policy][task[t].run])
    BY <1>1, <1>7, ReadContextIs
  <2>2. Working(t)
    BY <2>1 DEF Working
  <2>3. Placed(t)'
    BY <1>5, <2>1, <2>2
  <2>4. policy' = policy /\ pv' = pv /\ pvp' = pvp
    BY <2>1 DEF facts
  <2>5. Informed(t)'
    <3>1. task'[t].pct = Pct(pv[task[t].policy][task[t].run])'
      BY <2>1, <2>4 DEF Pct
    <3>2. task'[t].reported = ReportedAmount(task[t].policy, pvp[task[t].policy][task[t].run])'
      BY <2>1, <2>4 DEF ReportedAmount
    <3> QED  BY <2>1, <3>1, <3>2 DEF Informed
  <2> QED  BY <2>3, <2>5
<1>8. CASE DetectZero(t)
  <2>1. /\ UNCHANGED <<policy, pv, pvp>> /\ task[t].pc = "zero"
        /\ task'[t] = [task[t] EXCEPT !.pc = "missing"]
    BY <1>1, <1>8, DetectZeroIs
  <2>2. task[t] \in TaskRec
    BY <1>1 DEF TypeInv, TypeOK
  <2>3. /\ task'[t].run = task[t].run /\ task'[t].todo = task[t].todo /\ task'[t].pc = "missing"
        /\ task'[t].policy = task[t].policy /\ task'[t].pct = task[t].pct
        /\ task'[t].reported = task[t].reported
    BY <2>1, <2>2 DEF TaskRec
  <2>4. Working(t)
    BY <2>1 DEF Working
  <2>5. Placed(t)'
    BY <1>5, <2>3, <2>4
  <2>6. Informed(t)'
    BY <2>1, <2>3 DEF Informed, Pct, ReportedAmount
  <2> QED  BY <2>5, <2>6
<1>9. CASE DetectMissing(t)
  <2>1. /\ UNCHANGED <<policy, facts>> /\ task[t].pc = "missing" /\ task'[t].pc = "risk"
        /\ task'[t].missing = MissingCount(task[t].policy)
        /\ task'[t].run = task[t].run /\ task'[t].todo = task[t].todo
        /\ task'[t].policy = task[t].policy /\ task'[t].pct = task[t].pct
        /\ task'[t].reported = task[t].reported
    BY <1>1, <1>9, DetectMissingIs
  <2>2. Working(t) /\ task[t].policy \in Policies
    BY <1>1, <2>1, Midway DEF Working
  <2>3. Placed(t)'
    BY <1>5, <2>1, <2>2
  <2>4. MissingCount(task[t].policy)' = MissingCount(task[t].policy)
    <3>1. \A p \in Policies : MissingCount(p)' = MissingCount(p)
      BY <1>1, <1>2, EngineSame
    <3>2. PICK p \in Policies : p = task[t].policy
      BY <2>2
    <3>3. MissingCount(task[t].policy)' = MissingCount(p)'
      BY <2>1, <3>2
    <3> QED  BY <3>1, <3>2, <3>3
  <2>5. Informed(t)'
    BY <2>1, <2>4 DEF Informed, Pct, ReportedAmount, facts
  <2> QED  BY <2>3, <2>5
<1>10. CASE UpdateRisk(t)
  <2>1. /\ UNCHANGED facts /\ task[t].pc = "risk" /\ task'[t].pc = "persist"
        /\ task'[t].run = task[t].run /\ task'[t].todo = task[t].todo
        /\ task'[t].policy = task[t].policy /\ task'[t].pct = task[t].pct
    BY <1>1, <1>10, UpdateRiskIs
  <2>2. Working(t)
    BY <2>1 DEF Working
  <2>3. Placed(t)'
    BY <1>5, <2>1, <2>2
  <2>4. Informed(t)'
    BY <2>1 DEF Informed, Pct, facts
  <2> QED  BY <2>3, <2>4
<1>11. CASE Persist(t)
  <2>1. /\ task[t].pc = "persist" /\ task'[t].pc \in {"read", "narrate", "done"}
        /\ task'[t].run = task[t].run
        /\ Automatic(t) => /\ task'[t].todo = task[t].todo \ {task[t].policy}
                           /\ task'[t].pc = IF task'[t].todo = {} THEN "done" ELSE "read"
        /\ ~Automatic(t) => task'[t].todo = task[t].todo /\ task'[t].pc = "narrate"
    BY <1>1, <1>11, PersistIs
  <2>2. task'[t].todo \subseteq task[t].todo /\ (Automatic(t) => task'[t].pc # "narrate")
    BY <2>1
  <2>3. Working(t)
    BY <2>1 DEF Working
  <2>4. Placed(t)'
    BY <1>5, <2>1, <2>2, <2>3
  <2>5. Informed(t)'
    BY <2>1 DEF Informed
  <2> QED  BY <2>4, <2>5
<1>12. CASE Narrate(t)
  <2>1. /\ task[t].pc = "narrate" /\ task'[t].pc \in {"narrate", "done"}
        /\ task'[t].run = task[t].run /\ task'[t].todo \subseteq task[t].todo
    BY <1>1, <1>12, NarrateIs
  <2>2. Working(t)
    BY <2>1 DEF Working
  <2>3. ~Automatic(t)
    BY <2>1, <2>2 DEF Placed
  <2>4. Placed(t)'
    BY <1>5, <2>1, <2>2, <2>3
  <2>5. Informed(t)'
    BY <2>1 DEF Informed
  <2> QED  BY <2>4, <2>5
<1>13. CASE EngineFails(t)
  <2>1. /\ task[t].pc \in {"zero", "missing", "risk", "persist"} /\ task'[t].pc \in {"read", "done"}
        /\ task'[t].run = task[t].run /\ task'[t].todo \subseteq task[t].todo
    BY <1>1, <1>13, EngineFailsIs
  <2>2. Working(t)
    BY <2>1 DEF Working
  <2>3. Placed(t)'
    BY <1>5, <2>1, <2>2
  <2>4. Informed(t)'
    BY <2>1 DEF Informed
  <2> QED  BY <2>3, <2>4
<1> QED  BY <1>6, <1>7, <1>8, <1>9, <1>10, <1>11, <1>12, <1>13 DEF EngineStep

(* Nobody else disturbs a task that works. *)
LEMMA TimelyInductive == Base /\ Calm /\ Timely /\ [Next]_vars => Timely'
<1> SUFFICES ASSUME Base, Calm, Timely, [Next]_vars,
                    ~Event("overlap")', ~Event("late_audit")', NEW t \in Tasks
             PROVE  Placed(t)' /\ Informed(t)'
  BY DEF Timely
<1>1. TypeInv
  BY DEF Base
<1> DEFINE Goal == Placed(t)' /\ Informed(t)'
<1>2. ASSUME ~Working(t), task'[t] = task[t]
      PROVE  Goal
  BY <1>2 DEF Working, Placed, Informed
<1>3. ASSUME NEW r \in Runs, ParseStep(r)
      PROVE  Goal
  <2>1. ParseFrame(r)
    BY <1>1, <1>3, ParseStepIs
  <2>2. scenario' = scenario /\ (t # r => task'[t] = task[t])
    BY <2>1 DEF ParseFrame
  <2>3. Alone /\ ~Event("overlap")
    BY <2>2 DEF Calm, Event
  <2>4. ~Working(t)
    BY <1>3, <2>3, ParserAlone
  <2>5. CASE t = r /\ Finish(r)
    BY <2>3, <2>5, FinishPlaces
  <2>6. CASE t # r \/ task' = task
    BY <1>2, <2>2, <2>4, <2>6
  <2> QED  BY <1>3, <2>5, <2>6, FinishOnly
<1>4. ASSUME NEW r \in Runs, UndoStart(r)
      PROVE  Goal
  <2>1. UNCHANGED <<task, scenario>> /\ (Event("overlap") \/ Quiet)
    BY <1>1, <1>4, UndoStartIs
  <2>2. Quiet
    BY <2>1 DEF Event
  <2> QED  BY <1>2, <2>1, <2>2, QuietIs
<1>5. ASSUME NEW r \in Runs, UndoRows(r)
      PROVE  Goal
  <2>1. UNCHANGED <<task, scenario>> /\ run[r] = "rolling_back"
    BY <1>1, <1>5, UndoRowsIs
  <2>2. Alone
    BY <2>1 DEF Calm, Event
  <2>3. ~Working(t)
    BY <2>1, <2>2 DEF Alone, Active
  <2> QED  BY <1>2, <2>1, <2>3
<1>6. ASSUME NEW u \in Tasks, EngineStep(u)
      PROVE  Goal
  <2>1. EngineFrame(u)
    BY <1>1, <1>6, EngineStepIs
  <2>2. scenario' = scenario /\ (t # u => task'[t] = task[t])
    BY <2>1 DEF EngineFrame
  <2>3. Alone /\ ~Event("overlap") /\ ~Event("late_audit") /\ Placed(t) /\ Informed(t)
    BY <2>2 DEF Calm, Timely, Event
  <2>4. CASE t = u
    BY <1>6, <2>3, <2>4, EnginePlaces
  <2>5. CASE t # u
    <3>1. ~Working(t)
      BY <1>6, <2>3, <2>5, TaskAlone
    <3> QED  BY <1>2, <2>2, <2>5, <3>1
  <2> QED  BY <2>4, <2>5
<1>7. ASSUME UNCHANGED <<policy, pv, pvp, pvc, zero, missing, run, task, scenario>>
      PROVE  Goal
  <2>1. Placed(t) /\ Informed(t)
    BY <1>7 DEF Timely, Event
  <2>2. Placed(t)'
    BY <1>7, <2>1 DEF Placed, Working, Newest, File
  <2>3. \A p : MissingCount(p)' = MissingCount(p)
    BY <1>7, MissingSame
  <2>4. MissingCount(task[t].policy)' = MissingCount(task[t].policy)
    <3>1. PICK p : p = task[t].policy
      OBVIOUS
    <3>2. MissingCount(task[t].policy)' = MissingCount(p)'
      BY <1>7, <3>1
    <3> QED  BY <2>3, <3>1, <3>2
  <2>5. Informed(t)'
    BY <1>7, <2>1, <2>4 DEF Informed, Pct, ReportedAmount
  <2> QED  BY <2>2, <2>5
<1> HIDE DEF Goal
<1>8. Goal
  BY <1>3, <1>4, <1>5, <1>6, <1>7, StepCases
<1> QED  BY <1>8 DEF Goal

LEMMA TimelyHolds == Spec => []Timely
<1> QED  BY TimelyInit, TimelyInductive, BaseHolds, CalmHolds, PTL DEF Spec


-----------------------------------------------------------------------------
(* The risk. Of the last file of a policy, once it is complete, the risk   *)
(* is the assessment of its figures, or its task is still to write it.     *)

LastFile(p, r) == r \in Started(p) /\ \A q \in Started(p) : q <= r

Fresh(p, r) ==
    ~OutOfBounds(p, ReportedAmount(p, pvp[p][r])) =>
        policy[p].risk = Assess(Pct(pv[p][r]), MissingCount(p))

Pending(p, r) ==
    Working(r) /\ p \in task[r].todo /\ ~(task[r].pc = "persist" /\ task[r].policy = p)

Current ==
    Only({"audit"}) =>
        \A p \in Policies, r \in Runs :
            LastFile(p, r) /\ run[r] = "complete" /\ pv[p][r].id # 0 => Fresh(p, r) \/ Pending(p, r)

LEMMA FreshSame ==
    ASSUME NEW p, NEW r, scenario' = scenario,
           policy'[p].risk = policy[p].risk, policy'[p].owner = policy[p].owner,
           ReportedAmount(p, pvp[p][r])' = ReportedAmount(p, pvp[p][r]),
           Pct(pv[p][r])' = Pct(pv[p][r]), MissingCount(p)' = MissingCount(p), Fresh(p, r)
    PROVE  Fresh(p, r)'
<1>1. \A pct, gaps : Assess(pct, gaps)' = Assess(pct, gaps)
  BY Zenon DEF Assess
<1>2. Assess(Pct(pv[p][r]), MissingCount(p))' = Assess(Pct(pv[p][r]), MissingCount(p))
  <2>1. PICK pct, gaps : pct = Pct(pv[p][r]) /\ gaps = MissingCount(p)
    OBVIOUS
  <2>2. Assess(Pct(pv[p][r]), MissingCount(p))' = Assess(pct, gaps)'
    BY <2>1
  <2> QED  BY <1>1, <2>1, <2>2
<1>3. OutOfBounds(p, ReportedAmount(p, pvp[p][r]))' <=> OutOfBounds(p, ReportedAmount(p, pvp[p][r]))
  BY DEF OutOfBounds
<1> QED  BY <1>2, <1>3 DEF Fresh

(* The last file of a policy stays the last, or a later one starts. *)
LEMMA LastStays ==
    ASSUME NEW p, NEW r, scenario' = scenario, \A q \in Runs : run[q] # "none" => run'[q] # "none",
           TypeInv, LastFile(p, r)', run[r] # "none"
    PROVE  LastFile(p, r)
<1>1. FilesOf(p)' = FilesOf(p) /\ FilesOf(p) \subseteq Runs
  BY FileTypes DEF FilesOf, TypeInv, TypeOK
<1>2. \A q \in Started(p) : q \in Started(p)'
  BY <1>1 DEF Started
<1> QED  BY <1>1, <1>2 DEF LastFile, Started

LEMMA OnlyAudits ==
    ASSUME Only({"audit"})
    PROVE  ~Event("overlap") /\ ~Event("late_audit") /\ ~Event("failures") /\ ~Event("rollback")
BY DEF Only, Event

(* Without rollbacks none is on its way. *)
Kept == ~Event("rollback") => \A r \in Runs : run[r] \notin {"rolling_back", "rolled_back"}

LEMMA KeptInductive == Base /\ Kept /\ [Next]_vars => Kept'
<1> SUFFICES ASSUME Base, Kept, [Next]_vars, ~Event("rollback")', NEW q \in Runs
             PROVE  run'[q] \notin {"rolling_back", "rolled_back"}
  BY DEF Kept
<1>1. TypeInv
  BY DEF Base
<1> DEFINE Goal == run'[q] \notin {"rolling_back", "rolled_back"}
<1>2. ASSUME NEW r \in Runs, ParseStep(r)
      PROVE  Goal
  <2>1. ParseFrame(r)
    BY <1>1, <1>2, ParseStepIs
  <2>2. /\ scenario' = scenario /\ \A s \in Runs : s # r => run'[s] = run[s]
        /\ run'[r] \in Parsing \cup {"complete", "failed"}
    BY <2>1 DEF ParseFrame
  <2> QED  BY <2>2 DEF Kept, Event, Parsing
<1>3. ASSUME NEW r \in Runs, UndoStart(r)
      PROVE  Goal
  <2>1. Event("rollback") /\ scenario' = scenario
    BY <1>1, <1>3, UndoStartIs
  <2> QED  BY <2>1 DEF Event
<1>4. ASSUME NEW r \in Runs, UndoRows(r)
      PROVE  Goal
  <2>1. run[r] = "rolling_back" /\ scenario' = scenario
    BY <1>1, <1>4, UndoRowsIs
  <2> QED  BY <2>1 DEF Kept, Event
<1>5. ASSUME NEW t \in Tasks, EngineStep(t)
      PROVE  Goal
  <2>1. run' = run /\ scenario' = scenario
    BY <1>1, <1>5, EngineStepIs DEF EngineFrame
  <2> QED  BY <2>1 DEF Kept, Event
<1>6. ASSUME UNCHANGED <<policy, pv, pvp, pvc, zero, missing, run, task, scenario>>
      PROVE  Goal
  BY <1>6 DEF Kept, Event
<1> HIDE DEF Goal
<1>7. Goal
  BY <1>2, <1>3, <1>4, <1>5, <1>6, StepCases
<1> QED  BY <1>7 DEF Goal

LEMMA KeptHolds == Spec => []Kept
<1>1. Init => Kept
  BY DEF Init, Kept
<1> QED  BY <1>1, KeptInductive, BaseHolds, PTL DEF Spec

LEMMA CurrentInit == Init => Current
BY DEF Init, Current

(* What the parser of another policy's file leaves. *)
LEMMA ParserLeaves ==
    ASSUME TypeInv, NEW r \in Runs, ParseFrame(r), NEW p \in Policies, p \notin File(r).policies
    PROVE  /\ policy'[p] = policy[p] /\ \A q \in Runs : SameCell(p, q)
           /\ MissingCount(p)' = MissingCount(p) /\ Received(p)' = Received(p)
           /\ \A q \in Runs : /\ Pct(pv[p][q])' = Pct(pv[p][q])
                              /\ ReportedAmount(p, pvp[p][q])' = ReportedAmount(p, pvp[p][q])
<1>1. policy'[p] = policy[p] /\ \A q \in Runs : SameCell(p, q)
  BY DEF ParseFrame
<1>2. MissingCount(p)' = MissingCount(p) /\ Received(p)' = Received(p)
  BY <1>1, MissingSame DEF SameCell
<1>3. ASSUME NEW q \in Runs
      PROVE  Pct(pv[p][q])' = Pct(pv[p][q]) /\ ReportedAmount(p, pvp[p][q])' = ReportedAmount(p, pvp[p][q])
  BY <1>1, PctSame, ReportedSame DEF SameCell
<1> QED  BY <1>1, <1>2, <1>3

LEMMA ParserKeepsCurrent ==
    ASSUME Base, Calm, Current, Only({"audit"}), NEW r \in Runs, ParseStep(r),
           NEW p \in Policies, NEW q \in Runs,
           LastFile(p, q)', run'[q] = "complete", pv'[p][q].id # 0
    PROVE  Fresh(p, q)' \/ Pending(p, q)'
<1>1. TypeInv /\ Alone /\ ~Event("overlap")
  BY OnlyAudits DEF Base, Calm
<1>2. ParseFrame(r)
  BY <1>1, ParseStepIs
<1>3. /\ scenario' = scenario /\ \A s \in Runs : s # r => run'[s] = run[s]
      /\ run'[r] \in Parsing \cup {"complete", "failed"} /\ r \in DOMAIN scenario.files
  BY <1>2 DEF ParseFrame
<1>4. \A s \in Runs : run[s] # "none" => run'[s] # "none"
  BY <1>3 DEF Parsing
<1>5. CASE q = r
  <2>1. Finish(r)
    <3>1. (task' = task /\ run'[r] # "complete") \/ (run[r] = "finish" /\ run'[r] = "complete")
      BY <1>2 DEF ParseFrame
    <3>2. run[r] = "finish"
      BY <1>5, <3>1
    <3>3. ~ParseFails(r)
      BY <1>1, <1>5 DEF ParseFails, Goto, TypeInv, TypeOK
    <3> QED  BY <3>2, <3>3 DEF ParseStep, Upload, ParsePolicy, ParseRows, ClearPeriods, WriteSummary,
                               WritePeriods, WritePremium
  <2>2. /\ facts' = facts /\ task'[r].todo = {s \in Policies : pv[s][r].id # 0}
        /\ task'[r].pc = IF task'[r].todo = {} THEN "done" ELSE "read"
    BY <1>1, <2>1, FinishIs
  <2>3. p \in task'[r].todo
    BY <1>5, <2>2 DEF facts
  <2>4. task'[r].pc = "read"
    BY <2>2, <2>3
  <2> QED  BY <1>5, <2>3, <2>4 DEF Pending, Working
<1>6. CASE q # r
  <2>1. run[q] = "complete"
    BY <1>3, <1>6
  <2>2. LastFile(p, q)
    BY <1>1, <1>3, <1>4, <2>1, LastStays
  <2>3. p \notin File(r).policies
    <3>1. SUFFICES ASSUME p \in File(r).policies PROVE FALSE
      OBVIOUS
    <3>2. r \in Started(p)'
      BY <1>3, <3>1 DEF Started, FilesOf, File, Parsing
    <3>3. r <= q
      BY <3>2 DEF LastFile
    <3>4. r < q
      BY <1>6, <3>3, Sizes
    <3>5. run[q] = "none"
      BY <1>1, <3>4, ParserAlone
    <3> QED  BY <2>1, <3>5
  <2>4. SameCell(p, q) /\ policy'[p] = policy[p]
    BY <1>1, <1>2, <2>3, ParserLeaves
  <2>5. Fresh(p, q) \/ Pending(p, q)
    BY <2>1, <2>2, <2>4 DEF Current, SameCell
  <2>6. Fresh(p, q) => Fresh(p, q)'
    BY <1>1, <1>2, <1>3, <2>3, <2>4, ParserLeaves, FreshSame
  <2>7. task'[q] = task[q]
    BY <1>2, <1>6, Sizes DEF ParseFrame
  <2> QED  BY <2>5, <2>6, <2>7 DEF Pending, Working
<1> QED  BY <1>5, <1>6

(* The task that writes the risk of a policy whose last file is complete   *)
(* is of that file.                                                        *)
LEMMA RiskOfLastFile ==
    ASSUME Base, NEW t \in Tasks, Placed(t), task[t].pc = "risk",
           NEW r \in Runs, LastFile(task[t].policy, r), run[r] = "complete"
    PROVE  task[t].run = r
<1>1. /\ task[t].run \in Runs /\ task[t].policy \in task[t].todo /\ task[t].policy \in Policies
  BY Midway DEF Base
<1>2. /\ task[t].todo \subseteq File(task[t].run).policies
      /\ run[task[t].run] # "none" /\ Newest(task[t].run)
  BY DEF Placed, Working
<1>3. r <= task[t].run
  BY <1>2 DEF Newest
<1>4. task[t].run \in DOMAIN scenario.files
  BY <1>1, <1>2, FileOf DEF Base
<1>5. task[t].run \in Started(task[t].policy)
  BY <1>1, <1>2, <1>4 DEF Started, FilesOf, File
<1>6. task[t].run <= r
  BY <1>5 DEF LastFile
<1>7. task[t].run \in Int /\ r \in Int
  <2>1. \A q \in Runs : q \in Int
    BY Sizes
  <2> QED  BY <1>1, <2>1
<1> QED  BY <1>3, <1>6, <1>7

LEMMA TaskKeepsCurrent ==
    ASSUME Base, Timely, Current, Only({"audit"}), NEW t \in Tasks, EngineStep(t),
           NEW p \in Policies, NEW q \in Runs,
           LastFile(p, q)', run'[q] = "complete", pv'[p][q].id # 0
    PROVE  Fresh(p, q)' \/ Pending(p, q)'
<1>1. TypeInv /\ Placed(t) /\ Informed(t) /\ ~Event("failures")
  BY OnlyAudits DEF Base, Timely
<1>2. EngineFrame(t)
  BY <1>1, EngineStepIs
<1>3. /\ run' = run /\ scenario' = scenario /\ \A u \in Tasks : u # t => task'[u] = task[u]
  BY <1>2 DEF EngineFrame
<1>4. /\ MissingCount(p)' = MissingCount(p) /\ Pct(pv[p][q])' = Pct(pv[p][q])
      /\ ReportedAmount(p, pvp[p][q])' = ReportedAmount(p, pvp[p][q])
      /\ pv'[p][q].id = pv[p][q].id
  BY <1>1, <1>2, EngineSame
<1>5. LastFile(p, q)
  BY <1>1, <1>3, LastStays
<1>6. Fresh(p, q) \/ Pending(p, q)
  BY <1>3, <1>4, <1>5 DEF Current
<1>7. ASSUME policy'[p].risk = policy[p].risk, Fresh(p, q)
      PROVE  Fresh(p, q)'
  BY <1>2, <1>3, <1>4, <1>7, FreshSame DEF EngineFrame
<1>8. ASSUME Pending(p, q), t # q
      PROVE  Pending(p, q)'
  BY <1>3, <1>8, Sizes DEF Pending, Working
<1>9. ASSUME policy'[p].risk = policy[p].risk,
             task'[t].pc \notin {"none", "done", "persist"}, task'[t].todo = task[t].todo
      PROVE  Fresh(p, q)' \/ Pending(p, q)'
  <2>1. CASE Fresh(p, q)
    BY <1>7, <1>9, <2>1
  <2>2. CASE Pending(p, q)
    <3>1. CASE t = q
      BY <1>9, <2>2, <3>1 DEF Pending, Working
    <3>2. CASE t # q
      BY <1>8, <2>2, <3>2
    <3> QED  BY <3>1, <3>2
  <2> QED  BY <1>6, <2>1, <2>2
<1>10. CASE \E r \in Runs : AuditStart(t, r)
  <2>1. policy' = policy /\ ~Automatic(t)
    BY <1>1, <1>10, AuditStartIs
  <2>2. t # q
    BY <2>1 DEF Automatic, Runs
  <2> QED  BY <1>6, <1>7, <1>8, <2>1, <2>2
<1>11. CASE ReadContext(t)
  BY <1>1, <1>9, <1>11, ReadContextIs
<1>12. CASE DetectZero(t)
  <2>1. policy' = policy /\ task[t] \in TaskRec /\ task'[t] = [task[t] EXCEPT !.pc = "missing"]
    BY <1>1, <1>12, DetectZeroIs DEF TypeInv, TypeOK
  <2>2. task'[t].pc = "missing" /\ task'[t].todo = task[t].todo
    BY <2>1 DEF TaskRec
  <2> QED  BY <1>9, <2>1, <2>2
<1>13. CASE DetectMissing(t)
  BY <1>1, <1>9, <1>13, DetectMissingIs
<1>14. CASE UpdateRisk(t)
  <2>1. /\ task[t].pc = "risk" /\ task'[t].pc = "persist"
        /\ task'[t].todo = task[t].todo /\ task'[t].policy = task[t].policy
        /\ ~OutOfBounds(task[t].policy, task[t].reported) =>
              policy'[task[t].policy].risk = Assess(task[t].pct, task[t].missing)
    BY <1>1, <1>14, UpdateRiskIs
  <2>2. CASE p # task[t].policy
    <3>1. policy'[p].risk = policy[p].risk
      BY <1>2, <2>2 DEF EngineFrame
    <3>2. CASE Fresh(p, q)
      BY <1>7, <3>1, <3>2
    <3>3. CASE Pending(p, q)
      <4>1. CASE t = q
        BY <2>1, <2>2, <3>3, <4>1 DEF Pending, Working
      <4>2. CASE t # q
        BY <1>8, <3>3, <4>2
      <4> QED  BY <4>1, <4>2
    <3> QED  BY <1>6, <3>2, <3>3
  <2>3. CASE p = task[t].policy
    <3>1. task[t].run = q
      BY <1>1, <1>3, <1>5, <2>1, <2>3, RiskOfLastFile
    <3>2. /\ task[t].pct = Pct(pv[p][q]) /\ task[t].reported = ReportedAmount(p, pvp[p][q])
          /\ task[t].missing = MissingCount(p)
      BY <1>1, <2>1, <2>3, <3>1 DEF Informed
    <3>3. ~OutOfBounds(p, ReportedAmount(p, pvp[p][q])) =>
             policy'[p].risk = Assess(Pct(pv[p][q]), MissingCount(p))
      BY <2>1, <2>3, <3>2
    <3>4. \A pct, gaps : Assess(pct, gaps)' = Assess(pct, gaps)
      BY <1>3, Zenon DEF Assess
    <3>5. Assess(Pct(pv[p][q]), MissingCount(p))' = Assess(Pct(pv[p][q]), MissingCount(p))
      <4>1. PICK pct, gaps : pct = Pct(pv[p][q]) /\ gaps = MissingCount(p)
        OBVIOUS
      <4>2. Assess(Pct(pv[p][q]), MissingCount(p))' = Assess(pct, gaps)'
        BY <1>4, <4>1
      <4> QED  BY <3>4, <4>1, <4>2
    <3>6. OutOfBounds(p, ReportedAmount(p, pvp[p][q]))' <=> OutOfBounds(p, ReportedAmount(p, pvp[p][q]))
      <4>1. policy'[p].owner = policy[p].owner
        BY <1>2 DEF EngineFrame
      <4> QED  BY <1>4, <4>1 DEF OutOfBounds
    <3>7. Fresh(p, q)'
      BY <3>3, <3>5, <3>6 DEF Fresh
    <3> QED  BY <3>7
  <2> QED  BY <2>2, <2>3
<1>15. CASE Persist(t)
  <2>1. /\ policy' = policy /\ task[t].pc = "persist"
        /\ Automatic(t) => /\ task'[t].todo = task[t].todo \ {task[t].policy}
                           /\ task'[t].pc = IF task'[t].todo = {} THEN "done" ELSE "read"
    BY <1>1, <1>15, PersistIs
  <2>2. CASE Fresh(p, q)
    BY <1>7, <2>1, <2>2
  <2>3. CASE Pending(p, q)
    <3>1. CASE t = q
      <4>1. Automatic(t)
        BY <3>1, Sizes DEF Automatic, Runs
      <4>2. p \in task'[t].todo /\ task'[t].pc = "read"
        BY <2>1, <2>3, <3>1, <4>1 DEF Pending
      <4> QED  BY <3>1, <4>2 DEF Pending, Working
    <3>2. CASE t # q
      BY <1>8, <2>3, <3>2
    <3> QED  BY <3>1, <3>2
  <2> QED  BY <1>6, <2>2, <2>3
<1>16. CASE Narrate(t)
  <2>1. policy'[p].risk = policy[p].risk /\ task[t].pc = "narrate"
    BY <1>1, <1>16, NarrateIs
  <2>2. t # q
    <3>1. ~Automatic(t)
      BY <1>1, <2>1 DEF Placed, Working
    <3> QED  BY <3>1 DEF Automatic, Runs
  <2> QED  BY <1>6, <1>7, <1>8, <2>1, <2>2
<1>17. CASE EngineFails(t)
  BY <1>1, <1>17 DEF EngineFails
<1> QED  BY <1>10, <1>11, <1>12, <1>13, <1>14, <1>15, <1>16, <1>17 DEF EngineStep

LEMMA CurrentInductive == Base /\ Kept /\ Calm /\ Timely /\ Current /\ [Next]_vars => Current'
<1> SUFFICES ASSUME Base, Kept, Calm, Timely, Current, [Next]_vars, Only({"audit"})',
                    NEW p \in Policies, NEW q \in Runs,
                    LastFile(p, q)', run'[q] = "complete", pv'[p][q].id # 0
             PROVE  Fresh(p, q)' \/ Pending(p, q)'
  BY DEF Current
<1>1. TypeInv
  BY DEF Base
<1> DEFINE Goal == Fresh(p, q)' \/ Pending(p, q)'
<1>2. ASSUME NEW r \in Runs, ParseStep(r)
      PROVE  Goal
  <2>1. scenario' = scenario
    BY <1>1, <1>2, ParseStepIs DEF ParseFrame
  <2>2. Only({"audit"})
    BY <2>1 DEF Only
  <2> QED  BY <1>2, <2>2, ParserKeepsCurrent
<1>3. ASSUME NEW r \in Runs, UndoStart(r)
      PROVE  Goal
  <2>1. Event("rollback") /\ scenario' = scenario
    BY <1>1, <1>3, UndoStartIs
  <2> QED  BY <2>1 DEF Only, Event
<1>4. ASSUME NEW r \in Runs, UndoRows(r)
      PROVE  Goal
  <2>1. run[r] = "rolling_back" /\ scenario' = scenario
    BY <1>1, <1>4, UndoRowsIs
  <2>2. ~Event("rollback")
    BY <2>1 DEF Only, Event
  <2> QED  BY <2>1, <2>2 DEF Kept
<1>5. ASSUME NEW t \in Tasks, EngineStep(t)
      PROVE  Goal
  <2>1. scenario' = scenario
    BY <1>1, <1>5, EngineStepIs DEF EngineFrame
  <2>2. Only({"audit"})
    BY <2>1 DEF Only
  <2> QED  BY <1>5, <2>2, TaskKeepsCurrent
<1>6. ASSUME UNCHANGED <<policy, pv, pvp, pvc, zero, missing, run, task, scenario>>
      PROVE  Goal
  <2>1. LastFile(p, q)
    BY <1>1, <1>6, LastStays
  <2>2. Fresh(p, q) \/ Pending(p, q)
    BY <1>6, <2>1 DEF Current, Only
  <2>3. MissingCount(p)' = MissingCount(p)
    BY <1>6, MissingSame
  <2>4. Fresh(p, q) => Fresh(p, q)'
    BY <1>6, <2>3, FreshSame, ReportedSame, PctSame
  <2> QED  BY <1>6, <2>2, <2>4 DEF Pending, Working
<1> HIDE DEF Goal
<1>7. Goal
  BY <1>2, <1>3, <1>4, <1>5, <1>6, StepCases
<1> QED  BY <1>7 DEF Goal

LEMMA CurrentHolds == Spec => []Current
<1> QED  BY CurrentInit, CurrentInductive, BaseHolds, KeptHolds, CalmHolds, TimelyHolds, PTL DEF Spec

LEMMA CurrentIsCurrent == TypeInv /\ Current => RiskIsCurrent
<1> SUFFICES ASSUME TypeInv, Current, NEW p \in Policies, Only({"audit"}), Quiet, Started(p) # {},
                    run[Max(Started(p))] = "complete", pv[p][Max(Started(p))].id # 0,
                    ~OutOfBounds(p, ReportedAmount(p, pvp[p][Max(Started(p))]))
             PROVE  policy[p].risk = Assess(Pct(pv[p][Max(Started(p))]), MissingCount(p))
  BY DEF RiskIsCurrent
<1> DEFINE r == Max(Started(p))
<1>1. Started(p) \subseteq Runs
  BY FileTypes DEF Started, FilesOf, TypeInv, TypeOK
<1>2. Started(p) \subseteq Int
  <2>1. \A q \in Runs : q \in Int
    BY Sizes
  <2> QED  BY <1>1, <2>1
<1>3. IsFiniteSet(Started(p))
  BY <1>1, Sizes, FS_Subset
<1>4. r \in Started(p) /\ \A q \in Started(p) : q <= r
  BY <1>2, <1>3, MaxIsGreatest
<1> HIDE DEF r
<1>5. r \in Runs /\ LastFile(p, r)
  BY <1>1, <1>4 DEF LastFile
<1>6. Fresh(p, r) \/ Pending(p, r)
  BY <1>5 DEF Current, r
<1>7. ~Working(r)
  BY <1>5, QuietIs, Sizes
<1>8. Fresh(p, r)
  BY <1>6, <1>7 DEF Pending
<1> QED  BY <1>8 DEF Fresh, r

(* The risk that is shown of a policy is not stale, whatever files came    *)
(* before its last one and whatever is audited, as long as nothing         *)
(* overlaps, fails, is rolled back or is audited late.                     *)
THEOREM RiskStaysCurrent == Spec => []RiskIsCurrent
<1> QED  BY CurrentIsCurrent, CurrentHolds, TypeInvHolds, PTL

-----------------------------------------------------------------------------
(* The percentages. Without overlap the rows of a policy are numbered in   *)
(* the order of their runs; without failures a run that failed has none;   *)
(* without audits every task is of a pipeline.                             *)

Numbered ==
    ~Event("overlap") =>
        \A p \in Policies, q, r \in Runs :
            q < r /\ pv[p][q].id # 0 /\ pv[p][r].id # 0 => pv[p][q].id < pv[p][r].id

FailedEmpty ==
    ~Event("failures") =>
        \A r \in Runs : run[r] = "failed" => \A p \in Policies : pv[p][r].id = 0

NoAudits == ~Event("audit") /\ ~Event("late_audit") => \A t \in Tasks : Working(t) => Automatic(t)

Written == Numbered /\ FailedEmpty /\ NoAudits

LEMMA WrittenInit == Init => Written
<1> SUFFICES ASSUME Init PROVE Written
  OBVIOUS
<1>1. \A p \in Policies, r \in Runs : pv[p][r].id = 0
  BY DEF Init, Filled, NoPremium
<1>2. \A t \in Tasks : ~Working(t)
  BY DEF Init, Working, NoTask
<1> QED  BY <1>1, <1>2 DEF Written, Numbered, FailedEmpty, NoAudits

LEMMA FailOnly ==
    ASSUME TypeInv, NEW r \in Runs, ParseStep(r), run'[r] = "failed"
    PROVE  ParseFails(r)
<1>1. CASE Upload(r)
  <2>1. run'[r] \in {"policy", "rows"}
    BY <1>1 DEF Upload, Goto, TypeInv, TypeOK
  <2> QED  BY <2>1
<1>2. CASE ParsePolicy(r)
  <2>1. run'[r] = "rows"
    BY <1>2 DEF ParsePolicy, Goto, TypeInv, TypeOK
  <2> QED  BY <2>1
<1>3. CASE ParseRows(r)
  BY <1>3, ParseRowsIs
<1>4. CASE ClearPeriods(r)
  BY <1>4, ClearPeriodsIs
<1>5. CASE WriteSummary(r)
  BY <1>5, WriteSummaryIs
<1>6. CASE WritePeriods(r)
  BY <1>6, WritePeriodsIs
<1>7. CASE WritePremium(r)
  BY <1>7, WritePremiumFrame
<1>8. CASE Finish(r)
  BY <1>8, FinishIs
<1> QED  BY <1>1, <1>2, <1>3, <1>4, <1>5, <1>6, <1>7, <1>8 DEF ParseStep

LEMMA ParserNumbers ==
    ASSUME Base, Alone, Numbered, ~Event("overlap"), NEW s \in Runs, ParseStep(s), ParseFrame(s),
           NEW p \in Policies, NEW q \in Runs, NEW r \in Runs,
           q < r, pv'[p][q].id # 0, pv'[p][r].id # 0
    PROVE  pv'[p][q].id < pv'[p][r].id
<1>1. PremiumStep(s, p, q) /\ PremiumStep(s, p, r)
  BY DEF ParseFrame
<1>2. pv \in Table(PremiumRec)
  BY DEF Base, TypeInv, TypeOK
<1>3. /\ pv[p][q].id \in Nat /\ pv[p][r].id \in Nat /\ NextId \in Nat
      /\ pv[p][q].id < NextId /\ pv[p][r].id < NextId
  BY <1>2, NextIdIsNew DEF Table, PremiumRec
<1>4. /\ pv'[p][q].id \in Nat /\ pv'[p][r].id \in Nat
  BY ParseStepIs DEF Base, TypeOK, Table, PremiumRec
<1>5. \/ pv'[p][q].id = pv[p][q].id
      \/ q = s /\ pv'[p][q].id >= NextId
  BY <1>1 DEF PremiumStep
<1>6. \/ pv'[p][r].id = pv[p][r].id
      \/ r = s /\ pv'[p][r].id >= NextId
  BY <1>1 DEF PremiumStep
<1>7. q \in Int /\ r \in Int /\ q # r
  <2>1. \A x \in Runs : x \in Int
    BY Sizes
  <2> QED  BY <2>1
<1>8. CASE q = s
  <2>1. run[r] = "none"
    BY <1>8, ParserAlone
  <2>2. pv[p][r].id = 0
    BY <2>1 DEF Base, Unwritten, Early
  <2>3. pv'[p][r].id = 0
    BY <1>6, <1>7, <1>8, <2>2
  <2> QED  BY <2>3
<1>9. CASE q # s
  <2>1. pv'[p][q].id = pv[p][q].id
    BY <1>5, <1>9
  <2>2. CASE pv'[p][r].id = pv[p][r].id
    BY <2>1, <2>2 DEF Numbered
  <2>3. CASE pv'[p][r].id >= NextId
    BY <1>3, <1>4, <2>1, <2>3
  <2> QED  BY <1>6, <2>2, <2>3
<1> QED  BY <1>8, <1>9

LEMMA WrittenInductive == Base /\ Calm /\ Written /\ [Next]_vars => Written'
<1> SUFFICES ASSUME Base, Calm, Written, [Next]_vars PROVE Written'
  OBVIOUS
<1>1. TypeInv
  BY DEF Base
<1> DEFINE Goal == Written'
<1>2. ASSUME NEW r \in Runs, ParseStep(r)
      PROVE  Goal
  <2>1. ParseFrame(r)
    BY <1>1, <1>2, ParseStepIs
  <2>2. /\ scenario' = scenario /\ \A s \in Runs : s # r => run'[s] = run[s]
        /\ \A t \in Tasks : t # r => task'[t] = task[t]
        /\ \A p \in Policies, q \in Runs : PremiumStep(r, p, q)
    BY <2>1 DEF ParseFrame
  <2>3. Numbered'
    <3>1. SUFFICES ASSUME ~Event("overlap"), NEW p \in Policies, NEW q \in Runs, NEW s \in Runs,
                          q < s, pv'[p][q].id # 0, pv'[p][s].id # 0
                   PROVE  pv'[p][q].id < pv'[p][s].id
      BY <2>2 DEF Numbered, Event
    <3>2. Alone /\ Numbered
      BY <3>1 DEF Calm, Written
    <3> QED  BY <1>2, <2>1, <3>1, <3>2, ParserNumbers
  <2>4. FailedEmpty'
    <3>1. SUFFICES ASSUME ~Event("failures"), NEW q \in Runs, run'[q] = "failed", NEW p \in Policies
                   PROVE  pv'[p][q].id = 0
      BY <2>2 DEF FailedEmpty, Event
    <3>2. CASE q = r
      <4>1. ParseFails(r)
        BY <1>1, <1>2, <3>1, <3>2, FailOnly
      <4>2. run[r] = "summary" /\ pv' = pv
        BY <3>1, <4>1 DEF ParseFails, facts
      <4> QED  BY <3>2, <4>2 DEF Base, Unwritten, Early
    <3>3. CASE q # r
      <4>1. pv[p][q].id = 0
        BY <2>2, <3>1, <3>3 DEF Written, FailedEmpty
      <4> QED  BY <2>2, <3>3, <4>1 DEF PremiumStep
    <3> QED  BY <3>2, <3>3
  <2>5. NoAudits'
    <3>1. Automatic(r)
      BY Sizes DEF Automatic, Runs
    <3> QED  BY <2>2, <3>1 DEF Written, NoAudits, Event, Working, Automatic
  <2> QED  BY <2>3, <2>4, <2>5 DEF Written
<1>3. ASSUME NEW r \in Runs, UndoStart(r)
      PROVE  Goal
  <2>1. /\ pv' = pv /\ task' = task /\ scenario' = scenario /\ run'[r] = "rolling_back"
        /\ \A s \in Runs : s # r => run'[s] = run[s]
    BY <1>1, <1>3, UndoStartIs DEF facts
  <2> QED  BY <2>1 DEF Written, Numbered, FailedEmpty, NoAudits, Event, Working, Automatic
<1>4. ASSUME NEW r \in Runs, UndoRows(r)
      PROVE  Goal
  <2>1. /\ task' = task /\ scenario' = scenario /\ run'[r] = "rolled_back"
        /\ \A s \in Runs : s # r => run'[s] = run[s]
        /\ \A p \in Policies, q \in Runs : q # r => SameCell(p, q)
        /\ \A p \in Policies : Blank(p, r)'
    BY <1>1, <1>4, UndoRowsIs
  <2>2. \A p \in Policies, q \in Runs : pv'[p][q].id = 0 \/ pv'[p][q] = pv[p][q]
    BY <2>1 DEF Blank, SameCell
  <2>3. Numbered'
    BY <2>1, <2>2 DEF Written, Numbered, Event
  <2>4. FailedEmpty'
    BY <2>1, <2>2 DEF Written, FailedEmpty, Event
  <2>5. NoAudits'
    BY <2>1 DEF Written, NoAudits, Event, Working, Automatic
  <2> QED  BY <2>3, <2>4, <2>5 DEF Written
<1>5. ASSUME NEW t \in Tasks, EngineStep(t)
      PROVE  Goal
  <2>1. EngineFrame(t)
    BY <1>1, <1>5, EngineStepIs
  <2>2. run' = run /\ scenario' = scenario /\ \A u \in Tasks : u # t => task'[u] = task[u]
    BY <2>1 DEF EngineFrame
  <2>3. \A p \in Policies, q \in Runs : pv'[p][q].id = pv[p][q].id
    BY <1>1, <2>1, EngineSame
  <2>4. Numbered' /\ FailedEmpty'
    BY <2>2, <2>3 DEF Written, Numbered, FailedEmpty, Event
  <2>5. NoAudits'
    <3>1. CASE \E r \in Runs : AuditStart(t, r)
      <4>1. Event("audit") \/ Event("late_audit")
        BY <3>1 DEF AuditStart
      <4> QED  BY <2>2, <4>1 DEF NoAudits, Event
    <3>2. CASE ~ \E r \in Runs : AuditStart(t, r)
      <4>1. Working(t)
        BY <1>5, <3>2 DEF EngineStep, ReadContext, DetectZero, DetectMissing, UpdateRisk, Persist,
                          Narrate, EngineFails, Working
      <4> QED  BY <2>2, <4>1 DEF Written, NoAudits, Event, Working, Automatic
    <3> QED  BY <3>1, <3>2
  <2> QED  BY <2>4, <2>5 DEF Written
<1>6. ASSUME UNCHANGED <<policy, pv, pvp, pvc, zero, missing, run, task, scenario>>
      PROVE  Goal
  BY <1>6 DEF Written, Numbered, FailedEmpty, NoAudits, Event, Working, Automatic
<1> HIDE DEF Goal
<1>7. Goal
  BY <1>2, <1>3, <1>4, <1>5, <1>6, StepCases
<1> QED  BY <1>7 DEF Goal

LEMMA WrittenHolds == Spec => []Written
<1> QED  BY WrittenInit, WrittenInductive, BaseHolds, CalmHolds, PTL DEF Spec

Steady == /\ Only({"audit", "rollback", "failures"})
          /\ ~({"audit", "failures"} \subseteq scenario.events)

(* Without overlap and late audits, and not with both audits and failures, *)
(* the newest row is the one whose percentage the task has read.           *)
LEMMA NewestIsOwn ==
    ASSUME Base, Calm, Timely, Written, Steady, NEW t \in Tasks, task[t].pc = "persist",
           task[t].pct # None
    PROVE  task[t].run = NewestPremium(task[t].policy)
<1> DEFINE p == task[t].policy
           s == task[t].run
           n == NewestPremium(p)
<1>1. s \in Runs /\ p \in Policies /\ TypeInv /\ Working(t)
  BY Midway DEF Base, Working
<1>2. ~Event("overlap") /\ ~Event("late_audit") /\ (Event("failures") => ~Event("audit"))
  BY DEF Steady, Only, Event
<1>3. Placed(t) /\ Informed(t) /\ Alone
  BY <1>2 DEF Timely, Calm
<1>4. task[t].pct = Pct(pv[p][s])
  BY <1>3 DEF Informed
<1>5. pv[p][s].id # 0
  BY <1>4 DEF Pct
<1>6. s \in PremiumRuns(p)
  BY <1>1, <1>5 DEF PremiumRuns
<1>7. n \in Runs /\ pv[p][n].id # 0 /\ pv[p][s].id <= pv[p][n].id
  BY <1>1, <1>6, NewestIsThere
<1>8. pv[p][s].id \in Nat /\ pv[p][n].id \in Nat
  BY <1>1, <1>7 DEF TypeInv, TypeOK, Table, PremiumRec
<1> HIDE DEF p, s, n
<1>9. s \in Int /\ n \in Int
  <2>1. \A q \in Runs : q \in Int
    BY Sizes
  <2> QED  BY <1>1, <1>7, <2>1
<1>10. ~ (n < s)
  BY <1>1, <1>2, <1>5, <1>7, <1>8 DEF Written, Numbered
<1>11. ~ (s < n)
  <2>1. SUFFICES ASSUME s < n PROVE FALSE
    OBVIOUS
  <2>2. run[n] \notin {"none", "rolled_back"}
    BY <1>1, <1>7 DEF Base, Housed, Home, Blank
  <2>3. ~Active(n)
    BY <1>1, <1>3, <1>7 DEF Alone
  <2>4. run[n] \in RunPC
    BY <1>1, <1>7 DEF TypeInv, TypeOK
  <2>5. run[n] \in {"complete", "failed"}
    BY <2>2, <2>3, <2>4 DEF RunPC, Active, Parsing
  <2>6. run[n] # "complete"
    <3>1. Newest(s)
      BY <1>1, <1>3 DEF Placed, s
    <3> QED  BY <1>7, <1>9, <2>1, <3>1 DEF Newest
  <2>7. CASE ~Event("failures")
    BY <1>1, <1>7, <2>5, <2>6, <2>7 DEF Written, FailedEmpty
  <2>8. CASE Event("failures")
    <3>1. Automatic(t)
      BY <1>1, <1>2, <2>8 DEF Written, NoAudits
    <3>2. s = t /\ \A q \in Runs : t < q => run[q] = "none"
      BY <1>1, <1>3, <3>1 DEF Placed, s
    <3> QED  BY <1>7, <2>1, <2>2, <3>2
  <2> QED  BY <2>7, <2>8
<1>12. s = n
  BY <1>9, <1>10, <1>11
<1> QED  BY <1>12 DEF s, n, p

LEMMA PctInit == Init => PctMatchesAmounts
<1> SUFFICES ASSUME Init, NEW p \in Policies, NEW r \in Runs PROVE pv[p][r].pct = None
  BY DEF PctMatchesAmounts
<1> QED  BY DEF Init, Filled, NoPremium

LEMMA PctInductive ==
    Base /\ Calm /\ Timely /\ Written /\ PctMatchesAmounts /\ [Next]_vars => PctMatchesAmounts'
<1> SUFFICES ASSUME Base, Calm, Timely, Written, PctMatchesAmounts, [Next]_vars,
                    NEW p \in Policies, NEW q \in Runs, Steady',
                    pv'[p][q].pct # None, pv'[p][q].estFrom = q, pv'[p][q].actFrom = q
             PROVE  pv'[p][q].pct = Pct(pv'[p][q])
  BY DEF PctMatchesAmounts, Steady, Only, Pct
<1>1. TypeInv
  BY DEF Base
<1>2. ASSUME Steady, pv'[p][q] = pv[p][q]
      PROVE  pv'[p][q].pct = Pct(pv'[p][q])
  BY <1>2 DEF PctMatchesAmounts, Steady
<1> DEFINE Goal == pv'[p][q].pct = Pct(pv'[p][q])
<1>3. ASSUME NEW r \in Runs, ParseStep(r)
      PROVE  Goal
  <2>1. ParseFrame(r)
    BY <1>1, <1>3, ParseStepIs
  <2>2. scenario' = scenario /\ PremiumStep(r, p, q)
    BY <2>1 DEF ParseFrame
  <2>3. Steady
    BY <2>2 DEF Steady, Only
  <2>4. pv'[p][q] = pv[p][q]
    <3>1. pv[p][q].id = 0 => pv[p][q].pct = None
      BY DEF Base, Unmarked
    <3>2. run[r] = "premium" => pv[p][r].id = 0
      BY DEF Base, Unwritten, Early
    <3> QED  BY <2>2, <3>1, <3>2 DEF PremiumStep
  <2> QED  BY <1>2, <2>3, <2>4
<1>4. ASSUME NEW r \in Runs, UndoStart(r)
      PROVE  Goal
  <2>1. pv' = pv /\ scenario' = scenario
    BY <1>1, <1>4, UndoStartIs DEF facts
  <2> QED  BY <1>2, <2>1 DEF Steady, Only
<1>5. ASSUME NEW r \in Runs, UndoRows(r)
      PROVE  Goal
  <2>1. /\ scenario' = scenario /\ (q # r => SameCell(p, q))
        /\ q = r => pv'[p][q] = NoPremium
    BY <1>1, <1>5, UndoRowsIs
  <2>2. pv'[p][q] = pv[p][q]
    BY <2>1 DEF SameCell, NoPremium
  <2> QED  BY <1>2, <2>1, <2>2 DEF Steady, Only
<1>6. ASSUME NEW t \in Tasks, EngineStep(t)
      PROVE  Goal
  <2>1. EngineFrame(t)
    BY <1>1, <1>6, EngineStepIs
  <2>2. scenario' = scenario
    BY <2>1 DEF EngineFrame
  <2>3. Steady
    BY <2>2 DEF Steady, Only
  <2>4. pv'[p][q] = pv[p][q] \/ task[t].pc = "persist"
    BY <2>1 DEF EngineFrame
  <2>5. CASE pv'[p][q] = pv[p][q]
    BY <1>2, <2>3, <2>5
  <2>6. CASE task[t].pc = "persist" /\ pv'[p][q] # pv[p][q]
    <3>1. Persist(t) \/ EngineFails(t)
      BY <1>6, <2>6 DEF EngineStep, AuditStart, ReadContext, DetectZero, DetectMissing, UpdateRisk, Narrate
    <3>2. Persist(t)
      BY <2>6, <3>1 DEF EngineFails, facts
    <3>3. p = task[t].policy /\ q = NewestPremium(p) /\ pv'[p][q].pct = Stored(t, pv[p][q])
      BY <1>1, <2>6, <3>2, PersistIs
    <3>4. Pct(pv[p][q])' = Pct(pv[p][q])
      BY <1>1, <2>1, EngineSame
    <3>5. CASE task[t].pct # None
      <4>1. task[t].run = q
        BY <2>3, <2>6, <3>3, <3>5, NewestIsOwn
      <4>2. Informed(t)
        BY <2>3 DEF Timely, Steady, Only, Event
      <4>3. task[t].pct = Pct(pv[p][q])
        BY <2>6, <3>3, <4>1, <4>2 DEF Informed
      <4> QED  BY <3>3, <3>4, <3>5, <4>3 DEF Stored
    <3>6. CASE task[t].pct = None
      BY <3>3, <3>4, <3>6 DEF Stored
    <3> QED  BY <3>5, <3>6
  <2> QED  BY <2>4, <2>5, <2>6
<1>7. ASSUME UNCHANGED <<policy, pv, pvp, pvc, zero, missing, run, task, scenario>>
      PROVE  Goal
  BY <1>2, <1>7 DEF Steady, Only
<1> HIDE DEF Goal
<1>8. Goal
  BY <1>3, <1>4, <1>5, <1>6, <1>7, StepCases
<1> QED  BY <1>8 DEF Goal

(* A premium row whose two amounts came from its own file never carries    *)
(* the percentage of other amounts, although the engine reads one run and  *)
(* writes to the newest row of the policy.                                 *)
THEOREM PercentagesMatchAmounts == Spec => []PctMatchesAmounts
<1> QED  BY PctInit, PctInductive, BaseHolds, CalmHolds, TimelyHolds, WrittenHolds, PTL DEF Spec

-----------------------------------------------------------------------------
(* The reports that were received. Without overlap, failures and rollbacks *)
(* the last audit report of a policy leaves no synthetic row from when it  *)
(* clears them, and its own from when it has written them.                 *)

LastReport(p, l) ==
    /\ l \in Started(p) /\ Kind(l) = "audit_report"
    /\ \A q \in Started(p) : Kind(q) = "audit_report" => q <= l

Told(l) ==
    /\ File(l).freq # "none" /\ File(l).submitted > 0
    /\ File(l).freq = "Monthly" => File(l).effective.day <= 28

Counted(p, l) ==
    /\ pvp[p][l].row /\ pvp[p][l].periods = File(l).submitted - 1
    /\ \A q \in Runs : q # l => pvp[p][q].periods = 0

Tally(p, l) ==
    /\ run[l] \in {"summary", "periods"} => \A q \in Runs : pvp[p][q].periods = 0
    /\ run[l] = "periods" => pvp[p][l].row
    /\ run[l] \in {"premium", "finish", "complete"} /\ Told(l) => Counted(p, l)

Tallied ==
    Only({"audit", "late_audit"}) => \A p \in Policies, l \in Runs : LastReport(p, l) => Tally(p, l)

LEMMA TalliedInit == Init => Tallied
BY DEF Init, Tallied, LastReport, Started

LEMMA OnlyLateAudits ==
    ASSUME Only({"audit", "late_audit"})
    PROVE  ~Event("overlap") /\ ~Event("failures") /\ ~Event("rollback")
BY DEF Only, Event

LEMMA ReportStays ==
    ASSUME NEW p, NEW l, scenario' = scenario, \A q \in Runs : run[q] # "none" => run'[q] # "none",
           TypeInv, LastReport(p, l)', run[l] # "none"
    PROVE  LastReport(p, l)
<1>1. FilesOf(p)' = FilesOf(p) /\ FilesOf(p) \subseteq Runs
  BY FileTypes DEF FilesOf, TypeInv, TypeOK
<1>2. \A q : Kind(q)' = Kind(q)
  BY DEF Kind, File
<1>3. \A q \in Started(p) : q \in Started(p)'
  BY <1>1 DEF Started
<1>4. l \in Started(p)
  BY <1>1 DEF LastReport, Started
<1> QED  BY <1>2, <1>3, <1>4 DEF LastReport

(* What counts of a row of payroll_variance_policy is the same.            *)
LEMMA TallySame ==
    ASSUME NEW p \in Policies, NEW l \in Runs, Tally(p, l), scenario' = scenario, run'[l] = run[l],
           \A q \in Runs : pvp'[p][q].row = pvp[p][q].row /\ pvp'[p][q].periods = pvp[p][q].periods
    PROVE  Tally(p, l)'
<1>1. File(l)' = File(l)
  BY DEF File
<1> QED  BY <1>1 DEF Tally, Told, Counted

(* The steps of the report itself. *)
LEMMA ReportTallies ==
    ASSUME Base, NEW r \in Runs, ParseStep(r), ~Event("failures"), NEW p \in Policies,
           Kind(r) = "audit_report", p \in File(r).policies,
           run[r] = "none" \/ Tally(p, r)
    PROVE  Tally(p, r)'
<1>1. TypeInv /\ ParseFrame(r)
  BY ParseStepIs DEF Base
<1>2. scenario' = scenario
  BY <1>1 DEF ParseFrame
<1>3. File(r)' = File(r) /\ (Told(r)' <=> Told(r))
  BY <1>2 DEF File, Told
<1>4. run \in [Runs -> RunPC] /\ \A q \in Runs : pvp[p][q] \in PayrollRec
  BY <1>1 DEF TypeInv, TypeOK, Table
<1>5. \A row \in PayrollRec, n \in Int : [row EXCEPT !.periods = n].periods = n
                                         /\ [row EXCEPT !.periods = n].row = row.row
  BY DEF PayrollRec
<1>6. CASE Upload(r)
  <2>1. run'[r] = "policy"
    BY <1>4, <1>6 DEF Upload, Goto
  <2> QED  BY <2>1 DEF Tally
<1>7. CASE ParsePolicy(r)
  <2>1. run'[r] = "rows"
    BY <1>4, <1>7 DEF ParsePolicy, Goto
  <2> QED  BY <2>1 DEF Tally
<1>8. CASE ParseRows(r)
  <2>1. ParseAuditClasses(r)
    BY <1>8 DEF ParseRows, ParseDetail, ParseAuditClasses, ParseSummary, ParsePremium, ParseXml, ParseList
  <2>2. run'[r] = "clear"
    BY <1>4, <2>1 DEF ParseAuditClasses, Goto
  <2> QED  BY <2>2 DEF Tally
<1>9. CASE ClearPeriods(r)
  <2>1. /\ run'[r] = "summary"
        /\ \A q \in Runs : pvp'[p][q] = [pvp[p][q] EXCEPT !.periods = 0]
    BY <1>1, <1>9, ClearPeriodsIs
  <2>2. ASSUME NEW q \in Runs
        PROVE  pvp'[p][q].periods = 0
    <3>1. pvp'[p][q] = [pvp[p][q] EXCEPT !.periods = 0] /\ pvp[p][q] \in PayrollRec
      BY <1>4, <2>1
    <3> QED  BY <3>1 DEF PayrollRec
  <2> QED  BY <2>1, <2>2 DEF Tally
<1>10. CASE WriteSummary(r)
  <2>1. /\ run[r] = "summary" /\ run'[r] = "periods"
        /\ pvp'[p][r].row /\ pvp'[p][r].periods = 0
        /\ \A q \in Runs : q # r => pvp'[p][q] = pvp[p][q]
    BY <1>1, <1>10, WriteSummaryIs
  <2>2. \A q \in Runs : pvp[p][q].periods = 0
    BY <2>1 DEF Tally
  <2>3. \A q \in Runs : pvp'[p][q].periods = 0
    BY <2>1, <2>2
  <2> QED  BY <2>1, <2>3 DEF Tally
<1>11. CASE WritePeriods(r)
  <2>1. PICK n \in Nat :
           /\ n = Cardinality(PeriodRows(File(r)))
           /\ run[r] = "periods" /\ run'[r] \in {"premium", "finish"}
           /\ \A q \in Runs : q # r => pvp'[p][q] = pvp[p][q]
           /\ pvp'[p][r] = IF File(r).submitted > 1 /\ File(r).freq # "none"
                           THEN [pvp[p][r] EXCEPT !.periods = n] ELSE pvp[p][r]
    <3>1. PICK n \in Nat :
             /\ n = Cardinality(PeriodRows(File(r)))
             /\ \A pp \in Policies, q \in Runs :
                   pvp'[pp][q] = IF pp \in File(r).policies /\ q = r /\ File(r).submitted > 1
                                    /\ File(r).freq # "none"
                                 THEN [pvp[pp][q] EXCEPT !.periods = n]
                                 ELSE pvp[pp][q]
      BY <1>1, <1>11, WritePeriodsIs
    <3>2. run[r] = "periods" /\ run'[r] \in {"premium", "finish"}
      BY <1>1, <1>11, WritePeriodsIs
    <3> QED  BY <3>1, <3>2
  <2>2. pvp[p][r].row /\ \A q \in Runs : pvp[p][q].periods = 0
    BY <2>1 DEF Tally
  <2>3. ASSUME Told(r)
        PROVE  pvp'[p][r].row /\ pvp'[p][r].periods = File(r).submitted - 1
    <3>1. File(r).submitted \in Nat /\ File(r).submitted > 0 /\ File(r).freq # "none"
      BY <1>1, <2>1, <2>3, FileOf DEF Told
    <3>2. CASE File(r).submitted > 1
      <4>1. pvp'[p][r] = [pvp[p][r] EXCEPT !.periods = n]
        BY <2>1, <3>1, <3>2
      <4>2. File(r).effective.day \in Int
        BY <1>1, <2>1, FileOf DEF FileRec
      <4>3. File(r).freq = "Monthly" => File(r).effective.day <= 28
        BY <2>3 DEF Told
      <4>4. n = File(r).submitted - 1
        BY <2>1, <3>1, <3>2, <4>2, <4>3, PeriodRowsAreAll
      <4> QED  BY <1>4, <1>5, <2>2, <4>1, <4>4
    <3>3. CASE ~(File(r).submitted > 1)
      <4>1. pvp'[p][r] = pvp[p][r]
        BY <2>1, <3>3
      <4>2. File(r).submitted = 1
        BY <3>1, <3>3
      <4> QED  BY <2>2, <4>1, <4>2
    <3> QED  BY <3>2, <3>3
  <2>4. \A q \in Runs : q # r => pvp'[p][q].periods = 0
    BY <2>1, <2>2
  <2>5. Told(r)' => Counted(p, r)'
    BY <1>3, <2>3, <2>4 DEF Counted
  <2> QED  BY <2>1, <2>5 DEF Tally
<1>12. ASSUME run[r] \in {"premium", "finish"}, run'[r] \in {"finish", "complete"}, pvp' = pvp
       PROVE  Tally(p, r)'
  <2>1. Told(r) => Counted(p, r)
    BY <1>12 DEF Tally
  <2>2. Told(r)' => Counted(p, r)'
    BY <1>3, <1>12, <2>1 DEF Counted
  <2> QED  BY <1>12, <2>2 DEF Tally
<1>13. CASE WritePremium(r)
  BY <1>1, <1>12, <1>13, WritePremiumFrame
<1>14. CASE Finish(r)
  BY <1>1, <1>12, <1>14, FinishIs DEF facts
<1>15. CASE ParseFails(r)
  <2>1. run'[r] = "failed"
    BY <1>4, <1>15 DEF ParseFails, Goto
  <2> QED  BY <2>1 DEF Tally
<1> QED  BY <1>6, <1>7, <1>8, <1>9, <1>10, <1>11, <1>13, <1>14, <1>15 DEF ParseStep

LEMMA ParserKeepsTally ==
    ASSUME Base, Calm, Tallied, Only({"audit", "late_audit"}), NEW r \in Runs, ParseStep(r),
           NEW p \in Policies, NEW l \in Runs, LastReport(p, l)'
    PROVE  Tally(p, l)'
<1>1. TypeInv /\ Alone /\ ~Event("overlap") /\ ~Event("failures")
  BY OnlyLateAudits DEF Base, Calm
<1>2. ParseFrame(r)
  BY <1>1, ParseStepIs
<1>3. /\ scenario' = scenario /\ \A s \in Runs : s # r => run'[s] = run[s]
      /\ run'[r] \in Parsing \cup {"complete", "failed"} /\ r \in DOMAIN scenario.files
      /\ run[r] \in Parsing \cup {"none"}
  BY <1>2 DEF ParseFrame
<1>4. \A s \in Runs : run[s] # "none" => run'[s] # "none"
  BY <1>3 DEF Parsing
<1>5. File(l)' = File(l) /\ Kind(l)' = Kind(l) /\ Kind(r)' = Kind(r) /\ FilesOf(p)' = FilesOf(p)
  BY <1>3 DEF File, Kind, FilesOf
<1>6. Kind(l) = "audit_report" /\ l \in FilesOf(p) /\ run'[l] # "none"
  BY <1>5 DEF LastReport, Started
<1>7. run[l] # "none" => LastReport(p, l) /\ Tally(p, l)
  BY <1>1, <1>3, <1>4, ReportStays DEF Tallied
<1>8. CASE l = r
  <2>1. p \in File(r).policies
    BY <1>6, <1>8 DEF FilesOf, File
  <2> QED  BY <1>1, <1>6, <1>7, <1>8, <2>1, ReportTallies
<1>9. CASE l # r
  <2>1. run'[l] = run[l] /\ run[l] # "none" /\ Tally(p, l)
    BY <1>3, <1>6, <1>7, <1>9
  <2>2. CASE p \notin File(r).policies
    <3>1. \A q \in Runs : pvp'[p][q] = pvp[p][q]
      BY <1>2, <2>2 DEF ParseFrame, SameCell
    <3> QED  BY <1>3, <2>1, <3>1, TallySame
  <2>3. CASE p \in File(r).policies
    <3>1. Kind(r) # "audit_report"
      <4>1. SUFFICES ASSUME Kind(r) = "audit_report" PROVE FALSE
        OBVIOUS
      <4>2. r \in Started(p)'
        BY <1>3, <2>3 DEF Started, FilesOf, File, Parsing
      <4>3. r <= l
        BY <1>5, <4>1, <4>2 DEF LastReport
      <4>4. r < l
        <5>1. \A q \in Runs : q \in Int
          BY Sizes
        <5> QED  BY <1>9, <4>3, <5>1
      <4> QED  BY <1>1, <2>1, <4>4, ParserAlone
    <3>2. run[r] \notin {"clear", "summary", "periods"}
      BY <3>1 DEF Base, ReportsClear
    <3>3. ASSUME NEW q \in Runs
          PROVE  pvp'[p][q] = pvp[p][q] \/ (q = r /\ pvp'[p][q].periods = 0)
      <4>1. PayrollStep(r, p, q)
        BY <1>2 DEF ParseFrame
      <4> QED  BY <3>2, <4>1 DEF PayrollStep
    <3>4. pvp'[p][l] = pvp[p][l]
      BY <1>9, <3>3
    <3>5. \A q \in Runs : pvp[p][q].periods = 0 => pvp'[p][q].periods = 0
      BY <3>3
    <3>6. \A q \in Runs : q # l => (pvp[p][q].periods = 0 => pvp'[p][q].periods = 0)
      BY <3>5
    <3>7. Told(l)' <=> Told(l)
      BY <1>5 DEF Told
    <3>8. Counted(p, l) => Counted(p, l)'
      BY <1>5, <3>4, <3>6 DEF Counted
    <3> QED  BY <2>1, <3>4, <3>5, <3>7, <3>8 DEF Tally
  <2> QED  BY <2>2, <2>3
<1> QED  BY <1>8, <1>9

LEMMA TalliedInductive == Base /\ Kept /\ Calm /\ Tallied /\ [Next]_vars => Tallied'
<1> SUFFICES ASSUME Base, Kept, Calm, Tallied, [Next]_vars, Only({"audit", "late_audit"})',
                    NEW p \in Policies, NEW l \in Runs, LastReport(p, l)'
             PROVE  Tally(p, l)'
  BY DEF Tallied
<1>1. TypeInv
  BY DEF Base
<1> DEFINE Goal == Tally(p, l)'
<1>2. ASSUME NEW r \in Runs, ParseStep(r)
      PROVE  Goal
  <2>1. scenario' = scenario
    BY <1>1, <1>2, ParseStepIs DEF ParseFrame
  <2>2. Only({"audit", "late_audit"})
    BY <2>1 DEF Only
  <2> QED  BY <1>2, <2>2, ParserKeepsTally
<1>3. ASSUME NEW r \in Runs, UndoStart(r)
      PROVE  Goal
  <2>1. Event("rollback") /\ scenario' = scenario
    BY <1>1, <1>3, UndoStartIs
  <2> QED  BY <2>1 DEF Only, Event
<1>4. ASSUME NEW r \in Runs, UndoRows(r)
      PROVE  Goal
  <2>1. run[r] = "rolling_back" /\ scenario' = scenario
    BY <1>1, <1>4, UndoRowsIs
  <2>2. ~Event("rollback")
    BY <2>1 DEF Only, Event
  <2> QED  BY <2>1, <2>2 DEF Kept
<1>5. ASSUME run' = run, scenario' = scenario,
             \A q \in Runs : pvp'[p][q].row = pvp[p][q].row /\ pvp'[p][q].periods = pvp[p][q].periods
      PROVE  Goal
  <2>1. run'[l] # "none"
    BY DEF LastReport, Started
  <2>2. LastReport(p, l)
    BY <1>1, <1>5, <2>1, ReportStays
  <2>3. Tally(p, l)
    BY <1>5, <2>2 DEF Tallied, Only
  <2> QED  BY <1>5, <2>3, TallySame
<1>6. ASSUME NEW t \in Tasks, EngineStep(t)
      PROVE  Goal
  <2>1. EngineFrame(t)
    BY <1>1, <1>6, EngineStepIs
  <2>2. run' = run /\ scenario' = scenario
    BY <2>1 DEF EngineFrame
  <2> QED  BY <1>1, <1>5, <2>1, <2>2, EngineSame
<1>7. ASSUME UNCHANGED <<policy, pv, pvp, pvc, zero, missing, run, task, scenario>>
      PROVE  Goal
  BY <1>5, <1>7
<1> HIDE DEF Goal
<1>8. Goal
  BY <1>2, <1>3, <1>4, <1>6, <1>7, StepCases
<1> QED  BY <1>8 DEF Goal

LEMMA TalliedHolds == Spec => []Tallied
<1> QED  BY TalliedInit, TalliedInductive, BaseHolds, KeptHolds, CalmHolds, PTL DEF Spec

(* The synthetic rows of one run are as many as it says. *)
LEMMA PeriodsOfOne ==
    ASSUME NEW n, NEW l \in Runs, n[l] \in Nat, \A q \in Runs : q # l => n[q] = 0
    PROVE  Cardinality(UNION {{r} \X (1 .. n[r]) : r \in Runs}) = n[l]
<1>1. UNION {{r} \X (1 .. n[r]) : r \in Runs} = {l} \X (1 .. n[l])
  <2>1. \A q \in Runs : q # l => 1 .. n[q] = {}
    OBVIOUS
  <2>2. \A q \in Runs : q # l => {q} \X (1 .. n[q]) = {}
    BY <2>1
  <2> QED  BY <2>2
<1>2. IsFiniteSet({l}) /\ Cardinality({l}) = 1
  BY FS_Singleton
<1>3. IsFiniteSet(1 .. n[l]) /\ Cardinality(1 .. n[l]) = n[l]
  BY FS_Interval
<1>4. ASSUME NEW k \in Nat, k = n[l]
      PROVE  Cardinality({l} \X (1 .. k)) = k
  <2>1. Cardinality({l} \X (1 .. k)) = Cardinality({l}) * Cardinality(1 .. k)
    BY <1>2, <1>3, <1>4, FS_Product
  <2> QED  BY <1>2, <1>3, <1>4, <2>1
<1> QED  BY <1>1, <1>4

LEMMA TalliedIsReceived == TypeInv /\ Tallied => ReceivedMatchesReport
<1> DEFINE Reports(p) == {r \in Started(p) : Kind(r) = "audit_report"}
<1> SUFFICES ASSUME TypeInv, Tallied, NEW p \in Policies, Only({"audit", "late_audit"}), Quiet,
                    Reports(p) # {}, run[Max(Reports(p))] = "complete",
                    Told(Max(Reports(p)))
             PROVE  Received(p) = File(Max(Reports(p))).submitted
                                  + Cardinality({q \in Runs \ {Max(Reports(p))} : pvp[p][q].row})
  BY DEF ReceivedMatchesReport, Told
<1>1. Reports(p) \subseteq Runs
  BY FileTypes DEF Started, FilesOf, TypeInv, TypeOK
<1>2. Reports(p) \subseteq Int
  <2>1. \A q \in Runs : q \in Int
    BY Sizes
  <2> QED  BY <1>1, <2>1
<1>3. IsFiniteSet(Reports(p))
  BY <1>1, Sizes, FS_Subset
<1>4. PICK l : l = Max(Reports(p))
  OBVIOUS
<1>5. l \in Reports(p) /\ \A q \in Reports(p) : q <= l
  <2> HIDE DEF Reports
  <2> QED  BY <1>2, <1>3, <1>4, MaxIsGreatest
<1>6. LastReport(p, l) /\ l \in Runs
  BY <1>1, <1>5 DEF LastReport
<1>7. Counted(p, l)
  BY <1>4, <1>6 DEF Tallied, Tally
<1> DEFINE others == {q \in Runs \ {l} : pvp[p][q].row}
<1>8. File(l).submitted \in Nat /\ File(l).submitted > 0
  <2>1. l \in DOMAIN scenario.files
    BY <1>5 DEF Started, FilesOf
  <2> QED  BY <1>4, <1>6, <2>1, FileOf DEF Told
<1>9. Cardinality({r \in Runs : pvp[p][r].row}) = Cardinality(others) + 1 /\ Cardinality(others) \in Nat
  <2>1. IsFiniteSet(others) /\ l \notin others
    <3>1. others \subseteq Runs
      OBVIOUS
    <3> QED  BY <3>1, Sizes, FS_Subset
  <2>2. {r \in Runs : pvp[p][r].row} = others \cup {l}
    BY <1>6, <1>7 DEF Counted
  <2>3. Cardinality(others) \in Nat
    BY <2>1, FS_CardinalityType
  <2>4. Cardinality(others \cup {l}) = Cardinality(others) + 1
    <3> HIDE DEF others
    <3> QED  BY <2>1, FS_AddElement
  <2> QED  BY <2>2, <2>3, <2>4
<1>10. Cardinality(UNION {{r} \X (1 .. pvp[p][r].periods) : r \in Runs}) = File(l).submitted - 1
  <2> DEFINE n == [r \in Runs |-> pvp[p][r].periods]
  <2>1. n[l] = File(l).submitted - 1 /\ \A q \in Runs : q # l => n[q] = 0
    BY <1>6, <1>7 DEF Counted
  <2>2. n[l] \in Nat
    BY <1>8, <2>1
  <2>3. UNION {{r} \X (1 .. pvp[p][r].periods) : r \in Runs} = UNION {{r} \X (1 .. n[r]) : r \in Runs}
    OBVIOUS
  <2> HIDE DEF n
  <2>4. Cardinality(UNION {{r} \X (1 .. n[r]) : r \in Runs}) = n[l]
    BY <1>6, <2>1, <2>2, PeriodsOfOne
  <2> QED  BY <2>1, <2>3, <2>4
<1>11. Received(p) = File(l).submitted + Cardinality(others)
  <2> HIDE DEF others
  <2> QED  BY <1>8, <1>9, <1>10 DEF Received
<1> QED  BY <1>4, <1>11

(* What was received of a policy is what its last complete audit report    *)
(* says and one for each other file with a row, in whatever order the      *)
(* files came and whatever is audited in between, when every month has the *)
(* day of a monthly report's effective date.                               *)
THEOREM ReceivedIsReported == Spec => []ReceivedMatchesReport
<1> QED  BY TalliedIsReceived, TalliedHolds, TypeInvHolds, PTL

=============================================================================
