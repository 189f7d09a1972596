------------------------------ MODULE ReportProofs ------------------------------
(***************************************************************************)
(* Proofs about ReportJobs, for every number of requests and runs, every   *)
(* window and all events: a COMPLETE job has a link and a file, and a      *)
(* FAILED job with a link was given out more than once.                    *)
(***************************************************************************)
EXTENDS ReportJobs, TLAPS

Holders == InTask \cup {"complete", "failed"}

(* What a request in its place has: a job; the query it is at; and before  *)
(* it publishes, a signature and a stored object.                          *)
Sound(q) ==
    /\ request[q].pc \in Holders => request[q].job \in Jobs
    /\ request[q].pc \in {"queued", "looking", "inserting", "new"} => request[q].next = 1
    /\ request[q].pc = "reading" => request[q].next <= Len(SectionsOf[request[q].asked.type])
    /\ request[q].pc = "publishing" =>
          request[q].signed # NoTime /\ s3[request[q].job][1] = "stored"

(* A link was written by a request that is complete, a failure by one that *)
(* failed: a FAILED job with a link has had two.                           *)
LinkedByRequest ==
    \A j \in Jobs : jobs[j].url # NoTime =>
        \E q \in Requests : request[q].job = j /\ request[q].pc = "complete"

FailedByRequest ==
    \A j \in Jobs : jobs[j].status = "FAILED" =>
        \E q \in Requests : request[q].job = j /\ request[q].pc = "failed"

Links == (\A q \in Requests : Sound(q)) /\ CompleteHasFile /\ LinkedByRequest /\ FailedByRequest

Stores == [Jobs -> {"absent"} \X {{}} \cup {"stored"} \X Content]

-----------------------------------------------------------------------------
(* Types. *)

LEMMA SectionsFacts ==
    \A t \in ReportTypes : /\ Len(SectionsOf[t]) \in 1 .. 6
                           /\ \A n \in 1 .. Len(SectionsOf[t]) : SectionsOf[t][n] \in Sections
<1> SUFFICES ASSUME NEW t \in ReportTypes
             PROVE  /\ Len(SectionsOf[t]) \in 1 .. 6
                    /\ \A n \in 1 .. Len(SectionsOf[t]) : SectionsOf[t][n] \in Sections
  OBVIOUS
<1>1. CASE t = "policy_audit"
  <2>1. SectionsOf[t] = <<"premium", "payroll", "class", "missing", "zero", "narrative">>
    BY <1>1 DEF SectionsOf
  <2> QED
    BY <2>1 DEF Sections
<1>2. CASE t = "book_summary"
  <2>1. SectionsOf[t] = <<"book">>
    BY <1>2 DEF SectionsOf
  <2> QED
    BY <2>1 DEF Sections
<1>3. CASE t = "class_code_variance"
  <2>1. SectionsOf[t] = <<"class">>
    BY <1>3 DEF SectionsOf
  <2> QED
    BY <2>1 DEF Sections
<1>4. CASE t = "ingestion_audit_trail"
  <2>1. SectionsOf[t] = <<"runs">>
    BY <1>4 DEF SectionsOf
  <2> QED
    BY <2>1 DEF Sections
<1>5. CASE t = "exception_report"
  <2>1. SectionsOf[t] = <<"errors", "skipped">>
    BY <1>5 DEF SectionsOf
  <2> QED
    BY <2>1 DEF Sections
<1> QED
  BY <1>1, <1>2, <1>3, <1>4, <1>5 DEF ReportTypes

(* A query finds facts of runs. *)
LEMMA FindsRuns ==
    ASSUME facts \in SUBSET Runs, removed \in SUBSET Runs, NEW a \in Report, NEW section,
           NEW found \in Finds(a, section)
    PROVE  found \in SUBSET Runs
<1>1. a.type \in ReportTypes
  BY DEF Report
<1>2. \A S \in SUBSET Runs : \A x \in Latest(S) : x \in SUBSET Runs
  BY DEF Latest
<1>3. FactsOf(a) \in SUBSET Runs /\ KeptOf(a) \in SUBSET Runs
  BY DEF FactsOf, KeptOf
<1>4. \A x \in NarrativeFinds(a) : x \in SUBSET Runs
  BY <1>2, <1>3 DEF NarrativeFinds
<1>5. \A x \in AuditFinds(a, section) : x \in SUBSET Runs
  BY <1>2, <1>3, <1>4 DEF AuditFinds
<1>6. \A x \in BookFinds \cup ExportFinds(a) \cup TrailFinds(a) \cup ExceptsFinds(a) :
          x \in SUBSET Runs
  BY <1>2, <1>3 DEF BookFinds, ExportFinds, TrailFinds, ExceptsFinds
<1> QED
  BY <1>1, <1>5, <1>6 DEF Finds, ReportTypes

LEMMA InitTyped == Init => TypeOK /\ Links
<1> SUFFICES ASSUME Init PROVE TypeOK /\ Links
  OBVIOUS
<1> USE ReportAssumption DEF ReportAssumption
<1>1. Blank \in Report
  BY DEF Blank, Report, ReportTypes
<1>2. NoTime \notin Time /\ 0 \in Time
  BY DEF NoTime, Time
<1>3. TypeOK
  BY <1>1, <1>2 DEF Init, TypeOK, JobRec, JobStatus, RequestRec, RequestPC, Content, NoJob
<1>4. Links
  BY DEF Init, Links, Sound, CompleteHasFile, Polled, LinkedByRequest, FailedByRequest, Holders, InTask
<1> QED
  BY <1>3, <1>4

-----------------------------------------------------------------------------
(* A step of one request. It changes its own record, and one job as        *)
(* Insert, Start, Publish and MarkFailed do; stored objects stay.          *)
LEMMA RequestStepKeepsLinks ==
    ASSUME Links, NEW q \in Requests,
           request \in [Requests -> RequestRec],
           request' = [request EXCEPT ![q] = request'[q]],
           request[q].pc \notin {"complete", "failed"},
           Sound(q)',
           \A j \in Jobs : s3[j][1] = "stored" => s3'[j][1] = "stored",
           \A j \in Jobs :
              \/ jobs'[j] = jobs[j]
              \/ jobs'[j].status \notin {"COMPLETE", "FAILED"} /\ jobs'[j].url \in {jobs[j].url, NoTime}
              \/ /\ request'[q].job = j /\ request'[q].pc = "complete"
                 /\ jobs'[j].status = "COMPLETE" /\ jobs'[j].url # NoTime /\ s3'[j][1] = "stored"
              \/ /\ request'[q].job = j /\ request'[q].pc = "failed"
                 /\ jobs'[j].status = "FAILED" /\ jobs'[j].url = jobs[j].url
    PROVE  Links'
<1>1. \A p \in Requests \ {q} : request'[p] = request[p]
  OBVIOUS
<1>2. \A p \in Requests : Sound(p)'
  <2> SUFFICES ASSUME NEW p \in Requests \ {q} PROVE Sound(p)'
    OBVIOUS
  <2> QED
    BY <1>1 DEF Links, Sound, Holders, InTask
<1>3. CompleteHasFile'
  BY DEF Links, CompleteHasFile, Polled
<1>4. LinkedByRequest'
  <2> SUFFICES ASSUME NEW j \in Jobs, jobs'[j].url # NoTime
               PROVE  \E p \in Requests : request'[p].job = j /\ request'[p].pc = "complete"
    BY DEF LinkedByRequest, NoTime
  <2>1. CASE jobs[j].url # NoTime
    <3>1. PICK p \in Requests : request[p].job = j /\ request[p].pc = "complete"
      BY <2>1 DEF Links, LinkedByRequest
    <3> QED
      BY <1>1, <3>1
  <2>2. CASE jobs[j].url = NoTime
    BY <2>2
  <2> QED
    BY <2>1, <2>2
<1>5. FailedByRequest'
  <2> SUFFICES ASSUME NEW j \in Jobs, jobs'[j].status = "FAILED"
               PROVE  \E p \in Requests : request'[p].job = j /\ request'[p].pc = "failed"
    BY DEF FailedByRequest
  <2>1. CASE jobs[j].status = "FAILED"
    <3>1. PICK p \in Requests : request[p].job = j /\ request[p].pc = "failed"
      BY <2>1 DEF Links, FailedByRequest
    <3> QED
      BY <1>1, <3>1
  <2>2. CASE jobs[j].status # "FAILED"
    BY <2>2
  <2> QED
    BY <2>1, <2>2
<1> QED
  BY <1>2, <1>3, <1>4, <1>5 DEF Links

-----------------------------------------------------------------------------
(* The actions. *)

(* What a step of request q starts from. *)
LEMMA RequestFacts ==
    ASSUME TypeOK, Links, NEW q \in Requests
    PROVE  /\ request \in [Requests -> RequestRec]
           /\ request[q] \in RequestRec
           /\ request[q].pc \in Holders => request[q].job \in Jobs
           /\ NoTime \notin Time /\ now \in Time /\ now # NoTime
           /\ Jobs = Requests /\ jobs \in [Jobs -> JobRec] /\ s3 \in Stores
BY ReportAssumption DEF ReportAssumption, TypeOK, Links, Sound, NoTime, Time, Stores, Jobs

LEMMA AskKeeps ==
    ASSUME TypeOK, Links, NEW q \in Requests, Ask(q)
    PROVE  TypeOK' /\ Links'
<1>0. /\ request \in [Requests -> RequestRec] /\ request[q] \in RequestRec
      /\ request[q].pc \in Holders => request[q].job \in Jobs
      /\ NoTime \notin Time /\ now \in Time /\ now # NoTime
      /\ Jobs = Requests /\ jobs \in [Jobs -> JobRec] /\ s3 \in Stores
  BY RequestFacts
<1> USE <1>0
<1>1. PICK a \in scenario.asked :
          request' = [request EXCEPT ![q] = [@ EXCEPT
                         !.pc = IF Acceptable(a) THEN "looking" ELSE "refused",
                         !.asked = a, !.gone = removed]]
  BY DEF Ask
<1>2. a \in Report /\ removed \in SUBSET Runs
  BY <1>1, ReportAssumption DEF ReportAssumption, TypeOK
<1>3. request'[q] = [request[q] EXCEPT !.pc = IF Acceptable(a) THEN "looking" ELSE "refused",
                                       !.asked = a, !.gone = removed]
  BY <1>1
<1>4. request'[q] \in RequestRec /\ request'[q].pc \in {"looking", "refused"}
      /\ request'[q].next = request[q].next
  BY <1>2, <1>3 DEF RequestRec, RequestPC
<1>5. request' = [request EXCEPT ![q] = request'[q]]
  BY <1>1
<1>6. UNCHANGED <<jobs, s3, facts, removed, now, shared, scenario>> /\ request[q].pc = "new"
  BY DEF Ask
<1>7. Sound(q)'
  BY <1>4, <1>6 DEF Links, Sound, Holders, InTask
<1>8. Links'
  BY <1>5, <1>6, <1>7, RequestStepKeepsLinks
<1>9. TypeOK'
  BY <1>4, <1>5, <1>6 DEF TypeOK
<1> QED
  BY <1>8, <1>9

LEMMA FindKeeps ==
    ASSUME TypeOK, Links, NEW q \in Requests, Find(q)
    PROVE  TypeOK' /\ Links'
<1>0. /\ request \in [Requests -> RequestRec] /\ request[q] \in RequestRec
      /\ request[q].pc \in Holders => request[q].job \in Jobs
      /\ NoTime \notin Time /\ now \in Time /\ now # NoTime
      /\ Jobs = Requests /\ jobs \in [Jobs -> JobRec] /\ s3 \in Stores
  BY RequestFacts
<1> USE <1>0
<1>1. UNCHANGED <<jobs, s3, facts, removed, now, shared, scenario>> /\ request[q].pc = "looking"
  BY DEF Find
<1>2. /\ request' = [request EXCEPT ![q] = request'[q]]
      /\ request'[q] \in RequestRec
      /\ request'[q].pc \in {"inserting", "queued"} /\ request'[q].next = request[q].next
      /\ request'[q].pc = "queued" => request'[q].job \in Jobs
  <2>1. CASE Reusable(request[q].asked) = {}
    <3>1. request' = [request EXCEPT ![q].pc = "inserting"]
      BY <2>1 DEF Find, Goes
    <3>2. request'[q] = [request[q] EXCEPT !.pc = "inserting"]
      BY <3>1
    <3>3. request'[q] \in RequestRec
      BY <3>2 DEF RequestRec, RequestPC
    <3> QED
      BY <3>1, <3>2, <3>3 DEF RequestRec
  <2>2. CASE Reusable(request[q].asked) # {}
    <3>1. PICK j \in NewestOf(Reusable(request[q].asked)) :
              request' = [request EXCEPT ![q] = [@ EXCEPT !.pc = "queued", !.job = j]]
      BY <2>2 DEF Find
    <3>2. j \in Jobs
      BY <3>1 DEF NewestOf, Reusable
    <3>3. request'[q] = [request[q] EXCEPT !.pc = "queued", !.job = j]
      BY <3>1
    <3>4. request'[q] \in RequestRec
      BY <3>2, <3>3 DEF RequestRec, RequestPC
    <3> QED
      BY <3>1, <3>2, <3>3, <3>4 DEF RequestRec
  <2> QED
    BY <2>1, <2>2
<1>3. Sound(q)'
  BY <1>1, <1>2 DEF Links, Sound, Holders, InTask
<1>4. Links'
  BY <1>1, <1>2, <1>3, RequestStepKeepsLinks
<1>5. TypeOK'
  BY <1>1, <1>2 DEF TypeOK
<1> QED
  BY <1>4, <1>5

LEMMA InsertKeeps ==
    ASSUME TypeOK, Links, NEW q \in Requests, Insert(q)
    PROVE  TypeOK' /\ Links'
<1>0. /\ request \in [Requests -> RequestRec] /\ request[q] \in RequestRec
      /\ request[q].pc \in Holders => request[q].job \in Jobs
      /\ NoTime \notin Time /\ now \in Time /\ now # NoTime
      /\ Jobs = Requests /\ jobs \in [Jobs -> JobRec] /\ s3 \in Stores
  BY RequestFacts
<1> USE <1>0
<1>1. UNCHANGED <<s3, facts, removed, now, shared, scenario>> /\ request[q].pc = "inserting"
  BY DEF Insert
<1>2. request' = [request EXCEPT ![q] = [@ EXCEPT !.pc = "queued", !.job = q]]
  BY DEF Insert
<1>3. request'[q] = [request[q] EXCEPT !.pc = "queued", !.job = q]
  BY <1>2
<1>4. request'[q] \in RequestRec
  BY <1>3 DEF RequestRec, RequestPC
<1>5. jobs' = [jobs EXCEPT ![q] = [status |-> "QUEUED", asked |-> request[q].asked,
                                   requested |-> now, url |-> NoTime]]
  BY DEF Insert
<1>6. jobs' \in [Jobs -> JobRec]
  BY <1>5 DEF RequestRec, JobRec, JobStatus
<1>7. Sound(q)'
  BY <1>1, <1>3 DEF Links, Sound, Holders, InTask, RequestRec
<1>8. \A j \in Jobs : jobs'[j] = jobs[j] \/ (jobs'[j].status = "QUEUED" /\ jobs'[j].url = NoTime)
  <2> SUFFICES ASSUME NEW j \in Jobs
               PROVE  jobs'[j] = jobs[j] \/ (jobs'[j].status = "QUEUED" /\ jobs'[j].url = NoTime)
    OBVIOUS
  <2>1. CASE j = q
    <3>1. jobs'[j] = [status |-> "QUEUED", asked |-> request[q].asked, requested |-> now,
                      url |-> NoTime]
      BY <1>5, <2>1
    <3> QED
      BY <3>1
  <2>2. CASE j # q
    BY <1>5, <2>2
  <2> QED
    BY <2>1, <2>2
<1>9. Links'
  BY <1>1, <1>2, <1>7, <1>8, RequestStepKeepsLinks
<1>10. TypeOK'
  BY <1>1, <1>2, <1>4, <1>6 DEF TypeOK
<1> QED
  BY <1>9, <1>10

LEMMA StartKeeps ==
    ASSUME TypeOK, Links, NEW q \in Requests, Start(q)
    PROVE  TypeOK' /\ Links'
<1>0. /\ request \in [Requests -> RequestRec] /\ request[q] \in RequestRec
      /\ request[q].pc \in Holders => request[q].job \in Jobs
      /\ NoTime \notin Time /\ now \in Time /\ now # NoTime
      /\ Jobs = Requests /\ jobs \in [Jobs -> JobRec] /\ s3 \in Stores
  BY RequestFacts
<1> USE <1>0
<1>1. UNCHANGED <<s3, facts, removed, now, scenario>> /\ request[q].pc = "queued"
  BY DEF Start
<1>2. request[q].job \in Jobs
  BY <1>1 DEF Holders, InTask
<1>3. request' = [request EXCEPT ![q].pc = "reading"]
  BY DEF Start, Goes
<1>4. request'[q] = [request[q] EXCEPT !.pc = "reading"]
  BY <1>3
<1>5. request'[q] \in RequestRec
  BY <1>4 DEF RequestRec, RequestPC
<1>6. jobs' = [jobs EXCEPT ![request[q].job].status = "PROCESSING"]
  BY DEF Start
<1>7. jobs' \in [Jobs -> JobRec]
  BY <1>2, <1>6 DEF JobRec, JobStatus
<1>8. shared' \in SUBSET Jobs
  BY <1>2 DEF Start, TypeOK
<1>9. Sound(q)'
  <2>1. request[q].next = 1 /\ request[q].asked.type \in ReportTypes
    BY <1>1 DEF Links, Sound, RequestRec, Report
  <2>2. Len(SectionsOf[request[q].asked.type]) \in 1 .. 6
    BY <2>1, SectionsFacts
  <2>3. /\ request'[q].pc = "reading" /\ request'[q].next = request[q].next
        /\ request'[q].asked = request[q].asked /\ request'[q].job = request[q].job
    BY <1>4 DEF RequestRec
  <2>4. 1 <= Len(SectionsOf[request[q].asked.type])
    <3> DEFINE len == Len(SectionsOf[request[q].asked.type])
    <3>1. len \in 1 .. 6
      BY <2>2
    <3> HIDE DEF len
    <3>2. 1 <= len
      BY <3>1
    <3> QED
      BY <3>2 DEF len
  <2> QED
    BY <1>2, <2>1, <2>3, <2>4 DEF Sound
<1>10. \A j \in Jobs : 
      jobs'[j] = jobs[j] \/ (jobs'[j].status = "PROCESSING" /\ jobs'[j].url = jobs[j].url)
  BY <1>2, <1>6 DEF JobRec
<1>11. Links'
  BY <1>1, <1>3, <1>9, <1>10, RequestStepKeepsLinks
<1>12. TypeOK'
  BY <1>1, <1>3, <1>5, <1>7, <1>8 DEF TypeOK
<1> QED
  BY <1>11, <1>12

LEMMA ReadSectionKeeps ==
    ASSUME TypeOK, Links, NEW q \in Requests, ReadSection(q)
    PROVE  TypeOK' /\ Links'
<1>0. /\ request \in [Requests -> RequestRec] /\ request[q] \in RequestRec
      /\ request[q].pc \in Holders => request[q].job \in Jobs
      /\ NoTime \notin Time /\ now \in Time /\ now # NoTime
      /\ Jobs = Requests /\ jobs \in [Jobs -> JobRec] /\ s3 \in Stores
  BY RequestFacts
<1> USE <1>0
<1> DEFINE sections == SectionsOf[request[q].asked.type]
           n == request[q].next
           Read(found) == [request[q] EXCEPT
                              !.shows = request[q].shows \cup ({sections[n]} \X found),
                              !.next = n + 1,
                              !.pc = IF n = Len(sections) THEN "uploading" ELSE "reading"]
<1>1. UNCHANGED <<jobs, s3, facts, removed, now, shared, scenario>> /\ request[q].pc = "reading"
  BY DEF ReadSection
<1>2. request[q].asked \in Report /\ request[q].asked.type \in ReportTypes
  BY DEF RequestRec, Report
<1>3. n \in 1 .. Len(sections) /\ Len(sections) \in 1 .. 6
  BY <1>1, <1>2, SectionsFacts DEF Links, Sound, RequestRec
<1>4. PICK found \in Finds(request[q].asked, sections[n]) :
          request' = [request EXCEPT ![q] = Read(found)]
  BY DEF ReadSection
<1>5. request'[q] = Read(found)
  <2> HIDE DEF Read
  <2> QED
    BY <1>4
<1>6. request[q].shows \cup ({sections[n]} \X found) \in Content
  <2>1. found \in SUBSET Runs
    BY <1>2, <1>4, FindsRuns DEF TypeOK
  <2>2. sections[n] \in Sections
    BY <1>2, <1>3, SectionsFacts
  <2> HIDE DEF sections, n
  <2> QED
    BY <2>1, <2>2 DEF RequestRec, Content
<1>7. n + 1 \in 1 .. 7
  <2> HIDE DEF sections, n
  <2> QED
    BY <1>3
<1>8. request'[q] \in RequestRec
  <2> HIDE DEF sections, n
  <2> QED
    BY <1>5, <1>6, <1>7 DEF RequestRec, RequestPC
<1>9. Sound(q)'
  <2>1. request[q].job \in Jobs
    BY <1>1 DEF Holders, InTask
  <2>2. /\ request'[q].job = request[q].job /\ request'[q].asked = request[q].asked
        /\ request'[q].next = n + 1
        /\ request'[q].pc = IF n = Len(sections) THEN "uploading" ELSE "reading"
    BY <1>5 DEF RequestRec
  <2>3. n + 1 <= Len(sections) \/ n = Len(sections)
    <3> HIDE DEF sections, n
    <3> QED
      BY <1>3
  <2> QED
    BY <2>1, <2>2, <2>3 DEF Sound, Holders, InTask
<1>10. Links'
  BY <1>1, <1>4, <1>9, RequestStepKeepsLinks
<1>11. TypeOK'
  BY <1>1, <1>4, <1>8 DEF TypeOK
<1> QED
  BY <1>10, <1>11

LEMMA UploadKeeps ==
    ASSUME TypeOK, Links, NEW q \in Requests, Upload(q)
    PROVE  TypeOK' /\ Links'
<1>0. /\ request \in [Requests -> RequestRec] /\ request[q] \in RequestRec
      /\ request[q].pc \in Holders => request[q].job \in Jobs
      /\ NoTime \notin Time /\ now \in Time /\ now # NoTime
      /\ Jobs = Requests /\ jobs \in [Jobs -> JobRec] /\ s3 \in Stores
  BY RequestFacts
<1> USE <1>0
<1>1. UNCHANGED <<jobs, facts, removed, now, shared, scenario>> /\ request[q].pc = "uploading"
  BY DEF Upload
<1>2. request[q].job \in Jobs
  BY <1>1 DEF Holders, InTask
<1>3. request' = [request EXCEPT ![q] = [@ EXCEPT !.pc = "publishing", !.signed = now]]
  BY DEF Upload
<1>4. request'[q] = [request[q] EXCEPT !.pc = "publishing", !.signed = now]
  BY <1>3
<1>5. request'[q] \in RequestRec
  BY <1>4 DEF RequestRec, RequestPC
<1>6. s3' = [s3 EXCEPT ![request[q].job] = <<"stored", request[q].shows>>]
  BY DEF Upload
<1>7. request[q].shows \in Content
  BY DEF RequestRec
<1>8. s3' \in Stores
  BY <1>2, <1>6, <1>7 DEF Stores
<1>9. /\ s3'[request[q].job][1] = "stored"
      /\ \A j \in Jobs : s3[j][1] = "stored" => s3'[j][1] = "stored"
  BY <1>2, <1>6 DEF Stores
<1>10. Sound(q)'
  BY <1>2, <1>4, <1>9 DEF Sound, Holders, InTask, RequestRec, NoTime
<1>11. Links'
  BY <1>1, <1>3, <1>9, <1>10, RequestStepKeepsLinks
<1>12. TypeOK'
  BY <1>1, <1>3, <1>5, <1>8 DEF TypeOK, Stores
<1> QED
  BY <1>11, <1>12

LEMMA EndedIsTyped ==
    ASSUME NEW q \in Requests, request[q] \in RequestRec, NEW as \in RequestPC,
           request'[q] = Ended(q, as)
    PROVE  /\ request'[q] \in RequestRec /\ request'[q].pc = as
           /\ request'[q].job = request[q].job /\ request'[q].next = 1
<1>1. NoTime \in Time \cup {NoTime} /\ {} \in Content /\ 1 \in 1 .. 7
  BY DEF Content
<1> QED
  BY <1>1 DEF Ended, RequestRec

LEMMA PublishKeeps ==
    ASSUME TypeOK, Links, NEW q \in Requests, Publish(q)
    PROVE  TypeOK' /\ Links'
<1>0. /\ request \in [Requests -> RequestRec] /\ request[q] \in RequestRec
      /\ request[q].pc \in Holders => request[q].job \in Jobs
      /\ NoTime \notin Time /\ now \in Time /\ now # NoTime
      /\ Jobs = Requests /\ jobs \in [Jobs -> JobRec] /\ s3 \in Stores
  BY RequestFacts
<1> USE <1>0
<1>1. UNCHANGED <<s3, facts, removed, now, shared, scenario>> /\ request[q].pc = "publishing"
  BY DEF Publish
<1>2. /\ request[q].job \in Jobs /\ request[q].signed # NoTime
      /\ s3[request[q].job][1] = "stored"
  BY <1>1 DEF Links, Sound, Holders, InTask
<1>3. request' = [request EXCEPT ![q] = Ended(q, "complete")]
  BY DEF Publish
<1>4. /\ request'[q] \in RequestRec /\ request'[q].pc = "complete"
      /\ request'[q].job = request[q].job
  BY <1>3, EndedIsTyped DEF RequestPC
<1>5. jobs' = [jobs EXCEPT ![request[q].job] = [@ EXCEPT !.status = "COMPLETE",
                                                        !.url = request[q].signed]]
  BY DEF Publish
<1>6. jobs' \in [Jobs -> JobRec]
  <2> DEFINE row == [jobs[request[q].job] EXCEPT !.status = "COMPLETE", !.url = request[q].signed]
  <2>1. request[q].signed \in Time \cup {NoTime} /\ jobs[request[q].job] \in JobRec
    BY <1>2 DEF RequestRec
  <2>2. row \in JobRec
    BY <2>1 DEF JobRec, JobStatus
  <2>3. jobs' = [jobs EXCEPT ![request[q].job] = row]
    BY <1>5
  <2> HIDE DEF row
  <2> QED
    BY <1>2, <2>2, <2>3
<1>7. Sound(q)'
  BY <1>2, <1>4 DEF Sound, Holders, InTask
<1>8. \A j \in Jobs : \/ jobs'[j] = jobs[j]
                      \/ /\ request'[q].job = j /\ jobs'[j].status = "COMPLETE"
                         /\ jobs'[j].url # NoTime /\ s3'[j][1] = "stored"
  BY <1>1, <1>2, <1>4, <1>5 DEF JobRec
<1>9. Links'
  BY <1>1, <1>3, <1>4, <1>7, <1>8, RequestStepKeepsLinks
<1>10. TypeOK'
  BY <1>1, <1>3, <1>4, <1>6 DEF TypeOK
<1> QED
  BY <1>9, <1>10

LEMMA FailureKeeps ==
    ASSUME TypeOK, Links, NEW q \in Requests, TaskError(q) \/ MarkError(q) \/ MarkFailed(q)
    PROVE  TypeOK' /\ Links'
<1>0. /\ request \in [Requests -> RequestRec] /\ request[q] \in RequestRec
      /\ request[q].pc \in Holders => request[q].job \in Jobs
      /\ NoTime \notin Time /\ now \in Time /\ now # NoTime
      /\ Jobs = Requests /\ jobs \in [Jobs -> JobRec] /\ s3 \in Stores
  BY RequestFacts
<1> USE <1>0
<1>1. /\ UNCHANGED <<s3, facts, removed, now, shared, scenario>>
      /\ request[q].pc \in {"reading", "uploading", "publishing", "failing"}
  BY DEF TaskError, MarkError, MarkFailed
<1>2. request[q].job \in Jobs
  BY <1>1 DEF Holders, InTask
<1>3. /\ request' = [request EXCEPT ![q] = request'[q]]
      /\ request'[q] \in RequestRec /\ request'[q].job = request[q].job
      /\ request'[q].pc \in {"failing", "stuck", "failed"}
      /\ \/ UNCHANGED jobs
         \/ /\ jobs' = [jobs EXCEPT ![request[q].job].status = "FAILED"]
            /\ request'[q].pc = "failed"
  <2>1. CASE TaskError(q)
    <3>1. request' = [request EXCEPT ![q].pc = "failing"] /\ UNCHANGED jobs
      BY <2>1 DEF TaskError, Goes
    <3>2. request'[q] = [request[q] EXCEPT !.pc = "failing"]
      BY <3>1
    <3>3. request'[q] \in RequestRec
      BY <3>2 DEF RequestRec, RequestPC
    <3> QED
      BY <3>1, <3>2, <3>3 DEF RequestRec
  <2>2. CASE MarkError(q)
    <3>1. request' = [request EXCEPT ![q] = Ended(q, "stuck")] /\ UNCHANGED jobs
      BY <2>2 DEF MarkError
    <3> QED
      BY <3>1, EndedIsTyped DEF RequestPC
  <2>3. CASE MarkFailed(q)
    <3>1. /\ request' = [request EXCEPT ![q] = Ended(q, "failed")]
          /\ jobs' = [jobs EXCEPT ![request[q].job].status = "FAILED"]
      BY <2>3 DEF MarkFailed
    <3> QED
      BY <3>1, EndedIsTyped DEF RequestPC
  <2> QED
    BY <2>1, <2>2, <2>3
<1>4. jobs' \in [Jobs -> JobRec]
  BY SMTT(20), <1>2, <1>3 DEF JobRec, JobStatus
<1>5. Sound(q)'
  BY <1>2, <1>3 DEF Sound, Holders, InTask
<1>6. \A j \in Jobs : \/ jobs'[j] = jobs[j]
                      \/ /\ request'[q].job = j /\ request'[q].pc = "failed"
                         /\ jobs'[j].status = "FAILED" /\ jobs'[j].url = jobs[j].url
  BY <1>2, <1>3 DEF JobRec
<1>7. Links'
  BY <1>1, <1>3, <1>5, <1>6, RequestStepKeepsLinks
<1>8. TypeOK'
  BY <1>1, <1>3, <1>4 DEF TypeOK
<1> QED
  BY <1>7, <1>8

(* A statement before the try of run_job, or of create_job.                *)
LEMMA EarlyErrorIs ==
    ASSUME TypeOK, Links, NEW q \in Requests, CreateError(q) \/ StartError(q)
    PROVE  /\ UNCHANGED <<s3, facts, removed, now, shared, scenario>>
           /\ request[q].pc \in {"looking", "inserting", "queued"}
           /\ \E to \in {"lost", "stuck"} : request' = [request EXCEPT ![q] = Ended(q, to)]
           /\ \/ UNCHANGED jobs
              \/ /\ request[q].job \in Jobs /\ request[q].pc = "queued"
                 /\ jobs' = [jobs EXCEPT ![request[q].job].status = "PROCESSING"]
<1>1. CASE CreateError(q)
  BY <1>1 DEF CreateError, InRequest
<1>2. CASE StartError(q)
  BY <1>2, RequestFacts DEF StartError, Holders, InTask
<1> QED
  BY <1>1, <1>2

LEMMA EarlyErrorKeeps ==
    ASSUME TypeOK, Links, NEW q \in Requests, CreateError(q) \/ StartError(q)
    PROVE  TypeOK' /\ Links'
<1>0. /\ request \in [Requests -> RequestRec] /\ request[q] \in RequestRec
      /\ Jobs = Requests /\ jobs \in [Jobs -> JobRec]
  BY RequestFacts
<1> USE <1>0
<1>1. /\ UNCHANGED <<s3, facts, removed, now, shared, scenario>>
      /\ request[q].pc \in {"looking", "inserting", "queued"}
      /\ \/ UNCHANGED jobs
         \/ /\ request[q].job \in Jobs
            /\ jobs' = [jobs EXCEPT ![request[q].job].status = "PROCESSING"]
  BY EarlyErrorIs
<1>2. PICK to \in {"lost", "stuck"} : request' = [request EXCEPT ![q] = Ended(q, to)]
  BY EarlyErrorIs
<1>3. request'[q] \in RequestRec /\ request'[q].pc = to
  BY <1>2, EndedIsTyped DEF RequestPC
<1>4. jobs' \in [Jobs -> JobRec]
  BY <1>1 DEF JobRec, JobStatus
<1>5. Sound(q)'
  BY <1>2, <1>3 DEF Sound, Holders, InTask
<1>6. \A j \in Jobs :
         jobs'[j] = jobs[j] \/ (jobs'[j].status = "PROCESSING" /\ jobs'[j].url = jobs[j].url)
  BY <1>1 DEF JobRec
<1>7. Links'
  BY <1>1, <1>2, <1>5, <1>6, RequestStepKeepsLinks
<1>8. TypeOK'
  BY <1>1, <1>2, <1>3, <1>4 DEF TypeOK
<1> QED
  BY <1>7, <1>8

(* A stop of the server ends tasks and requests, and leaves those that     *)
(* were complete or had failed.                                            *)
LEMMA CrashKeeps ==
    ASSUME TypeOK, Links, Crash
    PROVE  TypeOK' /\ Links'
<1>1. UNCHANGED <<jobs, s3, facts, removed, now, shared, scenario>>
  BY DEF Crash
<1>2. request' = [q \in Requests |->
                     IF request[q].pc \in InRequest \cup InTask
                     THEN Ended(q, "lost") ELSE request[q]]
  BY DEF Crash
<1>3. \A q \in Requests :
         \/ request'[q] = request[q]
         \/ /\ request'[q] \in RequestRec /\ request'[q].pc = "lost"
            /\ request[q].pc \in InRequest \cup InTask
  <2> SUFFICES ASSUME NEW q \in Requests, request'[q] # request[q]
               PROVE  /\ request'[q] \in RequestRec /\ request'[q].pc = "lost"
                      /\ request[q].pc \in InRequest \cup InTask
    OBVIOUS
  <2>1. request[q].pc \in InRequest \cup InTask /\ request'[q] = Ended(q, "lost")
    BY <1>2
  <2> QED
    BY <2>1, EndedIsTyped DEF TypeOK, RequestPC
<1>4. \A q \in Requests : Sound(q)'
  BY <1>1, <1>3 DEF Links, Sound, Holders, InTask
<1>5. \A q \in Requests : request[q].pc \in {"complete", "failed"} => request'[q] = request[q]
  BY <1>3 DEF InRequest, InTask
<1>6. CompleteHasFile' /\ LinkedByRequest' /\ FailedByRequest'
  BY <1>1, <1>5 DEF Links, CompleteHasFile, Polled, LinkedByRequest, FailedByRequest, NoTime
<1>7. TypeOK'
  BY <1>1, <1>2, <1>3 DEF TypeOK
<1> QED
  BY <1>4, <1>6, <1>7 DEF Links

LEMMA WorldKeeps ==
    ASSUME TypeOK, Links, NEW r \in Runs, Ingested(r) \/ RolledBack(r)
    PROVE  TypeOK' /\ Links'
<1>1. UNCHANGED <<jobs, s3, request, shared, scenario>>
  BY DEF Ingested, RolledBack
<1>2. facts' \in SUBSET Runs /\ removed' \in SUBSET Runs /\ now' \in Time
  BY DEF TypeOK, Ingested, RolledBack
<1>3. TypeOK'
  BY <1>1, <1>2 DEF TypeOK
<1>4. Links'
  BY <1>1 DEF Links, Sound, CompleteHasFile, Polled, LinkedByRequest, FailedByRequest, NoTime
<1> QED
  BY <1>3, <1>4

LEMMA ReportInductive == TypeOK /\ Links /\ [Next]_vars => TypeOK' /\ Links'
<1> SUFFICES ASSUME TypeOK, Links, [Next]_vars
             PROVE  TypeOK' /\ Links'
  OBVIOUS
<1>1. ASSUME NEW q \in Requests, Ask(q) \/ Step(q)
      PROVE  TypeOK' /\ Links'
  BY <1>1, AskKeeps, FindKeeps, InsertKeeps, StartKeeps, ReadSectionKeeps, UploadKeeps,
     PublishKeeps, FailureKeeps, EarlyErrorKeeps DEF Step
<1>2. ASSUME NEW r \in Runs, Ingested(r) \/ RolledBack(r)
      PROVE  TypeOK' /\ Links'
  BY <1>2, WorldKeeps
<1>3. CASE Crash
  BY <1>3, CrashKeeps
<1>4. CASE Tick \/ UNCHANGED vars
  <2>1. UNCHANGED <<jobs, s3, request, facts, removed, shared, scenario>>
    BY <1>4 DEF Tick, vars
  <2>2. now' \in Time
    BY <1>4, ReportAssumption DEF ReportAssumption, TypeOK, Tick, vars, Time
  <2> QED
    BY <2>1, <2>2 DEF TypeOK, Links, Sound, CompleteHasFile, Polled, LinkedByRequest, FailedByRequest, NoTime
<1> QED
  BY <1>1, <1>2, <1>3, <1>4 DEF Next

-----------------------------------------------------------------------------
LEMMA ReportInvariant == Spec => [](TypeOK /\ Links)
<1>1. Init => TypeOK /\ Links
  BY InitTyped
<1>2. TypeOK /\ Links /\ [Next]_vars => TypeOK' /\ Links'
  BY ReportInductive
<1> QED
  BY <1>1, <1>2, PTL DEF Spec

(* Every variable keeps its type. *)
THEOREM ReportTypeCorrect == Spec => []TypeOK
<1>1. TypeOK /\ Links => TypeOK
  OBVIOUS
<1> QED
  BY <1>1, ReportInvariant, PTL

(* A job that is COMPLETE has a link and its object is stored, also while  *)
(* it is generated anew, whatever fails and however often the server       *)
(* stops.                                                                  *)
THEOREM CompleteJobsHaveFiles == Spec => []CompleteHasFile
<1>1. TypeOK /\ Links => CompleteHasFile
  BY DEF Links
<1> QED
  BY <1>1, ReportInvariant, PTL

(* A job that is FAILED and has a link was worked on by two requests: the  *)
(* one that wrote the link and the one that failed.                        *)
THEOREM FirstFailuresHaveNoLink == Spec => []FailedHasNoLink
<1>1. TypeOK /\ Links => FailedHasNoLink
  <2> SUFFICES ASSUME Links, NEW j \in Jobs, jobs[j].status = "FAILED",
                      \A p, q \in Requests : request[p].job = j /\ request[q].job = j => p = q
               PROVE  jobs[j].url = NoTime
    BY DEF FailedHasNoLink, Polled
  <2>1. PICK p \in Requests : request[p].job = j /\ request[p].pc = "failed"
    BY DEF Links, FailedByRequest
  <2> QED
    BY <2>1 DEF Links, LinkedByRequest
<1> QED
  BY <1>1, ReportInvariant, PTL

-----------------------------------------------------------------------------
(* What a step of one request does to its record, field by field.          *)

LEMMA OthersStay ==
    ASSUME TypeOK, NEW q \in Requests, Ask(q) \/ Step(q)
    PROVE  /\ \A p \in Requests \ {q} : request'[p] = request[p]
           /\ UNCHANGED <<facts, removed, now, scenario>>
<1>1. CASE Ask(q)
  BY <1>1 DEF Ask, TypeOK
<1>2. CASE Find(q)
  BY <1>2 DEF Find, Goes, TypeOK
<1>3. CASE Insert(q)
  BY <1>3 DEF Insert, TypeOK
<1>4. CASE Start(q)
  BY <1>4 DEF Start, Goes, TypeOK
<1>5. CASE ReadSection(q)
  BY <1>5 DEF ReadSection, TypeOK
<1>6. CASE Upload(q)
  BY <1>6 DEF Upload, TypeOK
<1>7. CASE Publish(q)
  BY <1>7 DEF Publish, TypeOK
<1>8. CASE TaskError(q) \/ MarkFailed(q) \/ MarkError(q)
  BY <1>8 DEF TaskError, MarkFailed, MarkError, Goes, TypeOK
<1>9. CASE CreateError(q) \/ StartError(q)
  BY <1>9 DEF CreateError, StartError, TypeOK
<1> QED
  BY <1>1, <1>2, <1>3, <1>4, <1>5, <1>6, <1>7, <1>8, <1>9 DEF Step

LEMMA AskDoes ==
    ASSUME TypeOK, NEW q \in Requests, Ask(q)
    PROVE  /\ UNCHANGED <<jobs, s3, shared>>
           /\ request[q].pc = "new" /\ request'[q].pc \in {"looking", "refused"}
           /\ request'[q].shows = request[q].shows /\ request'[q].gone = removed
           /\ MayAsk
<1>1. PICK a \in scenario.asked :
          request' = [request EXCEPT ![q] = [@ EXCEPT
                         !.pc = IF Acceptable(a) THEN "looking" ELSE "refused",
                         !.asked = a, !.gone = removed]]
  BY DEF Ask
<1>2. request'[q] = [request[q] EXCEPT !.pc = IF Acceptable(a) THEN "looking" ELSE "refused",
                                       !.asked = a, !.gone = removed]
  BY <1>1 DEF TypeOK
<1>3. request[q] \in RequestRec
  BY DEF TypeOK
<1>4. /\ request'[q].pc \in {"looking", "refused"}
      /\ request'[q].shows = request[q].shows /\ request'[q].gone = removed
  BY <1>2, <1>3 DEF RequestRec
<1> QED
  BY <1>4 DEF Ask

LEMMA FindDoes ==
    ASSUME TypeOK, NEW q \in Requests, Find(q)
    PROVE  /\ UNCHANGED <<jobs, s3, shared>>
           /\ request[q].pc = "looking"
           /\ request'[q].asked = request[q].asked
           /\ request'[q].shows = request[q].shows /\ request'[q].gone = request[q].gone
           /\ \/ request'[q].pc = "inserting" /\ Reusable(request[q].asked) = {}
              \/ /\ request'[q].pc = "queued"
                 /\ request'[q].job \in Jobs /\ jobs[request'[q].job].status = "COMPLETE"
<1>1. request[q] \in RequestRec
  BY DEF TypeOK
<1>2. CASE Reusable(request[q].asked) = {}
  <2>1. request'[q] = [request[q] EXCEPT !.pc = "inserting"]
    BY <1>2 DEF Find, Goes, TypeOK
  <2> QED
    BY <1>1, <1>2, <2>1 DEF Find, RequestRec
<1>3. CASE Reusable(request[q].asked) # {}
  <2>1. PICK j \in NewestOf(Reusable(request[q].asked)) :
            request' = [request EXCEPT ![q] = [@ EXCEPT !.pc = "queued", !.job = j]]
    BY <1>3 DEF Find
  <2>2. request'[q] = [request[q] EXCEPT !.pc = "queued", !.job = j]
    BY <2>1 DEF TypeOK
  <2>3. j \in Jobs /\ jobs[j].status = "COMPLETE"
    BY <2>1 DEF NewestOf, Reusable
  <2> QED
    BY <1>1, <2>2, <2>3 DEF Find, RequestRec
<1> QED
  BY <1>2, <1>3

LEMMA InsertDoes ==
    ASSUME TypeOK, NEW q \in Requests, Insert(q)
    PROVE  /\ UNCHANGED <<s3, shared>>
           /\ request[q].pc = "inserting" /\ request'[q].pc = "queued" /\ request'[q].job = q
           /\ request'[q].shows = request[q].shows /\ request'[q].gone = request[q].gone
           /\ jobs'[q].status = "QUEUED" /\ jobs'[q].asked = request[q].asked
           /\ jobs'[q].requested = now
           /\ \A j \in Jobs \ {q} : jobs'[j] = jobs[j]
<1>1. request[q] \in RequestRec /\ q \in Jobs
  BY DEF TypeOK, Jobs
<1>2. request'[q] = [request[q] EXCEPT !.pc = "queued", !.job = q]
  BY DEF Insert, TypeOK
<1>3. jobs' = [jobs EXCEPT ![q] = [status |-> "QUEUED", asked |-> request[q].asked,
                                   requested |-> now, url |-> NoTime]]
  BY DEF Insert
<1>4. jobs'[q] = [status |-> "QUEUED", asked |-> request[q].asked, requested |-> now,
                  url |-> NoTime]
  BY <1>1, <1>3 DEF TypeOK
<1>5. \A j \in Jobs \ {q} : jobs'[j] = jobs[j]
  BY <1>3 DEF TypeOK
<1>6. /\ request'[q].pc = "queued" /\ request'[q].job = q
      /\ request'[q].shows = request[q].shows /\ request'[q].gone = request[q].gone
  BY <1>1, <1>2 DEF RequestRec
<1> QED
  BY <1>4, <1>5, <1>6 DEF Insert

(* The status of a job, and nothing that tells it from others. *)
Marks(j, status) ==
    /\ jobs'[j].status = status
    /\ jobs'[j].asked = jobs[j].asked /\ jobs'[j].requested = jobs[j].requested
    /\ \A k \in Jobs \ {j} : jobs'[k] = jobs[k]

LEMMA StartDoes ==
    ASSUME TypeOK, Links, NEW q \in Requests, Start(q)
    PROVE  /\ UNCHANGED s3
           /\ request[q].pc = "queued" /\ request'[q].pc = "reading"
           /\ request[q].job \in Jobs /\ request'[q].job = request[q].job
           /\ request'[q].shows = request[q].shows /\ request'[q].gone = request[q].gone
           /\ Marks(request[q].job, "PROCESSING")
           /\ shared \subseteq shared'
           /\ \A p \in Requests \ {q} :
                 request[p].job = request[q].job /\ request[p].pc \in Running
                    => request[q].job \in shared'
<1>1. request[q] \in RequestRec /\ request[q].pc = "queued" /\ UNCHANGED s3
  BY DEF TypeOK, Start
<1>2. request[q].job \in Jobs
  BY <1>1 DEF Links, Sound, Holders, InTask
<1>3. request'[q] = [request[q] EXCEPT !.pc = "reading"]
  BY DEF Start, Goes, TypeOK
<1>4. /\ request'[q].pc = "reading" /\ request'[q].job = request[q].job
      /\ request'[q].shows = request[q].shows /\ request'[q].gone = request[q].gone
  BY <1>1, <1>3 DEF RequestRec
<1>5. jobs' = [jobs EXCEPT ![request[q].job].status = "PROCESSING"]
  BY DEF Start
<1>6. Marks(request[q].job, "PROCESSING")
  BY <1>2, <1>5 DEF Marks, TypeOK, JobRec
<1>7. /\ shared \subseteq shared'
      /\ \A p \in Requests \ {q} :
            request[p].job = request[q].job /\ request[p].pc \in Running
               => request[q].job \in shared'
  BY DEF Start
<1> QED
  BY <1>1, <1>2, <1>4, <1>6, <1>7

(* A section of facts shows runs whose rows are there. *)
LEMMA FactsFound ==
    ASSUME TypeOK, NEW a \in Report, NEW section \in FactSections, NEW found \in Finds(a, section)
    PROVE  found \subseteq facts \/ a.type \in {"ingestion_audit_trail", "exception_report"}
<1>1. \A S \in SUBSET facts : \A x \in Latest(S) : x \subseteq facts
  BY DEF Latest
<1>2. FactsOf(a) \in SUBSET facts
  BY DEF FactsOf
<1>3. \A x \in BookFinds \cup ExportFinds(a) : x \subseteq facts
  BY <1>1, <1>2 DEF BookFinds, ExportFinds
<1>4. section # "narrative"
  BY DEF FactSections
<1>5. \A x \in AuditFinds(a, section) : x \subseteq facts
  BY <1>1, <1>2, <1>4 DEF AuditFinds
<1> QED
  BY <1>3, <1>5 DEF Finds, Report, ReportTypes

LEMMA KeptSections ==
    ASSUME NEW t \in {"ingestion_audit_trail", "exception_report"},
           NEW n \in 1 .. Len(SectionsOf[t])
    PROVE  SectionsOf[t][n] \notin FactSections
<1>1. CASE t = "ingestion_audit_trail"
  <2>1. SectionsOf[t] = <<"runs">>
    BY <1>1 DEF SectionsOf
  <2> QED
    BY <2>1 DEF FactSections
<1>2. CASE t = "exception_report"
  <2>1. SectionsOf[t] = <<"errors", "skipped">>
    BY <1>2 DEF SectionsOf
  <2> QED
    BY <2>1 DEF FactSections
<1> QED
  BY <1>1, <1>2

LEMMA ReadSectionDoes ==
    ASSUME TypeOK, Links, NEW q \in Requests, ReadSection(q)
    PROVE  /\ UNCHANGED <<jobs, s3, shared>>
           /\ request[q].pc = "reading" /\ request'[q].pc \in {"reading", "uploading"}
           /\ request'[q].job = request[q].job /\ request'[q].gone = request[q].gone
           /\ request'[q].shows \cap (FactSections \X Runs)
                 \subseteq request[q].shows \cup (FactSections \X facts)
<1> DEFINE t == request[q].asked.type
           n == request[q].next
           Read(found) == [request[q] EXCEPT
                              !.shows = request[q].shows \cup ({SectionsOf[t][n]} \X found),
                              !.next = n + 1,
                              !.pc = IF n = Len(SectionsOf[t]) THEN "uploading" ELSE "reading"]
<1>1. /\ UNCHANGED <<jobs, s3, shared>> /\ request[q].pc = "reading"
      /\ request[q] \in RequestRec /\ request \in [Requests -> RequestRec]
  BY DEF ReadSection, TypeOK
<1>2. request[q].asked \in Report /\ t \in ReportTypes
  BY <1>1 DEF RequestRec, Report
<1>3. n \in 1 .. Len(SectionsOf[t])
  BY <1>1, <1>2, SectionsFacts DEF Links, Sound, RequestRec
<1>4. PICK found \in Finds(request[q].asked, SectionsOf[t][n]) :
          request' = [request EXCEPT ![q] = Read(found)]
  BY DEF ReadSection
<1>5. request'[q] = Read(found)
  <2> HIDE DEF Read
  <2> QED
    BY <1>1, <1>4
<1>6. /\ request'[q].pc \in {"reading", "uploading"}
      /\ request'[q].job = request[q].job /\ request'[q].gone = request[q].gone
      /\ request'[q].shows = request[q].shows \cup ({SectionsOf[t][n]} \X found)
  <2> HIDE DEF t, n
  <2> QED
    BY <1>1, <1>5 DEF RequestRec
<1>7. SectionsOf[t][n] \in FactSections => found \subseteq facts
  <2> SUFFICES ASSUME SectionsOf[t][n] \in FactSections PROVE found \subseteq facts
    OBVIOUS
  <2>1. t \notin {"ingestion_audit_trail", "exception_report"}
    BY <1>3, KeptSections
  <2> HIDE DEF n
  <2> QED
    BY <1>2, <1>4, <2>1, FactsFound
<1> HIDE DEF t, n, Read
<1> QED
  BY <1>1, <1>6, <1>7

LEMMA UploadDoes ==
    ASSUME TypeOK, Links, NEW q \in Requests, Upload(q)
    PROVE  /\ UNCHANGED <<jobs, shared>>
           /\ request[q].pc = "uploading" /\ request'[q].pc = "publishing"
           /\ request'[q].job = request[q].job /\ request'[q].gone = request[q].gone
           /\ request'[q].shows = request[q].shows
           /\ s3'[request[q].job][2] = request[q].shows
           /\ \A j \in Jobs \ {request[q].job} : s3'[j] = s3[j]
<1>1. /\ UNCHANGED <<jobs, shared>> /\ request[q].pc = "uploading"
      /\ request[q] \in RequestRec /\ request \in [Requests -> RequestRec]
  BY DEF Upload, TypeOK
<1>2. request[q].job \in Jobs
  BY <1>1 DEF Links, Sound, Holders, InTask
<1>3. request'[q] = [request[q] EXCEPT !.pc = "publishing", !.signed = now]
  BY DEF Upload, TypeOK
<1>4. /\ request'[q].pc = "publishing" /\ request'[q].shows = request[q].shows
      /\ request'[q].job = request[q].job /\ request'[q].gone = request[q].gone
  BY <1>1, <1>3 DEF RequestRec
<1>5. s3' = [s3 EXCEPT ![request[q].job] = <<"stored", request[q].shows>>]
  BY DEF Upload
<1>6. /\ s3'[request[q].job][2] = request[q].shows
      /\ \A j \in Jobs \ {request[q].job} : s3'[j] = s3[j]
  BY <1>2, <1>5 DEF TypeOK
<1> QED
  BY <1>1, <1>4, <1>6

LEMMA EndedDoes ==
    ASSUME NEW q \in Requests, NEW as, request[q] \in RequestRec, request'[q] = Ended(q, as)
    PROVE  /\ request'[q].pc = as /\ request'[q].job = request[q].job
           /\ request'[q].gone = request[q].gone /\ request'[q].shows = {}
BY DEF Ended, RequestRec

LEMMA PublishDoes ==
    ASSUME TypeOK, Links, NEW q \in Requests, Publish(q)
    PROVE  /\ UNCHANGED <<s3, shared>>
           /\ request[q].pc = "publishing" /\ request'[q].pc = "complete"
           /\ request[q].job \in Jobs /\ request'[q].job = request[q].job
           /\ request'[q].gone = request[q].gone /\ request'[q].shows = {}
           /\ Marks(request[q].job, "COMPLETE")
<1>1. /\ UNCHANGED <<s3, shared>> /\ request[q].pc = "publishing"
      /\ request[q] \in RequestRec /\ request'[q] = Ended(q, "complete")
  BY DEF Publish, TypeOK
<1>2. request[q].job \in Jobs
  BY <1>1 DEF Links, Sound, Holders, InTask
<1>3. jobs' = [jobs EXCEPT ![request[q].job] = [@ EXCEPT !.status = "COMPLETE",
                                                        !.url = request[q].signed]]
  BY DEF Publish
<1>4. Marks(request[q].job, "COMPLETE")
  BY <1>2, <1>3 DEF Marks, TypeOK, JobRec
<1> QED
  BY <1>1, <1>2, <1>4, EndedDoes

LEMMA FailureDoes ==
    ASSUME TypeOK, Links, NEW q \in Requests, TaskError(q) \/ MarkFailed(q) \/ MarkError(q)
    PROVE  /\ UNCHANGED <<s3, shared>>
           /\ request[q].pc \in Running /\ request'[q].pc \in {"failing", "failed", "stuck"}
           /\ request[q].job \in Jobs /\ request'[q].job = request[q].job
           /\ request'[q].gone = request[q].gone
           /\ \/ request'[q].shows = {}
              \/ request'[q].pc = "failing" /\ request'[q].shows = request[q].shows
           /\ UNCHANGED jobs \/ Marks(request[q].job, "FAILED")
<1>1. /\ UNCHANGED <<s3, shared>> /\ request[q].pc \in Running /\ request[q] \in RequestRec
  BY DEF TaskError, MarkFailed, MarkError, TypeOK, Running, InTask
<1>2. request[q].job \in Jobs
  BY <1>1 DEF Links, Sound, Holders, Running
<1>3. CASE TaskError(q)
  <2>1. request'[q] = [request[q] EXCEPT !.pc = "failing"] /\ UNCHANGED jobs
    BY <1>3 DEF TaskError, Goes, TypeOK
  <2>2. /\ request'[q].pc = "failing" /\ request'[q].shows = request[q].shows
        /\ request'[q].job = request[q].job /\ request'[q].gone = request[q].gone
    BY <1>1, <2>1 DEF RequestRec
  <2> QED
    BY <1>1, <1>2, <2>1, <2>2
<1>4. CASE MarkFailed(q)
  <2>1. request'[q] = Ended(q, "failed")
    BY <1>4 DEF MarkFailed, TypeOK
  <2>2. jobs' = [jobs EXCEPT ![request[q].job].status = "FAILED"]
    BY <1>4 DEF MarkFailed
  <2>3. Marks(request[q].job, "FAILED")
    BY <1>2, <2>2 DEF Marks, TypeOK, JobRec
  <2> QED
    BY <1>1, <1>2, <2>1, <2>3, EndedDoes
<1>5. CASE MarkError(q)
  <2>1. request'[q] = Ended(q, "stuck") /\ UNCHANGED jobs
    BY <1>5 DEF MarkError, TypeOK
  <2> QED
    BY <1>1, <1>2, <2>1, EndedDoes
<1> QED
  BY <1>3, <1>4, <1>5

LEMMA EarlyErrorDoes ==
    ASSUME TypeOK, Links, NEW q \in Requests, CreateError(q) \/ StartError(q)
    PROVE  /\ UNCHANGED <<s3, shared>>
           /\ request[q].pc \in {"looking", "inserting", "queued"}
           /\ request'[q].pc \in {"lost", "stuck"}
           /\ request'[q].job = request[q].job
           /\ request'[q].gone = request[q].gone /\ request'[q].shows = {}
           /\ \/ UNCHANGED jobs
              \/ request[q].job \in Jobs /\ Marks(request[q].job, "PROCESSING")
<1>1. request[q] \in RequestRec /\ request \in [Requests -> RequestRec]
  BY DEF TypeOK
<1>2. PICK to \in {"lost", "stuck"} : request' = [request EXCEPT ![q] = Ended(q, to)]
  BY EarlyErrorIs
<1>3. request'[q] = Ended(q, to)
  BY <1>1, <1>2
<1>4. \/ UNCHANGED jobs
      \/ request[q].job \in Jobs /\ Marks(request[q].job, "PROCESSING")
  <2>1. \/ UNCHANGED jobs
        \/ /\ request[q].job \in Jobs
           /\ jobs' = [jobs EXCEPT ![request[q].job].status = "PROCESSING"]
    BY EarlyErrorIs
  <2> QED
    BY <2>1 DEF Marks, TypeOK, JobRec
<1>5. /\ request'[q].pc = to /\ request'[q].job = request[q].job
      /\ request'[q].gone = request[q].gone /\ request'[q].shows = {}
  BY <1>1, <1>3, EndedDoes
<1>6. UNCHANGED <<s3, shared>> /\ request[q].pc \in {"looking", "inserting", "queued"}
  BY EarlyErrorIs
<1> QED
  BY <1>2, <1>4, <1>5, <1>6

LEMMA CrashDoes ==
    ASSUME TypeOK, Crash
    PROVE  /\ UNCHANGED <<jobs, s3, shared, facts, removed, now, scenario>>
           /\ \A q \in Requests :
                 \/ request'[q] = request[q] /\ request[q].pc \notin InRequest \cup InTask
                 \/ /\ request'[q].pc = "lost" /\ request'[q].job = request[q].job
                    /\ request'[q].gone = request[q].gone /\ request'[q].shows = {}
<1>1. UNCHANGED <<jobs, s3, shared, facts, removed, now, scenario>>
  BY DEF Crash
<1>2. request' = [q \in Requests |->
                     IF request[q].pc \in InRequest \cup InTask
                     THEN Ended(q, "lost") ELSE request[q]]
  BY DEF Crash
<1>3. ASSUME NEW q \in Requests
      PROVE  \/ request'[q] = request[q] /\ request[q].pc \notin InRequest \cup InTask
             \/ /\ request'[q].pc = "lost" /\ request'[q].job = request[q].job
                /\ request'[q].gone = request[q].gone /\ request'[q].shows = {}
  <2>1. request[q] \in RequestRec
    BY DEF TypeOK
  <2>2. CASE request[q].pc \in InRequest \cup InTask
    <3>1. request'[q] = Ended(q, "lost")
      BY <1>2, <2>2
    <3> QED
      BY <2>1, <3>1, EndedDoes
  <2>3. CASE request[q].pc \notin InRequest \cup InTask
    BY <1>2, <2>3
  <2> QED
    BY <2>2, <2>3
<1> QED
  BY <1>1, <1>3

-----------------------------------------------------------------------------
(* Requests that do not overlap: one job in a window.                      *)

Busy(q) == request[q].pc \in InRequest \cup InTask

Alone == \A p, q \in Requests : Busy(p) /\ Busy(q) => p = q

(* A job that is COMPLETE, or that a task will complete. *)
Held(j) ==
    \/ jobs[j].status = "COMPLETE"
    \/ \E q \in Requests : request[q].job = j /\ request[q].pc \in InTask

Far(t, u) == t + Window < u \/ u + Window < t

Apart ==
    \A j, k \in Jobs :
        j # k /\ Held(j) /\ Held(k) /\ jobs[j].asked = jobs[k].asked
            => Far(jobs[j].requested, jobs[k].requested)

(* Nothing came up since create_job looked. *)
NoneFound == \A q \in Requests : request[q].pc = "inserting" => Reusable(request[q].asked) = {}

WindowIInv == "overlap" \notin scenario.events => Alone /\ Apart /\ NoneFound

LEMMA BusySteps ==
    ASSUME TypeOK, Links, Alone, "overlap" \notin scenario.events,
           NEW q \in Requests, Ask(q) \/ Step(q)
    PROVE  /\ \A p \in Requests \ {q} : ~ Busy(p)
           /\ Busy(q) \/ Ask(q)
<1>1. CASE Ask(q)
  BY <1>1, AskDoes DEF MayAsk, Busy
<1>2. CASE Step(q)
  <2>1. Busy(q)
    BY <1>2 DEF Step, Find, Insert, Start, ReadSection, Upload, Publish, TaskError, MarkFailed,
                MarkError, CreateError, StartError, Busy, InRequest, InTask
  <2> QED
    BY <2>1 DEF Alone
<1> QED
  BY <1>1, <1>2

(* Jobs that a step takes over were held before. *)
LEMMA ApartKept ==
    ASSUME Apart,
           \A j \in Jobs : jobs'[j].asked = jobs[j].asked /\ jobs'[j].requested = jobs[j].requested,
           \A j \in Jobs : Held(j)' => Held(j)
    PROVE  Apart'
BY DEF Apart, Far

LEMMA HeldAfter ==
    ASSUME TypeOK, NEW q \in Requests, \A p \in Requests \ {q} : request'[p] = request[p],
           NEW j \in Jobs, Held(j)',
           jobs'[j].status = "COMPLETE" =>
              jobs[j].status = "COMPLETE" \/ (request[q].job = j /\ request[q].pc \in InTask),
           request'[q].job = j /\ request'[q].pc \in InTask =>
              jobs[j].status = "COMPLETE" \/ (request[q].job = j /\ request[q].pc \in InTask)
    PROVE  Held(j)
<1>1. CASE jobs'[j].status = "COMPLETE"
  BY <1>1 DEF Held
<1>2. CASE \E p \in Requests : request'[p].job = j /\ request'[p].pc \in InTask
  BY <1>2 DEF Held
<1> QED
  BY <1>1, <1>2 DEF Held

LEMMA RequestKeepsWindow ==
    ASSUME TypeOK, Links, WindowIInv, NEW q \in Requests, Ask(q) \/ Step(q)
    PROVE  WindowIInv'
<1>0. UNCHANGED <<now, scenario>> /\ \A p \in Requests \ {q} : request'[p] = request[p]
  BY OthersStay
<1> SUFFICES ASSUME "overlap" \notin scenario.events
             PROVE  Alone' /\ Apart' /\ NoneFound'
  BY <1>0 DEF WindowIInv
<1>1. Alone /\ Apart /\ NoneFound
  BY DEF WindowIInv
<1>2. (\A p \in Requests \ {q} : ~ Busy(p)) /\ (Busy(q) \/ Ask(q))
  BY <1>1, BusySteps
<1>3. \A p \in Requests \ {q} : ~ Busy(p)'
  BY <1>0, <1>2 DEF Busy
<1>4. Alone'
  BY <1>3 DEF Alone
<1>5. NoneFound'
  <2> SUFFICES ASSUME request'[q].pc = "inserting"
               PROVE  (Reusable(request[q].asked) = {})'
    BY <1>3 DEF NoneFound, Busy, InRequest
  <2>1. Find(q)
    BY AskDoes, InsertDoes, StartDoes, ReadSectionDoes, UploadDoes, PublishDoes, FailureDoes,
       EarlyErrorDoes DEF Step
  <2>2. UNCHANGED <<jobs, now>> /\ request'[q].asked = request[q].asked
        /\ Reusable(request[q].asked) = {}
    BY <1>0, <2>1, FindDoes
  <2> QED
    BY <2>2 DEF Reusable
<1>6. CASE Ask(q)
  <2>1. UNCHANGED jobs /\ request'[q].pc \notin InTask
    BY <1>6, AskDoes DEF InTask
  <2> QED
    BY <1>0, <1>1, <1>4, <1>5, <2>1, HeldAfter, ApartKept
<1>7. CASE Find(q)
  <2>1. UNCHANGED jobs
        /\ (request'[q].pc \in InTask => jobs[request'[q].job].status = "COMPLETE")
    BY <1>7, FindDoes DEF InTask
  <2> QED
    BY <1>0, <1>1, <1>4, <1>5, <2>1, HeldAfter, ApartKept
<1>8. CASE Insert(q)
  <2>1. /\ request[q].pc = "inserting" /\ request'[q].job = q
        /\ jobs'[q].status = "QUEUED" /\ jobs'[q].asked = request[q].asked
        /\ jobs'[q].requested = now
        /\ \A j \in Jobs \ {q} : jobs'[j] = jobs[j]
    BY <1>8, InsertDoes
  <2>2. \A j \in Jobs \ {q} : Held(j)' => jobs[j].status = "COMPLETE"
    BY <1>3, <2>1 DEF Held, Busy
  <2>3. ASSUME NEW j \in Jobs \ {q}, Held(j)', jobs'[j].asked = jobs'[q].asked
        PROVE  jobs'[j].requested + Window < jobs'[q].requested
    <3>1. ~ (jobs[j].requested + Window >= now)
      BY <1>1, <2>1, <2>2, <2>3 DEF NoneFound, Reusable
    <3>2. jobs[j].requested \in Nat /\ Window \in Nat /\ now \in Nat
      BY ReportAssumption DEF ReportAssumption, TypeOK, JobRec, Time, NoTime
    <3> QED
      BY <2>1, <2>3, <3>1, <3>2
  <2>4. Apart'
    <3> SUFFICES ASSUME NEW j \in Jobs, NEW k \in Jobs, j # k, Held(j)', Held(k)',
                        jobs'[j].asked = jobs'[k].asked
                 PROVE  Far(jobs[j].requested, jobs[k].requested)'
      BY DEF Apart
    <3>1. CASE j = q
      BY <2>3, <3>1 DEF Far
    <3>2. CASE k = q
      BY <2>3, <3>2 DEF Far
    <3>3. CASE j # q /\ k # q
      BY <1>1, <2>1, <2>2, <3>3 DEF Apart, Far, Held
    <3> QED
      BY <3>1, <3>2, <3>3
  <2> QED
    BY <1>4, <1>5, <2>4
<1>9. CASE Start(q)
  <2>1. /\ request[q].pc = "queued" /\ request'[q].job = request[q].job
        /\ Marks(request[q].job, "PROCESSING") /\ request[q].job \in Jobs
    BY <1>9, StartDoes
  <2> QED
    BY <1>0, <1>1, <1>4, <1>5, <2>1, HeldAfter, ApartKept DEF Marks, InTask
<1>10. CASE ReadSection(q)
  <2>1. UNCHANGED jobs /\ request'[q].job = request[q].job /\ request[q].pc \in InTask
    BY <1>10, ReadSectionDoes DEF InTask
  <2> QED
    BY <1>0, <1>1, <1>4, <1>5, <2>1, HeldAfter, ApartKept
<1>11. CASE Upload(q)
  <2>1. UNCHANGED jobs /\ request'[q].job = request[q].job /\ request[q].pc \in InTask
    BY <1>11, UploadDoes DEF InTask
  <2> QED
    BY <1>0, <1>1, <1>4, <1>5, <2>1, HeldAfter, ApartKept
<1>12. CASE Publish(q)
  <2>1. /\ request[q].pc = "publishing" /\ request'[q].pc = "complete"
        /\ Marks(request[q].job, "COMPLETE") /\ request[q].job \in Jobs
    BY <1>12, PublishDoes
  <2> QED
    BY <1>0, <1>1, <1>4, <1>5, <2>1, HeldAfter, ApartKept DEF Marks, InTask
<1>13. CASE TaskError(q) \/ MarkFailed(q) \/ MarkError(q)
  <2>1. /\ request[q].pc \in InTask /\ request'[q].job = request[q].job
        /\ UNCHANGED jobs \/ Marks(request[q].job, "FAILED")
        /\ request[q].job \in Jobs
    BY <1>13, FailureDoes DEF Running
  <2>2. \A j \in Jobs : /\ jobs'[j].asked = jobs[j].asked /\ jobs'[j].requested = jobs[j].requested
                        /\ jobs'[j].status = "COMPLETE" => jobs[j].status = "COMPLETE"
    BY <2>1 DEF Marks
  <2> QED
    BY <1>0, <1>1, <1>4, <1>5, <2>1, <2>2, HeldAfter, ApartKept
<1>14. CASE CreateError(q) \/ StartError(q)
  <2>1. /\ request'[q].pc \notin InTask
        /\ \/ UNCHANGED jobs
           \/ request[q].job \in Jobs /\ Marks(request[q].job, "PROCESSING")
    BY <1>14, EarlyErrorDoes DEF InTask
  <2>2. \A j \in Jobs : /\ jobs'[j].asked = jobs[j].asked /\ jobs'[j].requested = jobs[j].requested
                        /\ jobs'[j].status = "COMPLETE" => jobs[j].status = "COMPLETE"
    BY <2>1 DEF Marks
  <2> QED
    BY <1>0, <1>1, <1>4, <1>5, <2>1, <2>2, HeldAfter, ApartKept
<1> QED
  BY <1>6, <1>7, <1>8, <1>9, <1>10, <1>11, <1>12, <1>13, <1>14 DEF Step

LEMMA WindowInductive == TypeOK /\ Links /\ WindowIInv /\ [Next]_vars => WindowIInv'
<1> SUFFICES ASSUME TypeOK, Links, WindowIInv, [Next]_vars
             PROVE  WindowIInv'
  OBVIOUS
<1>1. ASSUME NEW q \in Requests, Ask(q) \/ Step(q)
      PROVE  WindowIInv'
  BY <1>1, RequestKeepsWindow
<1>2. CASE Crash
  <2>1. /\ UNCHANGED <<jobs, now, scenario>>
        /\ \A q \in Requests : request'[q] = request[q] \/ request'[q].pc = "lost"
    BY <1>2, CrashDoes
  <2>2. \A q \in Requests : Busy(q)' => request'[q] = request[q]
    BY <2>1 DEF Busy, InRequest, InTask
  <2>3. Alone => Alone'
    BY <2>2 DEF Alone, Busy
  <2>4. \A j \in Jobs : Held(j)' => Held(j)
    BY <2>1, <2>2 DEF Held, Busy
  <2>5. Apart => Apart'
    BY <2>1, <2>4, ApartKept
  <2>6. NoneFound => NoneFound'
    BY <2>1 DEF NoneFound, Reusable
  <2> QED
    BY <2>1, <2>3, <2>5, <2>6 DEF WindowIInv
<1>3. CASE Tick
  <2>1. UNCHANGED <<jobs, request, scenario>> /\ now' = now + 1
    BY <1>3 DEF Tick
  <2>2. \A a : Reusable(a) = {} => (Reusable(a) = {})'
    <3>1. \A j \in Jobs : jobs[j].requested \in Nat /\ Window \in Nat /\ now \in Nat
      BY ReportAssumption DEF ReportAssumption, TypeOK, JobRec, Time, NoTime
    <3> QED
      BY <2>1, <3>1 DEF Reusable
  <2>3. NoneFound => NoneFound'
    BY <2>1, <2>2 DEF NoneFound
  <2>4. (Alone => Alone') /\ (Apart => Apart')
    BY <2>1 DEF Alone, Busy, Apart, Held, Far
  <2> QED
    BY <2>1, <2>3, <2>4 DEF WindowIInv
<1>4. CASE (\E r \in Runs : Ingested(r) \/ RolledBack(r)) \/ UNCHANGED vars
  <2>1. UNCHANGED <<jobs, request, scenario, now>>
    BY <1>4 DEF Ingested, RolledBack, vars
  <2> QED
    BY <2>1 DEF WindowIInv, Alone, Busy, Apart, Held, Far, NoneFound, Reusable
<1> QED
  BY <1>1, <1>2, <1>3, <1>4 DEF Next

(* Requests that do not overlap never make two COMPLETE jobs of the same   *)
(* request within a window, whatever fails, and whether or not the server  *)
(* stops between them.                                                     *)
THEOREM OneJobInAWindow == Spec => []OneJobPerWindow
<1>1. Init => WindowIInv
  BY DEF Init, WindowIInv, Alone, Apart, Held, NoneFound, Busy, InRequest, InTask
<1>2. TypeOK /\ Links /\ WindowIInv /\ [Next]_vars => WindowIInv'
  BY WindowInductive
<1>3. WindowIInv => OneJobPerWindow
  BY DEF WindowIInv, OneJobPerWindow, Apart, Held, Far
<1> QED
  BY <1>1, <1>2, <1>3, ReportInvariant, PTL DEF Spec

-----------------------------------------------------------------------------
(* What a report shows of runs that were rolled back.                      *)

(* None of the content is a fact row of a run that was gone when q asked.  *)
Fresh(q, content) == content \cap (FactSections \X request[q].gone) = {}

GoneFirst == facts \cap removed = {} /\ \A q \in Requests : request[q].gone \subseteq removed

Unread == \A q \in Requests : request[q].pc \notin Running => request[q].shows = {}

SharedKnown ==
    \A p, q \in Requests :
        /\ p # q /\ request[p].pc \in Running /\ request[q].pc \in Running
        /\ request[p].job = request[q].job
        => request[q].job \in shared

ReadFresh == \A q \in Requests : Fresh(q, request[q].shows)

StoredFresh ==
    \A q \in Requests :
        request[q].pc \in {"publishing", "complete"} /\ request[q].job \notin shared
            => Fresh(q, s3[request[q].job][2])

(* A later generation of the job shows none either.                        *)
LaterFresh ==
    \A p, q \in Requests :
        /\ request[q].pc = "complete" /\ request[q].job \notin shared
        /\ request[p].job = request[q].job
        => Fresh(q, request[p].shows)

FreshIInv == GoneFirst /\ Unread /\ SharedKnown /\ ReadFresh /\ StoredFresh /\ LaterFresh

LEMMA RequestMoves ==
    ASSUME TypeOK, Links, Unread, NEW q \in Requests, Ask(q) \/ Step(q)
    PROVE  /\ \/ request'[q].gone = request[q].gone
              \/ request'[q].gone = removed /\ request'[q].pc \in {"looking", "refused"}
           /\ shared \subseteq shared'
           /\ request'[q].pc \notin Running => request'[q].shows = {}
           /\ \/ request'[q].shows \subseteq request[q].shows
              \/ request'[q].shows \cap (FactSections \X Runs)
                    \subseteq request[q].shows \cup (FactSections \X facts)
           /\ request'[q].pc \in Running =>
                 /\ request'[q].job = request[q].job
                 /\ \/ request[q].pc \in Running
                    \/ \A p \in Requests \ {q} :
                          request[p].job = request[q].job /\ request[p].pc \in Running
                             => request[q].job \in shared'
<1>1. CASE Ask(q)
  BY <1>1, AskDoes DEF Unread, Running, InTask
<1>2. CASE Find(q)
  BY <1>2, FindDoes DEF Unread, Running, InTask
<1>3. CASE Insert(q)
  BY <1>3, InsertDoes DEF Unread, Running, InTask
<1>4. CASE Start(q)
  BY <1>4, StartDoes DEF Running, InTask
<1>5. CASE ReadSection(q)
  BY <1>5, ReadSectionDoes DEF Running, InTask
<1>6. CASE Upload(q)
  BY <1>6, UploadDoes DEF Running, InTask
<1>7. CASE Publish(q)
  BY <1>7, PublishDoes DEF Running, InTask
<1>8. CASE TaskError(q) \/ MarkFailed(q) \/ MarkError(q)
  BY <1>8, FailureDoes DEF Running, InTask
<1>9. CASE CreateError(q) \/ StartError(q)
  BY <1>9, EarlyErrorDoes DEF Running, InTask
<1> QED
  BY <1>1, <1>2, <1>3, <1>4, <1>5, <1>6, <1>7, <1>8, <1>9 DEF Step

(* Only Upload stores, and only Publish completes.                         *)
LEMMA OnlyUploadStores ==
    ASSUME TypeOK, Links, NEW q \in Requests, Ask(q) \/ Step(q)
    PROVE  /\ \/ UNCHANGED s3
              \/ /\ request[q].pc = "uploading" /\ request'[q].pc = "publishing"
                 /\ s3'[request[q].job][2] = request[q].shows
                 /\ \A j \in Jobs \ {request[q].job} : s3'[j] = s3[j]
           /\ request'[q].pc = "publishing" => request[q].pc = "uploading"
           /\ request'[q].pc = "complete" =>
                 /\ request[q].pc = "publishing" /\ UNCHANGED <<s3, shared>>
                 /\ request'[q].job = request[q].job /\ request'[q].shows = {}
           /\ request'[q].pc = "publishing" =>
                 /\ s3'[request[q].job][2] = request[q].shows
                 /\ request'[q].job = request[q].job
<1>1. CASE Ask(q)
  BY <1>1, AskDoes
<1>2. CASE Find(q)
  BY <1>2, FindDoes
<1>3. CASE Insert(q)
  BY <1>3, InsertDoes
<1>4. CASE Start(q)
  BY <1>4, StartDoes
<1>5. CASE ReadSection(q)
  BY <1>5, ReadSectionDoes
<1>6. CASE Upload(q)
  BY <1>6, UploadDoes
<1>7. CASE Publish(q)
  BY <1>7, PublishDoes
<1>8. CASE TaskError(q) \/ MarkFailed(q) \/ MarkError(q)
  BY <1>8, FailureDoes
<1>9. CASE CreateError(q) \/ StartError(q)
  BY <1>9, EarlyErrorDoes
<1> QED
  BY <1>1, <1>2, <1>3, <1>4, <1>5, <1>6, <1>7, <1>8, <1>9 DEF Step

LEMMA RequestKeepsFresh ==
    ASSUME TypeOK, Links, FreshIInv, NEW q \in Requests, Ask(q) \/ Step(q), TypeOK', Links'
    PROVE  FreshIInv'
<1>0. /\ UNCHANGED <<facts, removed>>
      /\ \A p \in Requests \ {q} : request'[p] = request[p]
  BY OthersStay
<1>1. GoneFirst /\ Unread /\ SharedKnown /\ ReadFresh /\ StoredFresh /\ LaterFresh
  BY DEF FreshIInv
<1>2. /\ \/ request'[q].gone = request[q].gone
         \/ request'[q].gone = removed /\ request'[q].pc \in {"looking", "refused"}
      /\ shared \subseteq shared'
      /\ request'[q].pc \notin Running => request'[q].shows = {}
      /\ \/ request'[q].shows \subseteq request[q].shows
         \/ request'[q].shows \cap (FactSections \X Runs)
               \subseteq request[q].shows \cup (FactSections \X facts)
      /\ request'[q].pc \in Running =>
            /\ request'[q].job = request[q].job
            /\ \/ request[q].pc \in Running
               \/ \A p \in Requests \ {q} :
                     request[p].job = request[q].job /\ request[p].pc \in Running
                        => request[q].job \in shared'
  BY <1>1, RequestMoves
<1>3. /\ \/ UNCHANGED s3
         \/ /\ request[q].pc = "uploading" /\ request'[q].pc = "publishing"
            /\ s3'[request[q].job][2] = request[q].shows
            /\ \A j \in Jobs \ {request[q].job} : s3'[j] = s3[j]
      /\ request'[q].pc = "publishing" => request[q].pc = "uploading"
      /\ request'[q].pc = "complete" =>
            /\ request[q].pc = "publishing" /\ UNCHANGED <<s3, shared>>
            /\ request'[q].job = request[q].job /\ request'[q].shows = {}
      /\ request'[q].pc = "publishing" =>
            /\ s3'[request[q].job][2] = request[q].shows
            /\ request'[q].job = request[q].job
  BY OnlyUploadStores
<1>4. GoneFirst'
  BY <1>0, <1>1, <1>2 DEF GoneFirst
<1>5. Unread'
  BY <1>0, <1>1, <1>2 DEF Unread
<1>6. SharedKnown'
  BY <1>0, <1>1, <1>2 DEF SharedKnown
<1>7. removed \in SUBSET Runs /\ \A p \in Requests : request[p].gone \subseteq Runs
  BY DEF TypeOK, RequestRec
(* A step adds no fact row of a run that is gone.                          *)
<1>8. ASSUME NEW p \in Requests, Fresh(p, request[q].shows), request'[p].gone = request[p].gone
      PROVE  Fresh(p, request[q].shows)'
  <2>1. facts \cap request[p].gone = {} /\ request[p].gone \subseteq Runs
    BY <1>1, <1>7 DEF GoneFirst
  <2> QED
    BY <1>2, <1>8, <2>1 DEF Fresh
<1>9. ReadFresh'
  <2> SUFFICES ASSUME NEW p \in Requests PROVE Fresh(p, request[p].shows)'
    BY DEF ReadFresh
  <2>1. CASE p # q
    BY <1>0, <1>1, <2>1 DEF ReadFresh, Fresh
  <2>2. CASE p = q /\ request'[q].gone = request[q].gone
    BY <1>1, <1>8, <2>2 DEF ReadFresh
  <2>3. CASE p = q /\ request'[q].pc \notin Running
    BY <1>2, <2>3 DEF Fresh
  <2> QED
    BY <1>2, <2>1, <2>2, <2>3 DEF Running, InTask
<1>10. StoredFresh'
  <2> SUFFICES ASSUME NEW p \in Requests, request'[p].pc \in {"publishing", "complete"},
                      request'[p].job \notin shared'
               PROVE  Fresh(p, s3[request[p].job][2])'
    BY DEF StoredFresh
  <2>1. CASE p = q /\ request'[q].pc = "publishing"
    <3>1. request'[q].gone = request[q].gone
      BY <1>2, <2>1
    <3> QED
      BY <1>1, <1>3, <2>1, <3>1 DEF ReadFresh, Fresh
  <2>2. CASE p = q /\ request'[q].pc = "complete"
    <3>1. request'[q].gone = request[q].gone
      BY <1>2, <2>2
    <3> QED
      BY <1>1, <1>3, <2>2, <3>1 DEF StoredFresh, Fresh
  <2>3. CASE p # q
    <3>1. request'[p] = request[p] /\ request[p].job \notin shared
      BY <1>0, <1>2, <2>3
    <3>2. Fresh(p, s3[request[p].job][2])
      BY <1>1, <3>1 DEF StoredFresh
    <3>3. CASE UNCHANGED s3
      BY <3>1, <3>2, <3>3 DEF Fresh
    <3>4. CASE request[p].job = request[q].job /\ request[q].pc = "uploading"
      <4>1. request[p].pc = "complete"
        BY <1>1, <2>3, <3>1, <3>4 DEF SharedKnown, Running, InTask
      <4>2. Fresh(p, request[q].shows)
        BY <1>1, <3>1, <3>4, <4>1 DEF LaterFresh
      <4> QED
        BY <1>3, <3>1, <3>2, <3>4, <4>2 DEF Fresh
    <3>5. CASE request[p].job # request[q].job
      <4>1. request[p].job \in Jobs
        BY <3>1 DEF Links, Sound, Holders, InTask
      <4> QED
        BY <1>3, <3>1, <3>2, <3>5, <4>1 DEF Fresh
    <3> QED
      BY <1>3, <3>3, <3>4, <3>5
  <2> QED
    BY <2>1, <2>2, <2>3
<1>11. LaterFresh'
  <2> SUFFICES ASSUME NEW p \in Requests, NEW r \in Requests, request'[r].pc = "complete",
                      request'[r].job \notin shared', request'[p].job = request'[r].job
               PROVE  Fresh(r, request[p].shows)'
    BY DEF LaterFresh
  <2>1. CASE request'[p].pc \notin Running
    <3>1. request'[p].shows = {}
      BY <1>5, <2>1 DEF Unread
    <3> QED
      BY <3>1 DEF Fresh
  <2>2. CASE request'[p].pc \in Running /\ r = q
    <3>1. p # q /\ request'[p] = request[p]
      BY <1>0, <2>2 DEF Running, InTask
    <3>2. /\ request[q].pc \in Running /\ request[q].job = request'[q].job
          /\ request[q].job \notin shared
      BY <1>3, <2>2 DEF Running, InTask
    <3> QED
      BY <1>1, <2>2, <3>1, <3>2 DEF SharedKnown
  <2>3. CASE request'[p].pc \in Running /\ r # q
    <3>1. request'[r] = request[r] /\ request[r].job \notin shared
      BY <1>0, <1>2, <2>3
    <3>2. request'[p].job = request[p].job
      BY <1>0, <1>2, <2>3
    <3>3. Fresh(r, request[p].shows)
      BY <1>1, <3>1, <3>2 DEF LaterFresh
    <3>4. CASE p = q
      BY <1>8, <3>1, <3>3, <3>4
    <3>5. CASE p # q
      BY <1>0, <3>1, <3>3, <3>5 DEF Fresh
    <3> QED
      BY <3>4, <3>5
  <2> QED
    BY <2>1, <2>2, <2>3
<1> QED
  BY <1>4, <1>5, <1>6, <1>9, <1>10, <1>11 DEF FreshIInv

LEMMA FreshInductive == TypeOK /\ Links /\ FreshIInv /\ [Next]_vars => FreshIInv'
<1> SUFFICES ASSUME TypeOK, Links, FreshIInv, [Next]_vars
             PROVE  FreshIInv'
  OBVIOUS
<1>0. TypeOK' /\ Links'
  BY ReportInductive
<1>1. ASSUME NEW q \in Requests, Ask(q) \/ Step(q)
      PROVE  FreshIInv'
  BY <1>0, <1>1, RequestKeepsFresh
<1>2. CASE Crash
  <2>1. /\ UNCHANGED <<s3, shared, facts, removed>>
        /\ \A q \in Requests :
              \/ request'[q] = request[q]
              \/ /\ request'[q].pc = "lost" /\ request'[q].job = request[q].job
                 /\ request'[q].gone = request[q].gone /\ request'[q].shows = {}
    BY <1>2, CrashDoes
  <2>2. GoneFirst' /\ Unread' /\ SharedKnown' /\ ReadFresh'
    BY <2>1 DEF FreshIInv, GoneFirst, Unread, SharedKnown, ReadFresh, Fresh, Running, InTask
  <2>3. StoredFresh' /\ LaterFresh'
    BY <2>1 DEF FreshIInv, StoredFresh, LaterFresh, Fresh
  <2> QED
    BY <2>2, <2>3 DEF FreshIInv
<1>3. ASSUME NEW r \in Runs, Ingested(r) \/ RolledBack(r)
      PROVE  FreshIInv'
  <2>1. UNCHANGED <<s3, request, shared>> /\ removed \subseteq removed'
    BY <1>3 DEF Ingested, RolledBack
  <2>2. GoneFirst'
    <3>1. facts' \cap removed' = {}
      BY <1>3 DEF FreshIInv, GoneFirst, Ingested, RolledBack
    <3> QED
      BY <2>1, <3>1 DEF FreshIInv, GoneFirst
  <2> QED
    BY <2>1, <2>2 DEF FreshIInv, Unread, SharedKnown, ReadFresh, StoredFresh, LaterFresh, Fresh
<1>4. CASE Tick \/ UNCHANGED vars
  <2>1. UNCHANGED <<s3, request, facts, removed, shared>>
    BY <1>4 DEF Tick, vars
  <2> QED
    BY <2>1 DEF FreshIInv, GoneFirst, Unread, SharedKnown, ReadFresh, StoredFresh, LaterFresh, Fresh
<1> QED
  BY <1>1, <1>2, <1>3, <1>4 DEF Next

(* A client whose report is COMPLETE is shown no fact row of a run that    *)
(* was rolled back before it asked, also when it is given a job of another *)
(* request, unless two tasks worked on that job at the same time.          *)
THEOREM CompleteReportsAreFresh == Spec => []ReportIsFresh
<1>1. Init => FreshIInv
  BY DEF Init, FreshIInv, GoneFirst, Unread, SharedKnown, ReadFresh, StoredFresh, LaterFresh, Fresh,
         Running, InTask
<1>2. TypeOK /\ Links /\ FreshIInv /\ [Next]_vars => FreshIInv'
  BY FreshInductive
<1>3. FreshIInv => ReportIsFresh
  BY DEF FreshIInv, StoredFresh, Fresh, ReportIsFresh
<1> QED
  BY <1>1, <1>2, <1>3, ReportInvariant, PTL DEF Spec
=================================================================================
