------------------------------- MODULE ReportJobs -------------------------------
(***************************************************************************)
(* The reports of one carrier: the request that accepts a report           *)
(* (api/v1/reports.py), the job it creates or finds and the background     *)
(* task that generates, stores and publishes it                            *)
(* (services/report_job_service.py, services/report_generation_service.py, *)
(* services/s3_service.py), over fact rows that a pipeline adds and a      *)
(* rollback removes meanwhile.                                             *)
(*                                                                         *)
(* Time is counted in ticks of half a day: a job is given out again for    *)
(* Window ticks.                                                           *)
(***************************************************************************)
EXTENDS Naturals, FiniteSets, Sequences

CONSTANTS
    MaxRequests,      \* bound on the calls of generate_report
    Runs,             \* the ingestion runs with facts of the policy
    NoRun,            \* the run_id of a request without one
    Window,           \* IDEMPOTENCY_WINDOW_HOURS
    MaxTime,          \* bound on the clock
    Scenarios         \* what the clients ask for and what happens meanwhile

VARIABLES
    jobs,             \* report_jobs
    s3,               \* the objects under reports/: what a file of a job shows
    facts,            \* the runs whose rows are in the fact tables
    removed,          \* the runs rolled back so far
    now,              \* the clock
    request,          \* the requests and their background tasks
    shared,           \* the jobs that two tasks worked on at the same time
    scenario          \* the scenario of a behaviour

vars == <<jobs, s3, facts, removed, now, request, shared, scenario>>

(* Requests are numbered as they arrive; a row of report_jobs has the      *)
(* number of the request that inserted it.                                 *)
Requests == 1 .. MaxRequests
Jobs     == Requests
NoJob    == 0

(* early_failures: a statement of create_job or one before the try of      *)
(* run_job raises; late_failures: one that publishes or marks a failure.   *)
Events == {"rollback", "failures", "early_failures", "late_failures", "crash", "time", "overlap"}

ReportTypes == {"policy_audit", "book_summary", "class_code_variance",
                "ingestion_audit_trail", "exception_report"}

ExcelOnly == {"class_code_variance", "ingestion_audit_trail", "exception_report"}

Report == [type : ReportTypes, pdf : BOOLEAN, policy : BOOLEAN, run : Runs \cup {NoRun}]

ASSUME ReportAssumption ==
    /\ NoRun \notin Runs
    /\ MaxRequests \in Nat
    /\ Window \in Nat
    /\ MaxTime \in Nat
    /\ Scenarios \subseteq [events : SUBSET Events, asked : SUBSET Report]

Time   == 0 .. MaxTime
NoTime == MaxTime + 1

(* The queries of a report, in the order the generator issues them. *)
SectionsOf ==
    [policy_audit          |-> <<"premium", "payroll", "class", "missing", "zero", "narrative">>,
     book_summary          |-> <<"book">>,
     class_code_variance   |-> <<"class">>,
     ingestion_audit_trail |-> <<"runs">>,
     exception_report      |-> <<"errors", "skipped">>]

Sections == {"premium", "payroll", "class", "missing", "zero", "narrative", "book",
             "runs", "errors", "skipped"}

(* The sections that come from the fact tables. *)
FactSections == {"premium", "payroll", "class", "missing", "zero", "book"}

Content == SUBSET (Sections \X Runs)

JobStatus == {"NONE", "QUEUED", "PROCESSING", "COMPLETE", "FAILED"}

(* url is the time its link was signed; the key of the object is the job.  *)
JobRec == [status : JobStatus, asked : Report, requested : Time \cup {NoTime},
           url : Time \cup {NoTime}]

RequestPC == {"new", "refused", "looking", "inserting", "queued", "reading", "uploading",
              "publishing", "failing", "complete", "failed", "stuck", "lost"}

RequestRec == [pc : RequestPC, asked : Report, job : Jobs \cup {NoJob}, next : 1 .. 7,
               shows : Content, signed : Time \cup {NoTime}, gone : SUBSET Runs]

TypeOK ==
    /\ jobs \in [Jobs -> JobRec]
    /\ s3 \in [Jobs -> {"absent"} \X {{}} \cup {"stored"} \X Content]
    /\ facts \in SUBSET Runs
    /\ removed \in SUBSET Runs
    /\ now \in Time
    /\ request \in [Requests -> RequestRec]
    /\ shared \in SUBSET Jobs
    /\ scenario \in Scenarios

-----------------------------------------------------------------------------
(* validate_report_request: which combinations are refused with 422. *)
Acceptable(a) ==
    /\ a.pdf => a.type \notin ExcelOnly
    /\ a.type = "policy_audit" => a.policy
    /\ a.type \in {"exception_report", "ingestion_audit_trail"} => a.run # NoRun

(* What the queries find. The premium shown of a policy is its row with    *)
(* the latest as_of_date.                                                  *)
Latest(found) == IF found = {} THEN {{}} ELSE {{r} : r \in found}

FactsOf(a) == IF a.run = NoRun THEN facts ELSE facts \cap {a.run}

(* Runs, their narratives, errors and skipped rows stay after a rollback.  *)
KeptOf(a) == IF a.run = NoRun THEN facts \cup removed ELSE (facts \cup removed) \cap {a.run}

(* The narrative of the run, whatever its status, or else of the last run  *)
(* with a premium row.                                                     *)
NarrativeFinds(a) ==
    IF a.run # NoRun /\ KeptOf(a) # {} THEN {KeptOf(a)} ELSE Latest(facts)

(* Only the premium of an audit is that of its run. *)
AuditFinds(a, section) ==
    CASE section = "premium"   -> Latest(FactsOf(a))
      [] section = "narrative" -> NarrativeFinds(a)
      [] OTHER                 -> {facts}

BookFinds       == Latest(facts)
ExportFinds(a)  == {FactsOf(a)}
TrailFinds(a)   == {KeptOf(a)}
ExceptsFinds(a) == {KeptOf(a)}

(* _dispatch_generation. *)
Finds(a, section) ==
    CASE a.type = "policy_audit"          -> AuditFinds(a, section)
      [] a.type = "book_summary"          -> BookFinds
      [] a.type = "class_code_variance"   -> ExportFinds(a)
      [] a.type = "ingestion_audit_trail" -> TrailFinds(a)
      [] a.type = "exception_report"      -> ExceptsFinds(a)

(* Mutant: "= NULL" for a missing run_id. *)
Reusable_equalsNull(a) ==
    {j \in Jobs : /\ jobs[j].status = "COMPLETE"
                  /\ jobs[j].asked = a
                  /\ a.run # NoRun
                  /\ jobs[j].requested + Window >= now}

(* create_job: COMPLETE jobs of the same request that are young enough. *)
Reusable(a) ==
    {j \in Jobs : /\ jobs[j].status = "COMPLETE"
                  /\ jobs[j].asked = a
                  /\ jobs[j].requested + Window >= now}

(* ... ORDER BY requested_at DESC LIMIT 1. *)
NewestOf(S) == {j \in S : \A k \in S : jobs[k].requested <= jobs[j].requested}

InTask    == {"queued", "reading", "uploading", "publishing", "failing"}
Running   == InTask \ {"queued"}
InRequest == {"looking", "inserting"}

Blank == [type |-> "book_summary", pdf |-> FALSE, policy |-> FALSE, run |-> NoRun]

Init ==
    /\ scenario \in Scenarios
    /\ jobs = [j \in Jobs |-> [status |-> "NONE", asked |-> Blank, requested |-> NoTime,
                               url |-> NoTime]]
    /\ s3 = [j \in Jobs |-> <<"absent", {}>>]
    /\ facts \in SUBSET Runs
    /\ removed = {}
    /\ now = 0
    /\ request = [q \in Requests |-> [pc |-> "new", asked |-> Blank, job |-> NoJob,
                                      next |-> 1, shows |-> {}, signed |-> NoTime,
                                      gone |-> {}]]
    /\ shared = {}

Goes(q, to) == request' = [request EXCEPT ![q].pc = to]

(* A request that ended: its locals are gone. *)
Ended(q, as) == [request[q] EXCEPT !.pc = as, !.next = 1, !.shows = {}, !.signed = NoTime]

-----------------------------------------------------------------------------
(* POST /reports/generate.                                                 *)

(* Unless requests overlap, one comes when the tasks of the others ended.  *)
MayAsk == "overlap" \in scenario.events \/ \A p \in Requests : request[p].pc \notin InRequest \cup InTask

Ask(q) ==
    /\ request[q].pc = "new"
    /\ \A p \in 1 .. q - 1 : request[p].pc # "new"
    /\ MayAsk
    /\ \E a \in scenario.asked :
          request' = [request EXCEPT ![q] = [@ EXCEPT
                         !.pc = IF Acceptable(a) THEN "looking" ELSE "refused",
                         !.asked = a, !.gone = removed]]
    /\ UNCHANGED <<jobs, s3, facts, removed, now, shared, scenario>>

(* The endpoint enqueues the task for a job that it found as for one that  *)
(* it created.                                                             *)
Find(q) ==
    /\ request[q].pc = "looking"
    /\ IF Reusable(request[q].asked) = {}
       THEN Goes(q, "inserting")
       ELSE \E j \in NewestOf(Reusable(request[q].asked)) :
               request' = [request EXCEPT ![q] = [@ EXCEPT !.pc = "queued", !.job = j]]
    /\ UNCHANGED <<jobs, s3, facts, removed, now, shared, scenario>>

Insert(q) ==
    /\ request[q].pc = "inserting"
    /\ jobs' = [jobs EXCEPT ![q] = [status |-> "QUEUED", asked |-> request[q].asked,
                                    requested |-> now, url |-> NoTime]]
    /\ request' = [request EXCEPT ![q] = [@ EXCEPT !.pc = "queued", !.job = q]]
    /\ UNCHANGED <<s3, facts, removed, now, shared, scenario>>

(* A statement of create_job raises: no job is added and no task begins.   *)
CreateError(q) ==
    /\ request[q].pc \in InRequest
    /\ "early_failures" \in scenario.events
    /\ request' = [request EXCEPT ![q] = Ended(q, "lost")]
    /\ UNCHANGED <<jobs, s3, facts, removed, now, shared, scenario>>

-----------------------------------------------------------------------------
(* run_job. *)

(* Mutant: a job that is COMPLETE is left as it is. *)
Start_onlyOnce(q) ==
    LET j == request[q].job
    IN  /\ request[q].pc = "queued"
        /\ IF jobs[j].status = "COMPLETE"
           THEN jobs' = jobs /\ Goes(q, "complete")
           ELSE jobs' = [jobs EXCEPT ![j].status = "PROCESSING"] /\ Goes(q, "reading")
        /\ UNCHANGED <<s3, facts, removed, now, shared, scenario>>

(* The job becomes PROCESSING whatever it was. *)
Start(q) ==
    LET j == request[q].job
    IN  /\ request[q].pc = "queued"
        /\ jobs' = [jobs EXCEPT ![j].status = "PROCESSING"]
        /\ Goes(q, "reading")
        /\ shared' = IF \E p \in Requests \ {q} :
                           request[p].job = j /\ request[p].pc \in Running
                     THEN shared \cup {j} ELSE shared
        /\ UNCHANGED <<s3, facts, removed, now, scenario>>

(* The statements up to the try have no handler: the task ends, before or  *)
(* after the job is PROCESSING.                                            *)
StartError(q) ==
    /\ request[q].pc = "queued"
    /\ "early_failures" \in scenario.events
    /\ \/ jobs' = jobs
       \/ jobs' = [jobs EXCEPT ![request[q].job].status = "PROCESSING"]
    /\ request' = [request EXCEPT ![q] = Ended(q, "stuck")]
    /\ UNCHANGED <<s3, facts, removed, now, shared, scenario>>

(* One query of _dispatch_generation's generator. *)
ReadSection(q) ==
    LET a        == request[q].asked
        sections == SectionsOf[a.type]
        n        == request[q].next
    IN  /\ request[q].pc = "reading"
        /\ \E found \in Finds(a, sections[n]) :
              request' = [request EXCEPT ![q] = [@ EXCEPT
                             !.shows = request[q].shows \cup ({sections[n]} \X found),
                             !.next = n + 1,
                             !.pc = IF n = Len(sections) THEN "uploading" ELSE "reading"]]
        /\ UNCHANGED <<jobs, s3, facts, removed, now, shared, scenario>>

(* Mutants: an error of the upload is swallowed; the link is written before *)
(* the job is COMPLETE.                                                     *)
Upload_unconfirmed(q) ==
    /\ request[q].pc = "uploading"
    /\ \/ s3' = [s3 EXCEPT ![request[q].job] = <<"stored", request[q].shows>>]
       \/ s3' = s3
    /\ request' = [request EXCEPT ![q] = [@ EXCEPT !.pc = "publishing", !.signed = now]]
    /\ UNCHANGED <<jobs, facts, removed, now, shared, scenario>>

Upload_linked(q) ==
    /\ request[q].pc = "uploading"
    /\ s3' = [s3 EXCEPT ![request[q].job] = <<"stored", request[q].shows>>]
    /\ jobs' = [jobs EXCEPT ![request[q].job].url = now]
    /\ request' = [request EXCEPT ![q] = [@ EXCEPT !.pc = "publishing", !.signed = now]]
    /\ UNCHANGED <<facts, removed, now, shared, scenario>>

(* upload_bytes under the key of the job, then presign_url. *)
Upload(q) ==
    /\ request[q].pc = "uploading"
    /\ s3' = [s3 EXCEPT ![request[q].job] = <<"stored", request[q].shows>>]
    /\ request' = [request EXCEPT ![q] = [@ EXCEPT !.pc = "publishing", !.signed = now]]
    /\ UNCHANGED <<jobs, facts, removed, now, shared, scenario>>

Publish(q) ==
    /\ request[q].pc = "publishing"
    /\ jobs' = [jobs EXCEPT ![request[q].job] = [@ EXCEPT !.status = "COMPLETE",
                                                          !.url = request[q].signed]]
    /\ request' = [request EXCEPT ![q] = Ended(q, "complete")]
    /\ UNCHANGED <<s3, facts, removed, now, shared, scenario>>

(* The generation, the upload, the signature or the update raises. *)
TaskError(q) ==
    /\ \/ request[q].pc \in {"reading", "uploading"} /\ "failures" \in scenario.events
       \/ request[q].pc = "publishing" /\ "late_failures" \in scenario.events
    /\ Goes(q, "failing")
    /\ UNCHANGED <<jobs, s3, facts, removed, now, shared, scenario>>

(* Mutant: the failure is only logged. *)
MarkFailed_logged(q) ==
    /\ request[q].pc = "failing"
    /\ Goes(q, "failed")
    /\ UNCHANGED <<jobs, s3, facts, removed, now, shared, scenario>>

(* The link of an earlier generation stays. *)
MarkFailed(q) ==
    /\ request[q].pc = "failing"
    /\ jobs' = [jobs EXCEPT ![request[q].job].status = "FAILED"]
    /\ request' = [request EXCEPT ![q] = Ended(q, "failed")]
    /\ UNCHANGED <<s3, facts, removed, now, shared, scenario>>

(* The update of a failed job fails as well, which is only logged. *)
MarkError(q) ==
    /\ request[q].pc = "failing"
    /\ "late_failures" \in scenario.events
    /\ request' = [request EXCEPT ![q] = Ended(q, "stuck")]
    /\ UNCHANGED <<jobs, s3, facts, removed, now, shared, scenario>>

-----------------------------------------------------------------------------
(* Around the reports.                                                     *)

(* The server stops: requests and tasks are gone, no start looks for their *)
(* jobs.                                                                   *)
Crash ==
    /\ "crash" \in scenario.events
    /\ \E q \in Requests : request[q].pc \in InTask
    /\ request' = [q \in Requests |->
                      IF request[q].pc \in InRequest \cup InTask
                      THEN Ended(q, "lost") ELSE request[q]]
    /\ UNCHANGED <<jobs, s3, facts, removed, now, shared, scenario>>

(* A pipeline or a rollback of a run commits. *)
Ingested(r) ==
    /\ "rollback" \in scenario.events
    /\ r \notin facts \cup removed
    /\ facts' = facts \cup {r}
    /\ UNCHANGED <<jobs, s3, removed, now, request, shared, scenario>>

RolledBack(r) ==
    /\ "rollback" \in scenario.events
    /\ r \in facts
    /\ facts' = facts \ {r}
    /\ removed' = removed \cup {r}
    /\ UNCHANGED <<jobs, s3, now, request, shared, scenario>>

Tick ==
    /\ "time" \in scenario.events
    /\ now < MaxTime
    /\ now' = now + 1
    /\ UNCHANGED <<jobs, s3, facts, removed, request, shared, scenario>>

Step(q) ==
    Find(q) \/ Insert(q) \/ CreateError(q) \/ Start(q) \/ StartError(q) \/ ReadSection(q)
      \/ Upload(q) \/ Publish(q) \/ TaskError(q) \/ MarkFailed(q) \/ MarkError(q)

Next ==
    \/ \E q \in Requests : Ask(q) \/ Step(q)
    \/ \E r \in Runs : Ingested(r) \/ RolledBack(r)
    \/ Crash
    \/ Tick

Spec == Init /\ [][Next]_vars

(* A request and its task go on; nothing makes a client ask.               *)
FairSpec == Spec /\ \A q \in Requests : WF_vars(Step(q))

-----------------------------------------------------------------------------
(* What the reports promise.                                               *)

(* GET /reports/{job_id}/status. *)
Polled(j) == [status |-> jobs[j].status, link |-> jobs[j].url]

(* run_job uploads before it writes: a COMPLETE job has a link and its     *)
(* object is stored, whatever generations of the job came before or are    *)
(* under way.                                                              *)
CompleteHasFile ==
    \A j \in Jobs :
        Polled(j).status = "COMPLETE" => Polled(j).link # NoTime /\ s3[j][1] = "stored"

(* A FAILED job has no link, unless it was given out again and failed in a *)
(* later generation, which leaves the link of the earlier one.             *)
FailedHasNoLink ==
    \A j \in Jobs :
        /\ Polled(j).status = "FAILED"
        /\ \A p, q \in Requests : request[p].job = j /\ request[q].job = j => p = q
        => Polled(j).link = NoTime

(* create_job is idempotent for requests that do not overlap: two COMPLETE *)
(* jobs of the same request were asked for more than the window apart.     *)
OneJobPerWindow ==
    "overlap" \notin scenario.events =>
        \A j, k \in Jobs :
            /\ j # k
            /\ jobs[j].status = "COMPLETE" /\ jobs[k].status = "COMPLETE"
            /\ jobs[j].asked = jobs[k].asked
            => jobs[j].requested + Window < jobs[k].requested
               \/ jobs[k].requested + Window < jobs[j].requested

(* A client whose report is COMPLETE gets no fact row of a run that was    *)
(* rolled back before it asked, although it may get a job of a day ago:    *)
(* the endpoint generates that job anew. Two generations of a job that are *)
(* under way together may finish in the wrong order.                       *)
ReportIsFresh ==
    \A q \in Requests :
        request[q].pc = "complete" /\ request[q].job \notin shared =>
            s3[request[q].job][2] \cap (FactSections \X request[q].gone) = {}

(* A job that is still QUEUED or PROCESSING in the end had its task cut    *)
(* off: by a stop of the server, by an error of a statement before the try *)
(* of run_job, or by one of the update that marks it FAILED. Every other   *)
(* error and every other order of tasks on a job settles it.               *)
JobsSettle ==
    <>[](\A j \in Jobs :
            Polled(j).status \in {"QUEUED", "PROCESSING"} =>
                \E q \in Requests : request[q].job = j /\ request[q].pc \in {"stuck", "lost"})
=================================================================================
