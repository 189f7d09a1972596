# A TLA+ model of the WC audit platform

The repository is a multi-tenant platform for auditing workers-compensation premiums: a FastAPI
backend (`src/backend/app`), a Next.js frontend, PostgreSQL with one schema per tenant, Redis,
Keycloak and an object store.  This directory models the part of the backend where several requests
and background tasks work on the same rows: the way of a file from its upload to the figures an
auditor reads, its rollback, the reports about it, the calculation rules, and around them the
tenants with their users and carriers and the sessions that take a request to its schema.  Paths
below are relative to `src/backend/app`; "the documentation" is
`src/documents/WC_Audit_Platform_Technical_Documentation.md`.

## 1. The system

| Component | State | Operations | Works with | What makes it correct | Here |
|---|---|---|---|---|---|
| Upload and mode lock (`api/v1/ingestion.py`, `services/ingestion_service.py`) | `ingestion_runs` | upload, look up the mode of a carrier, store the bytes | auto-mapping (call), the tables | the runs that lock a carrier have one mode | modelled |
| Auto-mapping (`services/auto_mapping_service.py`, `utils/text_utils.py`) | proposals, `ingestion_field_maps` | extract headers, five scoring passes, read and save learnt mappings | upload, approval, migrations | every header is proposed; what was learnt comes first | modelled |
| Mapping gate (`api/v1/ingestion.py`) | `field_mapping_sessions`, proposals | edit, approve, reject, save | spawns the pipeline | nothing is ingested before the approval, nothing twice; what was reviewed is used | modelled |
| Post-approval pipeline (`services/ingestion_service.py`) | five fact tables, skipped rows | load, parse and upsert per sheet, complete or fail, trigger the engine | everything, through the tables | a complete run is the whole file once; an approved run settles | partly |
| Rollback (`services/rollback_service.py`) | `ingestion_rollbacks` | validate, record, mark, delete, mark, close | the run and its rows | rolled back means gone, once, with a record | modelled |
| Cleanup (`services/cleanup_service.py`) | `cleanup_runs` | record, delete everything, complete or fail | all tables of the tenant | no row without a run | partly |
| Calculation and manual audit (`services/audit_calculation_service.py`, `run_audit`) | percentages, zero and missing rows, `risk_level` | context, zero, missing, risk, persist, narrate | fact tables written by the parsers | a figure agrees with the amounts and rows beside it | partly |
| Calculation rules, configuration, cache (`api/v1/carrier_config.py`, `core/redis.py`) | `carrier_calc_rules`, carrier and tenant configuration, two Redis entries per carrier | transitions, edits, creation, re-adding a carrier, mode resolution, rule loading, invalidation | the engine reads through the cache | what is calculated with was reviewed; locked rules stay; a stale entry dies out | partly |
| Report jobs (`services/report_job_service.py`, `api/v1/reports.py`) | `report_jobs`, objects, links | create or give out again, generate, upload, publish, fail | background task, S3, fact tables | COMPLETE means a file; jobs settle; a report is not older than its request | modelled |
| Report content and storage (`services/report_generation_service.py`, `services/s3_service.py`) | none | one query per section | fact tables | — | partly: the sections and their queries |
| Tenant provisioning and lifecycle (`services/tenant_provisioning_service.py`, `api/v1/platform.py`) | `public.tenants`, schema, account of the administrator | provision and undo, activate, suspend, delete | Keycloak, alembic | ACTIVE means provisioned; a schema that was handed over stays | partly |
| Tenant users (`api/v1/tenant_admin.py`, `services/keycloak_admin_service.py`) | `users`, accounts | create, update, delete | Keycloak | rows and accounts agree | partly |
| Carriers of a tenant (`tenant_admin.py`, `platform.py`) | `public.carriers`, `tenant_carriers`, seeded rules | create, add, assign, remove | calculation rules | added means seeded | modelled |
| Sessions and `search_path` (`core/database.py`, `tenancy/middleware.py`) | pooled connections, their path | resolve the tenant, open, commit, roll back, close | every handler | a statement runs in the schema of its request | modelled |
| Authentication and roles (`api/security.py`, `keycloak_admin_service.py`) | keys in Redis | read, fetch, store, drop keys; role and tenant | Keycloak | a good token passes, also after a rotation | partly |
| Field maps of the administrator (`api/v1/data_sources.py`) | `ingestion_field_maps` | upsert, soft delete | migrations | — | modelled |
| Schema migrations (`alembic`) | schema generations | rename, add | saved mappings | — | partly |
| Skipped rows; LLM narratives and keys; dashboards, labels, themes, policies; frontend | | | | | not modelled (section 5) |

### What is hard

Nothing in the code serialises requests.  Every handler is a coroutine that yields at each
database call, a pipeline runs as a background task for minutes, and **each reads a status in one
transaction and acts on it in a later one**.  None of the UPDATEs repeats the condition that was
checked (`_advance_status`, `_complete_run`, `approve_mapping`, `reject_mapping`, the rollback
service, `run_job`), so the last writer of a status wins.  Every handler consists of several commits
and may fail, or lose its worker, between any two of them; nothing resumes a pipeline or a report
after a restart.  Some state is outside the database (accounts, objects, cached keys and rules) and
no transaction spans it.  And the tables hold what several files say of one policy, which a parser,
the engine and a rollback each see in part.  `PROJECT.json` lists the hazards, each at its line with
the properties that cover it, or with the reason why none does: often the code does nothing against the
hazard, the model has it, and the property that it would break is stated without it.

## 2. The modules

```
RunStore              the tables of the ingestion, and what a few statements mean
  IngestionApi        upload, approval gate, pipeline
  RollbackService     rollback
  CleanupService      cleanup
    IngestionSystem   all of them over one RunStore; fairness; the properties
      MCIngestion     the instances for TLC
      IngestionProofs, OverlapProofs
RunLifecycle          what the subsystem promises of one file (abstract)

FieldMapping          headers, scores, review, learnt mappings, administrator, migrations
  MCFieldMapping
  MappingProofs

FactTables            the policies and the five fact tables, and what queries find in them
  FileParsers         the parsers, commit by commit, and what a rollback does to the tables
    AuditEngine       the calculation engine and the manual audit, step by step
      AuditFigures    all of them; the properties
        MCFigures
        FiguresProofs

CalcRules             rules, configuration, their cache and the engine runs that read them
  MCCalcRules
  CalcRulesProofs

ReportJobs            requests for reports, jobs, their tasks, the objects and the facts
  MCReportJobs
  ReportProofs

PlatformStore         tenants, schemas, users, accounts, carriers, links
  Provisioning        the life of a tenant
    TenantUsers       its users
      TenantCarriers  its carriers
        Platform      all of them; the properties
          MCPlatform
          PlatformProofs

RequestAuth           the token of a request and the keys it is checked with
  RequestSessions     tenant, sessions, pool, search_path; the properties
    MCRequestSessions
    SessionProofs
```

The same code appears in two modules where it has two sides: `IngestionSystem` has the overlaps of
uploads, approvals, pipelines and rollbacks over rows without content, `FileParsers` what those rows
say, and `FieldMapping` what an approval agrees to.

**RunStore.**  `status`, `owner` (carrier, mode, `skip_on_error`), `bytes`, `session`, `usable`
(the session has a proposal that ingestion will use), `facts`, `derived`, `skipped`, `rollbacks`.
Identifiers are sequence values and never reused; a deleted row is a row with status `"none"`
below `nextRun`.  A file is what the pipeline does with it: the number of transactions it is
committed in (one per sheet of a workbook, one for a CSV), and which of them, if any, holds a row
that cannot be stored.  `facts[r][k]` counts how often transaction `k` of the file of run `r` is
in the fact tables: a pipeline run twice would insert a second set of rows for the tables without
a unique key and touch the same rows again in the others, and either is counted as a second time.
`derived[r]` counts the `zero_payroll` and `missing_payroll` rows that the engine (not the file)
puts in.

**IngestionApi.**  One record per request, with its program counter and what it has read.

| Action | Code |
|---|---|
| `UploadCheckMode` | `upload_file`: the query for the locked mode, 409 on a mismatch |
| `UploadCreateRun`, `UploadSetSkip`, `UploadMap`, `UploadMapFails` | `IngestionServiceV4.run`: insert the run, set `skip_on_error`, map (session and proposals are committed together) or mark the run failed |
| `UploadStoreBytes` | `_store_file_bytes`, after the session is visible |
| `EditProposals`, `Reject` | `update_mapping_proposal`, `reject_mapping` |
| `ApproveCheck`, `ApproveCommit`, `ApproveSpawn` | `approve_mapping`: SELECT; UPDATE both and commit; save mappings, answer, spawn |
| `PipelineLoad`, `PipelineRead`, `PipelineStart` | proposals (raises when none), bytes, `processing` |
| `PipelineUpsert`, `PipelineBadRow` | one transaction of the file, or the row that raises |
| `PipelineFinish` | `complete` or `partial` |
| `PipelineSelectPolicies`, `PipelineCalculate` | `_trigger_calc_for_run`, after the run is complete |
| `PipelineError`, `PipelineFail`, `PipelineReport` | a failing statement, the handler of `run_post_approval`, the handler of the background task |
| `UploadAbort`, `ApprovalAbort` | the worker dies, or a statement fails where nothing catches it |

Recording a skipped CSV row binds `:rdata::jsonb`, which the text-clause parser may not read as a
parameter; the model lets the recording succeed or fail.

**RollbackService.**  `UndoRequest` is the handler's own check; `UndoValidate` the service's;
then `UndoRecord`, `UndoMarkRun`, `UndoDeleteRows`, `UndoFinishRun`, `UndoComplete`, one commit
each.  `UndoError`/`UndoFail` is the handler, which marks the record FAILED and leaves the run as
it is.  The endpoint calls the service with `token.tenant_slug` where the service wants the
schema `tenant_{slug}`; `OwnSchema = FALSE` is that call (`UndoNoSchema`), `OwnSchema = TRUE` the
service called as its docstring asks.  The other runs use the second, since otherwise no rollback
would get past its first SELECT.

**CleanupService.**  `CleanupRecord` commits the record; then one READ COMMITTED transaction:
`CleanupDeleteFacts` fixes the fact rows it sees, `CleanupCommit` ends it.  A pipeline may commit
rows in between, and these survive.

**IngestionSystem.**  `Next` is one step of one request.  The rigid variable `clients` is a set of
overlaps that happen in a behaviour, out of

| Overlap | Without it |
|---|---|
| `uploads` | no two uploads are under way |
| `approvals` | no second approval of a run between the check and the commit of the first |
| `early_approval` | a session is approved only after its upload has answered |
| `late_reject` | a session is not rejected once somebody approves it |
| `rollbacks` | no two rollbacks of one run are under way |
| `pipeline_and_rollback` | no rollback of a run while a pipeline of it is under way |
| `cleanup` | a cleanup runs alone |

A property that needs some overlap left out begins with `Without({...})`; this is the exact
assumption on the users under which the code keeps it, and everything not named may overlap.  Where a
document promises more than the assumption leaves, section 3 says so.

**RunLifecycle** says, for one file: registered, approved once, ingested whole or failed, perhaps
undone with all its rows, perhaps purged.  `IngestionSystem!Phase` and `Rows` map the tables to it.

**CalcRules** is one carrier of one tenant.  A row of `carrier_calc_rules` is named `<<key, n>>`, in
the order of `effective_from`; its expression is a model value.  Each request of `request` is made
once and in order; it may finish after a later one.

| Action | Code |
|---|---|
| `TransitionRead`, `TransitionWrite` | `_transition_rule`: SELECT and check of the status (and of `is_editable` for `deactivate`); UPDATE without a condition |
| `EditRead`, `EditWrite` | `update_calc_rule`: in place, in any status, back to DRAFT |
| `CreateRule` | `create_calc_rule`: a new DRAFT row of a key that is not locked |
| `AddCarrier` | `add_carrier_to_tenant`: default rules and configuration of the carrier |
| `UpdateCarrierConfig`, `UpdateTenantConfig` | the UPDATE of each level |
| `Invalidate` | `invalidate_calc_rules_cache` (after an approval), `invalidate_calc_config_cache` (after the carrier's configuration): `SET key "" EX 1` |
| `RequestDies` | the worker dies between two statements |
| `EngineStart`, `EngineConfigHit/Miss/Query/Fill` | `resolve_effective_mode`: override of the run, Redis, tables, Redis |
| `EngineRulesHit/Miss/Query/Fill` | `load_rules`: Redis, the newest ACTIVE row of each key over the defaults, Redis |
| `ExpireConfig`, `ExpireRules` | the time to live of an entry |

The rigid variable `events` says what happens in a behaviour:

| Event | Without it |
|---|---|
| `rules`, `config` | no request to the rules, to the configuration |
| `override` | no run has a mode of its own |
| `re-add` | the carrier is not added again |
| `overlap` | a request on a rule begins when no other is between its SELECT and its UPDATE |
| `stale_fill` | nothing is committed while a reader is between its SELECT and its SET |
| `tombstone` | no run reads the configuration in the second after an invalidation |
| `failures` | Redis answers and no worker dies |

Facts of the code the model shows: only the newest ACTIVE row of a key counts, and an edit of it
puts the one before (or the default) in force until it is approved again, where the documentation
(1183) says it stays in force; `effective_to` is never set; the defaults that the engine uses for
a key without a row are not what onboarding stores; the tenant's configuration is never consulted
once a carrier has been onboarded with a row of its own.


In the modules that follow a rigid variable `scenario` plays the part of `clients` and `events`: it is
one of the constant `Scenarios`, a record of what is asked for and of what else happens, and a
property that needs something left out says which event.

**FieldMapping.**  `column` is the generation of `ingestion_field_maps` (created with
`canonical_column`, then flagged with `is_active`, then renamed to `target_column`), `maps` and
`active` its rows, `session[s]` an upload with its session.  `learnt` is a history variable: what was
last approved, whether or not the table took it.

| Action | Code |
|---|---|
| `CreateRun`, `LoadSavedMappings`, `Persist` | `IngestionServiceV4.run` with `AutoMappingService`: the run is committed, `_load_saved_mappings` (a failed read is rolled back and the path set again), then `ExtractFields` and `ScoreAllFields` into session and proposals |
| `ExtractFields` and its four cases | the header extraction of each format; `KindIn` is the type inferred from the sample |
| `ScoreField` | the passes: learnt, alias, the column's own name, likeness with a compatible type, likeness alone |
| `UpdateMappingProposal`, `ApproveMapping`, `RejectMapping` | the three handlers of the review |
| `SaveApprovedMappings`, `LoadApprovedProposals` | `_save_approved_mappings`; the pipeline's read of the proposals |
| `BulkUpsertFieldMaps`, `DeleteFieldMap`, `Migrate` | `data_sources.py`; migrations 0006 to 0008 |

A header is known by its place, a pair of a sheet (or section) and a column: a file may repeat a header,
and `ExtractFields` says at which of its places it is proposed.  How like two names are is the constant
`Shape` (difflib and the tables of aliases).  The SELECT of `SaveApprovedMappings` has no ORDER BY: of two
sure proposals for one field (a doubled header, corrected apart) either may end in the table.

**FactTables, FileParsers, AuditEngine, AuditFigures.**  A row of `premium_variance` keeps, beside the
code's columns, the run each amount came from (`estFrom`, `actFrom`), for the properties only.  The
synthetic rows with run ids `-(run_id * 1000 + i)` are the number `periods` beside the row of the run.
`PeriodRows` says for which further reports one is written: `eff_dt.replace` raises for a month that does
not have the day of the effective date, and that row is passed over.
Each table is a function of the policy and the run; a table without a unique key gets a number of rows.
`DetectZero` reads the classes and inserts in one step, where the code fetches first: with `overlap` a
rollback could come between, and no property about what a rollback leaves is stated with it.

| Action | Code |
|---|---|
| `ParsePolicy`, `ParseRows` | `_ensure_policy` and the rows of one sheet: `ParseDetail`, `ParseAuditClasses`, `ParseSummary`, `ParsePremium`, `ParseXml`, `ParseList`, chosen by `Route` |
| `ClearPeriods`, `WriteSummary`, `WritePeriods`, `WritePremium` | the commits of a structured audit report, and the premium of a payroll detail sheet |
| `Finish`, `ParseFails` | `_trigger_calc_for_run` finds the policies; a failing statement |
| `UndoStart`, `UndoRows` | rollback |
| `AuditStart` | `run_audit` |
| `ReadContext`, `DetectZero`, `DetectMissing`, `UpdateRisk`, `Persist` | the steps of `AuditCalculationService.run` for one policy |
| `Narrate`, `EngineFails` | the narratives of `run_audit`; an exception in a policy |

**ReportJobs.**  One record per request of `generate_report`, which is also its background task.  `jobs`
is the table, `s3` what the object of a job shows (pairs of a section and a run), `facts` and `removed`
the runs with rows and the runs rolled back.

| Action | Code |
|---|---|
| `Ask`, `Find`, `Insert`, `CreateError` | `validate_report_request`; `create_job`: the newest young COMPLETE job or a new one; a statement of it raises |
| `StartError` | a statement of `run_job` before its `try` raises: no handler, and the job stays as it is |
| `Start`, `ReadSection`, `Upload`, `Publish` | `run_job`: PROCESSING in any case, one query of the generator each, upload and signature, COMPLETE |
| `TaskError`, `MarkFailed`, `MarkError` | the handler of a failed job, and its own failure |
| `Ingested`, `RolledBack`, `Tick`, `Crash` | the ingestion, the clock, the worker |

**PlatformStore, Provisioning, TenantUsers, TenantCarriers, Platform.**  One record per request of
several steps; calls of one statement are actions of their own.

| Action | Code |
|---|---|
| `AskTenant`, `InsertTenant`, `CreateSchema`, `Migrate`, `Seed`, `SeedCarriers`, `PostAccount`, `PostLost`, `GrantRole`, `Finish` | `create_tenant` and `provision_tenant` |
| `ProvisionError`, `DropSchema`, `MarkDeleted` | its handler |
| `DeleteTenant`, `ActivateTenant`, `SuspendTenant` | `platform.py` |
| `AskUser` .. `InsertRow`; `FindRow`, `Disable`, `Deactivate`; `UpdateUser` | `create_tenant_user`; `delete_tenant_user`; `update_tenant_user` |
| `AskCarrier`, `CheckCarrier`, `InsertCarrier`, `Link`, `SeedCarrier` | `create_and_assign_carrier`, `add_carrier` with `add_carrier_to_tenant` |
| `RemoveCarrier`, `AssignCarrier`, `CreateCarrier` | one statement each |
| `ServerStops` | the worker dies |

**RequestAuth, RequestSessions.**  A handler is its sequence of statements, commits and rollbacks
(`Program`); four shapes stand for all handlers.  `free` is the pool in the order its connections are
given out, `path` the `search_path` each keeps.  `Resolve` is `TenantMiddleware`; `Open` and
`OpenPublic` are `get_db` and `get_public_db`; `Commit` gives the connection back and `Rescope`, the
override of `_TenantScopedSession`, takes one and sets the path; `Rollback` gives it back and sets
nothing; `Close` ends the session; `PoolTimeout` is the limit of 30 seconds.  The raw `ROLLBACK` of
`get_db` leaves the driver's transaction, so that until the first commit every statement is committed
by itself (`txn = "auto"`).  `ReadKeys`, `FetchKeys`, `StoreKeys` and `DropKeys` are `verify_token`,
`Rotate` and `KeysExpire` what Keycloak and Redis do.  With `failures` Redis may fail to read or to store
the keys, with `delete_failures` to drop them; `verify_token` goes on in each case.

## 3. Properties and runs

In the runs with `CHECK_DEADLOCK FALSE` the system rests when every request of the instance has been
served, and nothing obliges a client to send another; that nothing under way is left hanging is what
`fair`, `reports` and `sessions` check.  In `calc` the engine may always run again, and deadlock is
checked.

| Run | Instance | Properties |
|---|---|---|
| `approvals` | 1 run, workbook / bad workbook / bad CSV, 2 approvals, 1 rollback, every failure | `TypeOK`; `GateInv`: pending means untouched; `RowsComeFromApprovals`: each transaction at most once per committed approval; `RollbackIsRecorded`; `CompleteExactlyOnce` |
| `rollbacks` | 1 run, 2 rollbacks, 1 cleanup, failing rollbacks | `RolledBackIsClean`, `OneRollback`, `NoOrphanRows`, each under all overlaps it allows |
| `refine` | 2 uploads of a workbook in either mode, 1 approval, 1 rollback, 1 cleanup, no overlap, every failure | `ModeLock`; `RefinesLifecycle`: the subsystem implements `RunLifecycle` |
| `fair` | 1 run, 2 approvals, 1 rollback, no failure | `ApprovedRunSettles`, `RollbackSettles` whatever overlaps; `RollbackServed` without interference |
| `mapping` | 2 uploads, 3 pairs of the formats, 2 corrections each, 3 generations of the table, 23 scenarios | `UploadIsReviewable`: every header is proposed, whatever fails in reading the learnt mappings; `ReviewedIsUsed`: the parsers get what was approved; `LearntIsProposed`: what was last approved comes first |
| `figures` | 3 files over 2 policies, 11 triples and 3 pairs of files, a report from the 31st on among them, audit, rollback, failures, overlap, 91 scenarios | `RollbackForgets`; `RiskIsCurrent` without failures, rollbacks and late audits; `ReceivedMatchesReport` without failures and rollbacks and, for a monthly report, with a day that every month has; `PctMatchesAmounts` without late audits, and without audits after a failure |
| `calc` | 1 editable and 1 locked key with 2 rows each, 4 requests, an engine run that repeats, five sets of events | `TypeOK`; `LockedInForce`; `ActiveWasReviewed`, `EngineUsesReviewed` without `overlap`; `ApprovalIsServed` without `stale_fill`, `failures`, `re-add`; `OffWasConfigured` without `tombstone`; `CachesConverge` |
| `reports` | 3 requests for 2 reports, 1 run, a window of one tick and a clock of two, 4 scenarios | `CompleteHasFile`; `FailedHasNoLink`; `OneJobPerWindow` without `overlap`; `ReportIsFresh`; `JobsSettle`: a job ends unless a task or a request of it has died or its last UPDATE failed |
| `platform` | 3 requests, 2 slugs (one with a hyphen), 2 people, 1 carrier | `ActiveIsProvisioned` without `early_activation`; `SchemaSurvives`; `RowsMatchAccounts`; `NoOrphanAccounts` without failures; `AddedIsSeeded` |
| `sessions` | 3 requests of 2 tenants, 2 connections, 2 keys, 4 scenarios | `OwnSchema`; `GoodTokenAccepted`, with a rotation only without `overlap` and `delete_failures`; `RequestsEnd` |
| `doc_received` | the instance of `figures` | `ReceivedIsSubmitted` is violated (below) |
| `doc_rollback_schema` | the endpoint's own call of the rollback service | `RollbackServed` is violated (below) |

Why these bounds are enough to meet the cases.  The ingestion properties are about one run (and, for
the lock, about the lowest run of a carrier and another one).  Two approvals and two rollbacks are
what a race takes; two transactions are the least in which a file can be partly ingested; one failure
of each request is reachable at every commit.  For the rules, putting an expression in force takes an
edit (or a creation), a submission and an approval, and the fourth request is the one that interferes;
two rows of a key are what the choice of the newest takes; one engine run that repeats meets every
state of the cache, since another one would only fill it.  Of uploads, the second is the one that is
given what the first has taught; corrections before and after an approval take two.  Of files, the
figures of a policy are made of at most a report, a payroll and a premium file, so three files in each
order of interest meet every overwriting; the second policy is there for the files that name two, and
`Today` and `TermDays` make three monthly periods of which one is due and one is not.  Reports: the
first request makes a job, the second is given it, the third interferes.  Platform: one request to
make a tenant, one to interfere and one to retry.  Sessions: two connections for three requests are
the least with which a request that holds one waits for another while a third takes what comes back.

`RunLifecycle` is also where the project records what the code does *not* promise: a failed run
keeps the rows committed before its failure, and `Fail` may follow `Finish`, since an error in
`_trigger_calc_for_run` turns a complete run into a failed one.

**Fairness.**  Weak fairness of the steps of each request that has begun (`UploadStep`,
`ApprovalStep`, `UndoStep`, `CleanupStep`; `Step(q)` in `ReportJobs` and `RequestSessions`): asyncio
resumes a coroutine whose await is done, and each await is of a database that answers.  No client is
obliged to send a request and no failure is obliged to happen.  In `RequestSessions` a request that
waits for a connection goes on because the pool gives up after 30 seconds, which is one of its steps;
`RequestsEnd` would not hold without it.  `CalcRules!FairSpec` assumes the same of its requests and of
the engine runs that have begun, and that Redis drops an entry in the end (every entry is stored with
EX).  With failures an approved run need not settle: nothing restarts a pipeline whose worker died, so
its liveness is stated for `Faults = FALSE`.  `JobsSettle` holds with all failures, since it says which of
them leave a job as it is: a stop of the server, a statement of `create_job` or of `run_job` before its
`try` that raises, for which there is no handler, and a database that does not take the status of a
failed job.

### Where documentation and code differ

`PROJECT.json` has two findings.  `doc_rollback_schema`: the endpoint calls the rollback service with
`token.tenant_slug` (`ingestion.py:1308`) where the service reads `{schema}.ingestion_runs` of
`tenant_{slug}`, so that the request fails and the run stays complete; the documentation (1205, 1206)
says its rows are deleted and the run is `rolled_back`.  `doc_received`: "Write one synthetic row per
additional submitted period so "Received" count in the UI matches actual_subs_from_file"
(`services/ingestion_service.py:786`), while for a monthly report effective on the 31st of January the row
of February is lost to the exception of `eff_dt.replace`, which is logged; the run completes, and the engine
counts two reports where the file says three.

Other promises fail under what the assumptions of the properties leave out.  They follow from the
model, each with the event or the overlap that shows it when it is added to the property's own:

| Says | Does | Assumption |
|---|---|---|
| "To switch modes, roll back all existing runs first." (`ingestion.py:158`) | rolled_back runs keep the lock; only failed ones do not count | the statuses `ModeLock` counts |
| "ingestion does not proceed" after a rejection (documentation, 1156) | a rejection stops no pipeline | `late_reject` |
| not "silently producing 0 rows" (`ingestion.py:246`) | an approval before the bytes are stored completes the run empty | `early_approval` |
| "never re-seeded, never duplicated. Existing rule edits are preserved." (`tenant_provisioning_service.py:231`) | the unique constraint includes `effective_from`: adding a carrier again inserts a newer ACTIVE row for every key | `re-add` |
| "three-level resolution" (`audit_calculation_service.py:244`) | the empty string an invalidation leaves is a hit and is not `"true"`: a run in that second is skipped | `tombstone` |
| approval "caches HIGH-confidence mappings" for "future Pass 1 hits" (`ingestion.py:432`) | every tenant schema is brought at once to `target_column`, while `auto_mapping_service.py:865` and `ingestion.py:611` name `canonical_column`: nothing is saved or read in a deployed schema, and both errors are passed over | `column = "canonical"`, which is `Readable` |

Overlapping uploads give a carrier runs of both modes (`ModeLock` needs `uploads` left out);
overlapping rollbacks are both IN_PROGRESS (`OneRollback`, `rollbacks`); two overlapping approvals both
spawn a pipeline (`CompleteExactlyOnce`, `approvals`); an edit between the two statements of an approval
is put in force unreviewed (`ActiveWasReviewed`, `overlap`); a correction after an approval reaches the
parsers (`ReviewedIsUsed`, `late_edit`); two identical requests for a report make two jobs
(`OneJobPerWindow`, `overlap`); a rotation while another request stores the keys it fetched before
refuses a good token (`GoodTokenAccepted`), and so does a rotation when Redis fails in the DELETE of the
cached keys, which is passed over (`delete_failures`); after a rollback the next statement of a handler may run in
the schema of another request (`OwnSchema` leaves out the handlers of kind `fallback`).

Facts of the code the models keep, without a run of their own:

- *Mapping.*  `is_active` is ignored by the automatic mapping, and the administrator's field maps are
  never used by it.  A correction keeps its confidence, so what was corrected from LOW or MEDIUM is
  never learnt.  A blank header of a CSV file shifts the samples of the headers after it; a header of
  an audit report without a value is proposed again by the next section.
- *Figures.*  The payroll of an audit report is prorated by the parser and again by the engine.  A
  CSV detail file never sets `actual_premium`.  A premium that is written into the row of an older run
  starts no engine, and a manual audit then assesses the risk without a variance.  `run_audit` asks no
  status and runs the engine for the first policy only.  A period that is not yet due counts as
  missing.  The INSERT into `missing_payroll` names columns the table does not have; so does the note
  for an officer, whose rollback takes the risk with it.  The seeded threshold 30 is compared with a
  ratio, which is 3000 %; both values are in the run.  The seeded key is `zero_payroll_flag`, the
  engine asks for `zero_wages_flag`.
  An audit report without a date fails when it writes its summary, after it has changed the frequency and
  cleared the received periods of the report before it: the policy is left with none, and with a risk
  that was assessed of the old ones.  An audit of the last complete run, after a later file has failed,
  stores its percentage in the row of the failed file.
- *Rules.*  Only the newest ACTIVE row of a key counts, `effective_to` is never set, and the engine is
  triggered in the display-only mode as well.
- *Reports.*  A job given out again is generated again; its window counts from the first request, the
  life of its link from the last signature.
- *Platform.*  A failed provisioning keeps the slug and the account of the administrator.  A slug with
  a hyphen cannot be provisioned (the schema is not quoted in one SET, `tenant_provisioning_service.py:432`).
  `assign_carrier` leaves a removed carrier inactive (`DO NOTHING`).  `update_tenant_user` changes the row
  and not the account.  `update_tenant` fails on every call: `:config::jsonb` is not read as a parameter.
- *Pipeline.*  `skip_on_error` reaches only the CSV parser (`RunStore!Tolerates`).

## 4. Proofs

All theorems are about `Spec` (of `IngestionSystem`, `FieldMapping`, `AuditFigures`, `CalcRules`,
`ReportJobs`, `RequestSessions` or `Platform`) for all values of the constants: any number of runs, files,
policies, requests, connections, keys and people, with failures or without.  Every invariant and action
property that a run checks is the statement of a theorem.  Where a property begins with `Without(...)` or names an event, the
theorem states it as the run checks it, so the assumption is the property's and not the theorem's.  Few of
the properties are inductive as they stand; what each needs is given in brackets, by the names of the
definitions in the module of the proof.

**Ingestion** (`IngestionProofs` up to `RowsHaveRuns`, `OverlapProofs` the others)

- `TypeCorrect`: `[]TypeOK`.  [`TypeInv`: a request past its INSERT knows an identifier of an existing
  row; without it, closing a rollback record would be an update outside the table.]  `ClientsInductive`:
  the overlaps allowed by `clients` are the only ones that happen, which is what the later proofs use.
- `GateHolds`: `[]GateInv`.  [`GateIInv`: a run whose upload has not created its session is `Unseen` (no
  session ever, no approval, no rollback), so are the runs to come, and no two uploads have the same
  run.]  `OnlyRunKeepsGate` carries most steps: a request past the gate touches one run, which is not
  `Untouched`.
- `RollbacksAreRecorded`: `[]RollbackIsRecorded`.  [The record of a rollback under way is there as long as
  its run is, and a run deleted by a cleanup does not come back.]
- `RowsAreAccounted`: `[]RowsComeFromApprovals`, by counting: the set of approvals that account for a
  transaction grows by one element in the step that commits it and never shrinks.  [A pipeline that
  has not begun is at its first transaction.]
- `RollbackIsUnique`: `[]OneRollback`.  [`OneRollbackIInv`: two requests never write one record
  (`RecordsDistinct`), the record of a request under way is open (`RecordsOpen`), only the newest record of
  a run is live (`LiveIsLast`), and a run that passed the service's check has no live record
  (`ValidatedNoLive`).]
- `RowsHaveRuns`: `[]NoOrphanRows`.  [`OrphanIInv`: an upload, a pipeline and a row each belong to a run that
  exists (`UploadsOwned`, `PipelinesOwned`, `OwnedRows`), and a cleanup that runs alone has marked all the
  rows there are when it commits (`AllMarked`).]
- `RolledBackStaysClean`: `[]RolledBackIsClean`.  [`CleanIInv`: a rollback that is about to mark its run has left
  nothing of it (`MarkingClean`), and no pipeline is left that could write rows of a run that is rolled
  back (`UndoneClean`).  With `GateIInv` it follows that only `pipeline_and_rollback` has to be left out:
  neither a second rollback nor a late approval brings rows back.]
- `CarrierHasOneMode`: `[]ModeLock`, also with the early approvals, the overlapping rollbacks and the
  overlapping cleanups that the run `refine` does not have.  [`LockIInv`: beside the property (`SameModes`), what an upload has
  read before its await is still so when it inserts (`CheckedModes`).  It holds only if a failed run,
  which does not hold the lock, never comes to hold it again (`FailedStays`), and that needs that no
  second approval of a run gets past its check (`OneApproval`) and that a complete run was approved
  (`ApprovedIInv`).]
- `CompleteRunsAreWhole`: `[]CompleteExactlyOnce`.  [`OnceIInv`: every upload has a run of its own
  (`RunsUsed`); its file is stored once it has answered (`FilesStored`) and is the one the pipeline
  reads (`FilesRead`); nothing of it is in the tables before the first transaction (`EmptyBefore`), and the
  transactions before the next one are there once (`UpsertedOnce`); nobody ingests a run that is complete
  or being rolled back, and the rows that are deleted are not those of a complete run (`IngestedIsLeft`,
  `DeletingMarked`), which is whole (`IngestedWhole`).]

**Refinement** (`OverlapProofs`)

- `SystemImplementsLifecycle`: `Spec /\ clients \subseteq {"uploads"} => RefinesLifecycle`.  Each action
  of the five kinds of request is mapped to a step in the life of its run or to a stutter (`UploadLives`,
  `RequestLives`, `ApprovalLives`, `RollbackLives`, `CleanupLives`).  That needs the invariants above and
  `StatusIInv`: the status of a run at each point of a pipeline (`PipelineStatus`) and of a rollback
  (`UndoStatus`), that every run was inserted by an upload (`RunsUploaded`), and that a run leaves the gate
  by an approval or by failing (`LeftApproved`).  The theorem is stronger than the run `refine`, in which
  not even uploads overlap, no row of a file is bad and a run is approved and rolled back by one request
  each.  The condition is needed: with two approvals, say, a file is ingested
  twice, which the life of a run does not know.
- `CalmRunsAreWholeOrNothing`: under the same condition `[]Lifecycle!WholeOrNothing`, an invariant proved of
  `RunLifecycle` (where with `LifecycleTypeOK` it is inductive) and carried over by the refinement.

**Mapping** (`MappingProofs`)

- `MappingTypeCorrect`: `[]TypeOK`, which says that a session has one proposal for each place that was
  extracted.
- `UploadsAreReviewable`, `ReviewedMappingIsUsed`: `[]UploadIsReviewable` and `[]ReviewedIsUsed`.
  `LearntMappingIsProposed`: the action property `LearntIsProposed`.  [`MappingIInv`: what was loaded was
  loaded in the tenant's path and is what was promised (`Loaded`); proposals keep their places and fields
  through every correction, and only a session in review is PENDING_REVIEW (`Proposing`); without late
  edits what the pipeline will read is what was approved (`Agreed`); while it can be read and nothing
  fails, the table is what was learnt (`Learning`).]  Beside it the lemmas about the extraction:
  `EveryHeaderIsExtracted` and `OnlyDoubledTwice` say of each format, for any file, that no header is lost
  and which ones come out twice; the first place of a header exists by the well-foundedness of `<`.

**Figures** (`FiguresProofs`)

- `FiguresTypeCorrect`: `[]TypeOK`.  [`TypeInv`: a task past its start knows its run, and between the steps
  of a policy that policy is one of its own (`TaskKnown`); a run that has begun has a file.]  Maxima are of
  finite sets that are not empty: the newest and the latest premium row and the last summary are looked for
  only where there is one.
- `RolledBackIsForgotten`: `[]RollbackForgets`.  [`Housed`: a run has rows of a policy only if its file names
  it and if it has begun and was not rolled back, whatever else happens: `UndoRows` empties all that the
  run has, no parser goes on after it, and a task or an audit of the run then only completes rows that
  are there or copies those it finds.]
- `RiskStaysCurrent`: `[]RiskIsCurrent`.  [`Base`: runs begin in order, and before its last commits a run has no
  premium row.  `Calm`: without overlap one pipeline, rollback or task moves at a time, and the file that is
  parsed is the last (`Alone`).  `Timely`: a task is of the newest run and of policies of its file
  (`Placed`), and what it has read of a policy is still true when it writes (`Informed`).  `Current`: once
  the last file of a policy is complete its risk is up to date or its task is still to write it.]
- `ReceivedIsReported`: `[]ReceivedMatchesReport`, by counting.  [`Tallied`: from the step in which the last
  report of a policy clears the synthetic rows until it writes its own there are none, and from then on
  they are as many as it says, all beside its own row; the files between two reports have none.
  `PeriodRowsAreAll`: a day up to the 28th is in every month, so no row is passed over.]
- `PercentagesMatchAmounts`: `[]PctMatchesAmounts`.  [`Written`: without overlap the rows of a policy are
  numbered in the order of their runs (`Numbered`), without failures a failed run has none (`FailedEmpty`),
  without audits every task is of a pipeline (`NoAudits`): so the newest row, into which the engine writes,
  is the one it has read (`NewestIsOwn`), and a file that changes an amount of another's row leaves its
  mark there.]

**Rules** (`CalcRulesProofs`)

- `CalcTypeCorrect`: `[]TypeOK`.  That the rules in force have a value for each key takes the existence of
  a greatest element of a set of row numbers (`GreatestExists`, from the well-foundedness of `<`).
- `LockedRulesHold`: `[]LockedInForce`, for all events.  [`LockedIInv`: no request between its SELECT and its
  UPDATE is about a locked row (`NoneOnLocked`), since a locked row is ACTIVE and not editable, and the cache
  holds for a locked key only what was seeded or the default (`LockedCache`).]
- `ActiveRowsWereReviewed`, `EnginesUseReviewed`: `[]ActiveWasReviewed`, `[]EngineUsesReviewed`.  [`ReviewIInv`:
  nothing happens to a row between a SELECT and its UPDATE (`OneReader`); a row in PENDING_REVIEW has the
  expression that was submitted, an ACTIVE one the seeded or the approved one (`Reviewed`); Redis and what a
  run has read hold only expressions that were approved, seeded or the default (`KnownOnly`).]
- `ApprovalsAreServed`: `[]ApprovalIsServed`.  [`ServedIInv`: only rows that were made can be approved
  (`RowsMade`); what an engine run is about to store is in force, and a cached expression of an approved
  key is the approved one unless an approval has still to invalidate the cache (`Served`).]
- `EngineOffWasConfigured`: `[]OffWasConfigured`.  [`OffIInv`: what is off in a table, in Redis or in a run was
  told so by somebody (`OffWasTold`).]

**Reports** (`ReportProofs`)

- `ReportTypeCorrect`, `CompleteJobsHaveFiles`, `FirstFailuresHaveNoLink`: `[]TypeOK`, `[]CompleteHasFile` and
  `[]FailedHasNoLink`.  [`Links`: a link was written by a request that ended with it, a failure by a request
  that failed, and a task about to publish has stored its object.]
- `OneJobInAWindow`: `[]OneJobPerWindow`.  [`WindowIInv`: one request at a time (`Alone`); a request about to
  insert has found nothing (`NoneFound`); jobs of one report that are COMPLETE, or that a task will complete, are more than a
  window apart (`Apart`).]
- `CompleteReportsAreFresh`: `[]ReportIsFresh`.  [`FreshIInv`: what a request saw removed before it asked is
  absent from the facts (`GoneFirst`), hence from what its task reads (`Unread`, `ReadFresh`), from the
  stored object (`StoredFresh`) and from the object of a job given to a later request, whose task
  generates it again (`SharedKnown`, `LaterFresh`).]

**Sessions** (`SessionProofs`)

- `SessionTypeCorrect`, `OwnSchemaHolds`: `[]TypeOK` and `[]OwnSchema`, for all events.  [`PoolInv`: a connection
  is in the pool once or with one request (the lemmas about `In` and `Distinct` say what taking one and
  giving one back do to the pool), so nobody changes the path of a connection that another request
  holds (`RequestStepKeepsScopes`).  `Scoped`: up to the last statement of its program a request holds a
  connection whose path is its tenant; `ProgramFacts` says at which instructions of which kind of
  handler that is needed.]
- `GoodTokensAreAccepted`: `[]GoodTokenAccepted`.  [`TokenIInv`: a token is signed with no key to come, a
  request that stores keys stores the one of its token, and one that asks a second time has dropped the
  entry, so that it fetches (`AskedAgain`); if requests do not overlap nobody stores older
  keys in between (`Lone`) and, if no DELETE fails, the entry is gone; and without rotations there is one key.]

**Platform** (`PlatformProofs`)

- `PlatformTypeCorrect`: `[]TypeOK`.
- `SchemaOutlivesTenant`: `[]SchemaSurvives`.  [`ProvisionIInv`: a request is at a step of its own operation
  (`OpsMatch`), a slug has one provisioner (`OneProvisioner`), and past the seeding, up to its answer,
  the schema is seeded (`SeededFirst`).  A second `create_tenant` of a slug is refused before it reaches the
  handler that drops the schema.]
- `DatabaseMatchesProvider`: `[]RowsMatchAccounts`.  [`AccountIInv`: a request between the account and the
  row holds the account and nobody else does (`AccountHeld`); one between `Disable` and `Deactivate` has disabled it
  (`Disabling`).]
- `ActiveTenantIsWhole`, `AccountsHaveRows`, `AddedCarrierIsSeeded`: `[]ActiveIsProvisioned`,
  `[]NoOrphanAccounts`, `[]AddedIsSeeded`.  [`PlatformIInv`: the administrator of a provisioned tenant keeps row
  and account (`AdminKept`), and nobody works in a tenant before its provisioning has answered
  (`AnsweredFirst`).]

Assumptions: `RulesAssumption`, `StoreAssumption`, `ApiAssumption`, `UndoAssumption`, `CleanupAssumption`,
`ClientAssumption`, `MappingAssumption`, `FactsAssumption`, `ReportAssumption`, `AuthAssumption` and
`PlatformAssumption`, which say no more than what
the constants are (of `AuthAssumption` the proofs need that the connections are finitely many and that
`NoConn` is none of them); every run evaluates those of its modules.

Only model-checked: liveness (`ApprovedRunSettles`, `RollbackSettles`, `RollbackServed`, `CachesConverge`,
`JobsSettle`, `RequestsEnd`), since the proof system has no rules for ENABLED, on which fairness rests.

## 5. What is left out

- What a parser reads in a cell, employees, class variance, and how like two names are: data that no
  property tells apart.  The upsert of the audit report also updates policies of earlier runs.
- Rules other than the seeded ones in `AuditEngine`: an edited expression is evaluated by `simpleeval`,
  out of a model checker's reach; that the right expression is chosen is `CalcRules`.
- Error rows, audit logs, cost records.  Skipped rows: `correct`, `reingest` and `dismiss` mark one row
  and nothing reads the mark; a correction fails at its `::jsonb` bind.
- Of the rules: the scope of a carrier user (it refuses, or changes nothing), `is_active`, the fallback
  to ON for a tenant without a configuration row (provisioning inserts one), the history table, which no
  migration creates.
- Claims and signatures of a token, and passwords: external.
- LLM configuration and narratives: a chain of providers asked one after the other, with no state but a
  cost record.  That a narrative or its fallback is written is `AuditEngine!Narrate`.
- Dashboards, labels, themes, data-source records, policies: queries and updates of a single row that
  nothing else reads back.  Policies, policyholders and report jobs in the cleanup.
- Figures and layout of a report; the frontend, whose order of calls is what `clients`, `events` and
  `scenario` leave out or let in.

## 6. Plan

Done: the ingestion, its mapping and figures, the rules, the reports, the platform and the sessions;
the proofs of all safety properties and of the refinement.  Next: the parts of the cleanup that are left
out, composed with `FactTables` and `ReportJobs`.
