# Verification of KAATS: TLA+ models, model checking and proofs

KAATS (`src/`) is a multi-tenant service that turns requirements into test
scripts with a language model, lets people review and export the scripts, and
records their execution in test cycles. This directory holds TLA+ models of its
stateful parts, TLC configurations that check them on small instances, and
proofs, checked by TLAPS, of the safety properties for instances of any size.

Contents: 1 the system, 2 the models, 3 the runs, 4 what the code does not do
although the repository says so, 5 bounds, 6 fairness, 7 proofs, 8 what is not
modelled, 9 plan.

## 1. The system

Two generations of the program share the repository. `src/backend` is the
current one: a FastAPI process, worker replicas, Azure SQL, Cosmos DB, Blob
Storage and Service Bus. `src/app` is the older "bundle" application: FastAPI
with server-rendered pages, Celery and one SQL database. `src/frontend` is a
React client of the first.

| Component | State it keeps | Operations | Interacts with | Hard behaviour |
|---|---|---|---|---|
| Generation job API (`services/ai_generation_service.py`, `routers/ai_generation.py`) | a row of `jobs`: status, result pointer | create, read, cancel | publishes to Service Bus before its own transaction commits | message without row, cancellation against completion |
| AI job worker (`worker/service_bus_worker.py`) | where a replica is in a message; documents, indexes, script rows, requirement marks | consume, handle, settle | peek-lock on the topic; SQL in one transaction per helper; Cosmos DB upserts; Azure OpenAI | crash or exception between any two writes, redelivery, two replicas on one job, shutdown |
| Service Bus (external; `services/servicebus_service.py`, Bicep) | ready, locked, settled messages and their delivery count | send, receive, complete, abandon, dead-letter | API and workers | lock expiry, at-least-once delivery, delivery limit |
| Requirements (`services/requirement_service.py`) | rows of `requirements` | upload, edit, delete, generate-scripts | creates jobs; the worker marks rows PROCESSED | publication failure is swallowed; deletion under a running job |
| Test cycles (`services/test_cycle_service.py`, `routers/test_cycles.py`) | cycles, assignments, results, evidence | create, edit, activate, close; assign, log, submit; upload evidence | one transaction per request; Blob Storage | lost updates between read and commit, two first submissions, file and row in two stores |
| Script review (`services/test_script_service.py`) | a Cosmos DB document: status, version, approver, content | create, edit, submit, approve, reject, delete | the worker upserts the same documents | read, modify, replace without an ETag |
| Export (`services/export_service.py`, `exporters/`) | a file per script and format, a ZIP per bulk export, in Blob Storage | one script, many, a cycle | SQL row and Cosmos DB document of a script, Blob Storage | the document is replaced meanwhile, files are overwritten, another export writes the same path, failures are swallowed script by script |
| AI chains and client (`ai/`) | a cache per process, for an hour | judge, write test cases, write and validate scripts, retry | the worker; Azure OpenAI | a cache shared by jobs and tenants, retries, partial results per format |
| Crawl jobs (`services/crawler_service.py`, `_handle_crawl_job`) | `crawl_jobs`, `crawled_pages`, the crawl map | start, cancel, crawl, store, generate | Service Bus, SQL, Cosmos DB, crawlers | the same as a generation job's, with the status kept in a table where the job has no row |
| Crawlers (`crawler/`) | queue, visited set, pages, edges of one crawl | authenticate, visit, persist a batch | browser, SQL | duplicates and failures in the queue, limits, batches saved again, calls to a page that never return |
| Tenant isolation (`database.py`, `dependencies.py`) | session context of pooled connections | begin and end a request | row-level security | context left on a connection, waiting for a connection |
| Authentication and users (`auth/`, `middleware/rbac.py`, `routers/auth.py`, `services/user_service.py`) | rate windows, failures, signing keys; users and roles | validate, provision, authorize, exchange, invite, assign, revoke | identity provider, pool | shared key cache, first login against invitation, roles revoked under way |
| Projects, reports, tenants | rows edited one at a time | CRUD | | none that a model would add to |
| Legacy exploration (`src/app/worker/tasks.py`) | rows of pages and elements | explore | browser | a commit per statement, tasks that die, explorations at once |
| Legacy bundles (`tasks.py`, `routes/`, `rtm.py`) | bundles, tests, steps, approvals, runs, results, evidence files | generate, extend, edit, approve, execute, report | Celery task, browser | edits under a run, files replaced, variables of an earlier step |
| Legacy administration (`routes/ui.py`) | accounts and roles | create, activate, deactivate, change roles | who may explore | the last administrator under two requests |
| Frontend | view state | polling | API | relies on final statuses being final |

What makes each correct, in the order the plan takes them:

* **Generation.** A client that sees COMPLETED finds the results that nobody has
  deleted since; what one attempt wrote never contradicts another;
  a requirement is PROCESSED only with a script to show for it; each message is
  settled and no replica handles a message for ever.
* **Test cycles.** A locked cycle stays locked; two testers do not silently
  overwrite each other; an execution's status and its result agree; evidence
  rows lead to files.
* **Script review.** What is approved is what was reviewed; approval is recorded
  with the approver; a transition is never undone by another request's copy.
* **Export.** An archive accounts for every script asked for; a link serves nothing older
  than the exports that were under way with its own.
* **AI pipeline.** What is stored was written for the requirement as far as the
  cache can tell, passed the checks there are, and no requirement is kept for ever.
* **Crawling.** A crawl is breadth first, leaves nothing out but for a limit or a
  failure, saves what it found and ends; the stored map agrees with the rows; the
  message of a crawl is settled.
* **Access.** A request works on rows of its own tenant, with a role it had, on the
  strength of a key that is still valid, and is answered.
* **Legacy application.** Evidence belongs to its step; the matrix tells the
  verdict of the run; exploring again replaces; one administrator stays active.

`PROJECT.json` lists the hazards behind these, each at its line.

## 2. The models

### JobLifecycle

The abstract specification: what a client that polls a row of `jobs` may rely
on. A row appears PENDING, once; its status then moves among PROCESSING, FAILED
and CANCELLED in any order, or to COMPLETED together with a result pointer; it
never leaves the table or goes back to PENDING, and a result pointer is never
withdrawn. It says that little on purpose: redelivery and cancellation make
every stricter order false (section 4).

### GenerationJobs

| Variable | Code |
|---|---|
| `api` | the request that creates a job: not begun, flushed, committed, rolled back (`get_tenant_db`) |
| `cancelling` | `cancel_job` between its read and its commit |
| `row` | committed rows of `jobs`; `result` is whether `result_cosmos_id` is set |
| `msg` | the broker: state and delivery count of a job's message |
| `wk` | a replica: program point in `_consume_topic` / `_handle_ai_job`, the stop flag, the message it holds and under which delivery, the local lists |
| `docs`, `index` | the Cosmos DB documents `ts-gen-{job}-{req[:8]}`, `Gone` for one that a client has deleted, and `gen-{job}` |
| `scripts` | rows of `test_scripts`, one per job, requirement and attempt |
| `present`, `marked` | rows of `requirements`, and those the worker has set to PROCESSED |

Each action of a worker is one transaction or one call to another store, so
that every other actor, an exception or a crash can come in between:
`StartProcessing`, `LoadJob`, then for each requirement `SkipRequirement` or
`GenerateScripts`, `StoreTestScript`, `CreateTestScriptRow`,
`MarkRequirementProcessed`; `StoreIndex`, `CompleteJob`; `FailJob` for the
`except` branch; `CompleteMessage`, `DeadLetterMessage`, `Abandon` for the
settlement. `Raise` is an exception from any call and takes the branch the code
takes there, including the exception inside `except` that ends the consumer.
`Crash`, `Restart`, `LockExpires`, `Sigterm` and `IdleExit` (the receiver's
`max_wait_time`) are the platform. The calls of the language model touch no
shared state; their outcome is the choice between the two actions.

The requirement a delivery works on next is any of those left: the query has no
ORDER BY. A document is represented by the requirement it is for. Clients delete
requirements (`DeleteRequirement`) and documents (`DeleteScript`: rows and indexes that
name the document stay); reviews replace a document by one for the same requirement, and
are left to ScriptReview.

Constants that describe the deployment: `EnforceFK` (SQL Server checks foreign
keys, the tests' SQLite does not), `EnumColumns` (do the columns declared as
text load as enum members), `Faults` (which failures may happen) and
`MaxDelivery`. The passing runs take `EnforceFK = FALSE` and `EnumColumns =
TRUE`, the configuration the repository's own tests build, since with the other
values the pipeline stops before its interesting part (section 4). The proofs hold for
either value of both.

### TestCycles

| Variable | Code |
|---|---|
| `cycle` | status of each row of `test_cycles` |
| `asg` | cycle and status of each row of `test_assignments` |
| `result` | status of the row of `test_results` of each assignment |
| `evidence`, `blobs` | rows of `execution_evidence`, files in the tenant's container |
| `req` | the requests in flight: operation, row, the status loaded, the status to write, the result found |
| `overtaken`, `apart` | history: requests on whose execution another one has committed meanwhile; executions last written by such a request or by `log_result` |

A request is split where it reads: SQLAlchemy's session has `autoflush` off and
writes at the end, only the columns that differ from what it loaded
(`Updated`), with no condition on the stored value. Hence `UpdateCycle`,
`ActivateCycle`, `CloseCycle` load and check, `CommitCycle` writes;
`SubmitResult` loads the assignment, `FindResult` the result, `CommitSubmit`
writes both, or `RejectSubmit` meets the unique key and everything is rolled
back. `UploadEvidence` checks, `StoreBlob` stores the file, `AttachEvidence`
inserts the row. `Rollback` may end any request. Operations that read nothing
that matters later (`CreateCycle`, `AddExecutions`) are one step.

### ScriptReview

| Variable | Code |
|---|---|
| `doc` | the Cosmos DB document of a generated script: status, content, `approved_by`, whether it has `rejection_comments`. The content is the attempt of the job that wrote it |
| `attempts` | how many attempts have stored the document |
| `req` | the requests in flight: transition, script, the copy each has read |
| `reviewed` | history: which contents have been IN_REVIEW |

`SubmitForReview`, `ApproveScript` and `RejectScript` read a copy and check its
status; `StoreSubmission`, `StoreApproval` and `StoreRejection` replace the whole
document by the changed copy, whatever is stored now, or fail if it was deleted.
`StoreTestScript` is the worker's upsert seen from here: GenerationJobs shows
that an attempt stores a document of a job at most once for a requirement, and
the broker limits the attempts. `DeleteScript` asks nothing of the status.

`create_script` and `update_script` are not actions: both read `body.tags`,
which neither `TestScriptCreate` nor `TestScriptUpdate` has, before they store
anything. Likewise every answer that is built by `_doc_to_read` fails, since
`TestScriptRead` has other fields, so a client that submits or approves gets an
error after the document has been replaced. LOCKED is never set.

### Exporters, Exports

Exporters says of each format whether it can be exported at all: the exporter is made
first, and those of Gherkin and pytest raise there (`Compiling`, section 4); the others
render every step and raise at some (`PlaywrightRaises`, `SeleniumRaises`,
`RobotRaises`). What a file says is left out.

Exports EXTENDS ScriptReview with the service around it, so that a document is
submitted, decided on, stored again or deleted between any two steps of an export.

| Variable | Code |
|---|---|
| `rows` | rows of `test_scripts`, one per document and attempt |
| `blob` | `exports/{row}/{format}` in Blob Storage: the content each file was made from, 0 for the stub of a missing document |
| `exp` | an export: operation, format, the list of rows, the file in hand and whether it has been uploaded, the entries of the archive, `file_count`; history: the versions of each document since the request came in (`since`), and since the oldest export that was open at that time came in (`overlap`) |

`ProduceFile` reads row and document and makes the file; `Upload` is the write to the
storage, `Sign` what follows when its answer has arrived, so that another export may
write the path between the two; `UploadFails` is the branch of `_upload_and_sign` that
swallows an exception; `FailScript` ends the export of one script, or adds an error
entry. An export of one script is a list of one.

### AIPipeline

One requirement inside `_handle_ai_job`, which GenerationJobs shows as the choice
between `SkipRequirement` and `GenerateScripts`.

| Variable | Code |
|---|---|
| `now`, `cache` | `time.monotonic`, and `_cache` of the process, by stage and key; a value remembers the input it was made for |
| `pc`, `req`, `formats` | the stage, the requirement, the formats still to be written |
| `attempt` | of the call in flight (`AsyncRetrying`) |
| `cases`, `age` | the input the test cases in hand are for, and how old they were when taken |
| `scripts`, `doc` | `scripts_by_format`, with how each was checked; what the last requirement led to |

`CheckRequirementQuality`, `GenerateTestCases` and `GenerateScript` are the replies
of the model, `CacheHit` stands for the call that is saved; `Retry`, `CallFailed`,
`QualityCheckFailed` and `PromptTooLong` are the failures, each with the handler
that catches it. `Key` is given by stage: the gate's leaves the system type out. A check
by node is done, takes too long, or cannot be made, which counts as no error (`Accepts`).

### CrawlJobs, Lists, Site, CrawlBase, WebCrawl, SapCrawl

CrawlJobs follows a crawl job from the request to the settlement of its message;
a crawl is there what it leaves behind. WebCrawl and SapCrawl are the two crawlers,
CrawlBase what they inherit: the fields `pages`, `flow_graph`, `error_count` and
`max_pages`, and that every save inserts all pages again (`SaveCrawlPages`). Site is what
all walks over pages have, the legacy one too: the URLs. Lists has an operator they
share: what of a list is not in a set, in order (`Outside`), the links that are new.

| CrawlJobs | Code |
|---|---|
| `row`, `msg` | the row of `crawl_jobs`, the message with its delivery count |
| `wk` | a replica in `_handle_crawl_job`, with the pages it found |
| `rows`, `maps` | the pages of a job that have rows in `crawled_pages`; the Cosmos DB document `crawl-{job}` |
| `lost` | history: the pages of a job that a save failed for |

| WebCrawl | Code |
|---|---|
| `queue`, `visited`, `pages`, `flow_graph`, `page_index`, `error_count` | the fields of the same names of `WebUICrawler` |
| `session` | whether the browser has logged in: without, a visit may end at the login page |
| `rows`, `failed`, `unsaved` | rows per page in SQL; history of failed visits and failed saves |

| SapCrawl | Code |
|---|---|
| `tiles`, `tile_count`, `tries` | the tiles of the launchpad, those explored, the selectors left in each loop |
| `app`, `discovered` | the tile's first page and the pages found in it, before they are collected |
| `pages`, `flow_graph`, `error_count`, `rows`, `unsaved` | as above |

SapCrawl's specification is `SapSpec`, with `SapInit` and `SapNext`, since the proofs
have both crawlers in one scope. The site is adversarial: what a page links to, where a visit ends and which click
raises are choices of the environment, made when the code looks. A call to the page without a
timeout may never return (`BrowserHangs`), in WebCrawl and in CrawlJobs.

### TokenGate, Access

TokenGate is what a request passes before it touches the database; Access EXTENDS
it and goes on to the end of the request.

| Variable | Code |
|---|---|
| `window`, `failures` | `_rate_windows` and `FailedAuthThrottle._failures` of the client's address, as ages |
| `jwks`, `lock` | `_JwksCache` and its `asyncio.Lock` |
| `answer` | the provider's answer that is on its way, and for how long |
| `withdrawn` | the provider's keys (environment) |
| `pc`, `ask` | where each request is and what it asks for |
| `users`, `roles` | the two tables |
| `conn`, `ctx` | the pool: which request has a connection; its `SESSION_CONTEXT` |
| `tx`, `todo` | what the open transaction of a request has flushed, and what it will flush |
| `held` | history: whether the caller held a role in the tenant since it was validated |

`GetKey` and `LockCache` are the two looks at the key cache around its lock;
`ProviderAnswers` is the moment at which the provider reads its keys, `Refresh` the one at
which its answer arrives and is stamped.
`UpsertUser`, `Flush` and `GetCurrentUser` are `get_current_user`; `SetTenantContext`
begins the work of `get_tenant_db`, which the actions named after `user_service`
plan, `Flush` meets locks and unique keys in, and `CommitWork` ends. `Release`
leaves or clears the connection's context, for the driver may do either.

The routers of users read `current_user.id`, an attribute `CurrentUser` does not
have. The work of the model starts at the methods of the service, as the tests do.

### AppExplore, LegacyAdmin, LegacyApp, LegacyBundles

LegacyApp composes AppExplore (task `explore_app`) with LegacyAdmin (accounts and
roles): who may start an exploration is read from the rows an administrator edits,
and a task goes on whatever happens to its starter. Each part has a specification of its
own, `ExploreSpec` and `AdminSpec`, and `AppSpec` implements both (section 7).

| Variable | Code |
|---|---|
| `page_rows`, `elements` | the URL of each row of `pages`; how often a row has its elements |
| `ex`, `overlap` | the tasks; history: whether two ran at once |
| `account`, `roles`, `req` | `users`, `user_roles`, and the open requests of administrators with what they have seen |

| LegacyBundles | Code |
|---|---|
| `bundles`, `cases` | `test_bundles`; `tests` with their steps, of each the critical flag |
| `signing`, `approvals` | approvals between the first and the second commit; table `approvals` |
| `wr` | the tasks and requests that write tests |
| `run`, `results`, `evidence`, `files` | `runs` with the local variables of `execute_bundle`; `results`, `evidence` and the evidence directory |

Each commit is an action. A step has its critical flag and its `step_index`, which
nothing makes unique in a test. Of `execute_bundle`, a run has the tests whose steps it
has not read yet (`tests`), the steps it has read so far (`plan`), and in `shot` and `bound` the variables
`ev_path` and `digest`, which outlive the step they were set for.

### MC modules and mutants

An MC module defines the instance of each run. An operator preceded by "Mutant" is
a plausible mistake in the operator below it; substituting it makes a named property
fail (`PROJECT.json`, "mutants"), which shows that the property says something about
the code.

## 3. The runs

| Run | Instance | Shows |
|---|---|---|
| `generation_safety` | 1 job, 2 requirements, 2 replicas, 2 deliveries, every fault, 1 document that clients delete (about 1,850,000 states) | the safety invariants and the refinement of JobLifecycle |
| `generation_live` | 1 requested and 1 triggered job, 1 deletable requirement, 1 replica, every fault (124,000) | every handler run ends; every message is settled |
| `generation_dropped` | 1 job, no fault | the statement of section 4, refuted |
| `ai_pipeline` | 3 requirements with shared keys, 2 lists of formats, 3 attempts, a clock (62,000) | what the cache returns, what is stored, every requirement is left |
| `crawl_jobs` | 1 job, 2 replicas, 2 pages, 3 deliveries (783,000) | map and rows agree; the message is settled |
| `web_crawl` | 5 URLs, 13 lists of anchors, depth 2, 2 or 4 pages, batches of 3, with and without login (57,000) | breadth first, exhaustive, saved, ends |
| `sap_crawl` | 3 tiles in 2 groups, 1 or 3 pages (1,290,000) | edges lead to pages; the page budget |
| `access` | 2 requests, 1 connection, 1 key, 4 identities, 2 tenants (141,000) | tenant, role, key, answer |
| `legacy_app` | 3 URLs, repeated explorations; 2 users, 2 requests (2,100,000) | exploring again replaces; the last administrator |
| `legacy_bundles` | 1 bundle, 2 tests, 2 users, a writer, a run (592,000) | evidence, matrix, status |
| `cycles_safety` | 1 cycle, 1 execution, 1 file, 3 open requests (675,000) | locks settle, no blind overwrite, status and result match, evidence is backed |
| `scripts_safety` | 1 document with 2 attempts, 1 reviewer, 2 open review requests, 2 exports (1,190,000) | decisions are recorded whole, fall on reviewed content, and settle; archives and links |

The properties of the passing runs:

* `NoOrphanArtifacts`: a message is sent before its row is committed, and the
  commit may fail. A job without a row nevertheless leaves no document, index or
  script row: the handler fails on the missing row before it writes.
* `CompletedIsIndexed`: COMPLETED comes with a result pointer and a pointer with
  an index document, also after a late cancellation, a second attempt, or a
  commit whose reply was lost.
* `IndexListsStored`: whichever attempt wrote the index last, what it lists has been
  stored, and is missing only where a client deleted it.
* `RowMatchesDocument`: a script row names a document of its own requirement, or one
  that a client deleted.
  Needs `Prefix` injective: ids that share eight digits collide.
* `MarkedHasRow`: PROCESSED means there is a script row; the API refuses to
  generate again for such a requirement, so a false mark would be permanent.
* `AckedJobIsStarted`: a message is completed only for a job that was worked on.
* `OneRowPerAttempt`: duplicates of a script row come from redelivery only.
* `ImplementsJobLifecycle`: the refinement, with `status` and `result` read off `row`.
* `HandlerEnds`, `MessageSettles`: liveness (section 6).
* `EvidenceIsBacked`: no evidence row without file and result.
* `LockSettles`: once no request that loaded the cycle before it was locked is
  still open, LOCKED is final.
* `NoBlindOverwrite`: a result is replaced only by a submission that saw one.
* `DecisionRecorded`: a document has an approver exactly when APPROVED and comments
  exactly when REJECTED, whoever overwrites whom. It is the replacement of whole
  documents that keeps this.
* `DecidedWasReviewed`: a decision never lands on a content that was not
  submitted, though the worker may store another between read and replacement.
* `DecisionSettles`: with no older copy in flight a decided document changes only
  by deletion or another attempt.
* `ArchiveAccounts`: a bulk export swallows what goes wrong with a script; entries and
  `file_count` still account for every script, in order.
* `LinkIsFresh`: the file of a row and format is overwritten by every export, between
  the upload and the signature of this one, too. What a link serves when it is made was
  the document at some time since the oldest of the exports came in that were under
  way with its own: nothing that exports before all of these have left.
* `StatusMatchesResult`: whatever was done to an execution before, its status and its
  result are equal unless they were last written by `log_result`, or by a submission that
  another commit on the execution overtook (section 4).
* `CasesMatchKey`: the test cases of a stored document were made for the same title,
  beginning and system type, at most the lifetime of the cache ago. It is as much
  as the cache promises: the rest of the content, the domain and the priority are
  not in the key, and other tenants share it.
* `StoredScriptsChecked`: what is stored passed the checks its format has, but for the
  check by node where it could not be made.
* `RequirementEnds`: through retries and failures every requirement is left.
* `MapBackedByRows`: the pages of the map, written by one of several attempts, have
  rows, but for pages of which a save was tried and failed.
* `CrawlSettles`: the message of a crawl ends acknowledged or dead-lettered, though
  replicas hang, unless all of them do.
* `ShortestDepth`: although a URL may be queued at several depths, it is visited at
  most one step below every page that links to it, or was visited in vain before.
* `Exhaustive`: a crawl below its limit has visited every link it should have.
* `PagesPersisted`: what it found is in SQL but for inserts that failed, the last
  incomplete batch included.
* `CrawlEnds`: it ends, on any site, or hangs in a page that does not answer.
* `EdgesHavePages`: although an exception discards pages and not edges, no edge
  leads to a page the result lacks.
* `PageBudget`: what a limit counted in tiles means in pages.
* `OwnTenantOnly`: whoever works has exactly one connection, with its own tenant's
  context, whatever was left on it.
* `GrantedByRole`: whoever passes authentication has held the role since its token
  was validated, though the lookup may run under another tenant's context.
* `FreshKeys`: no token is accepted with a key that was withdrawn longer ago than
  the time to live and the way of the provider's answer, whoever refreshes and whoever
  waits.
* `RequestsEnd`: no request waits for ever, with a pool of one connection.
* `RescanReplaces`: without explorations at once, a page has one row and its
  elements once at most, though tasks die between any two commits and are started
  again. A task that ended below its limit has a row for every page that can be reached
  from a base URL that is not refused itself, explorations at once or not: two of them
  duplicate rows but lose none.
* `LastAdminGuard`: the last active administrator disappears only by a request that
  another one has overtaken since it counted.
* `EvidenceMatchesFile`: the digest of a row of evidence is that of the file its
  path names, though variables are reused, unless a step of the same test with the same
  `step_index` has replaced the file.
* `MatrixTellsVerdict`: the traceability matrix, built later from other rows, has a
  FAIL exactly in a failed run.

## 4. Where the repository's words and the code differ

`generation_dropped` is a run: ADR 001 says that no job "is silently dropped", but
the worker may be quicker than the commit. It finds no row, dead-letters the
message, and the row stays PENDING; no failure is needed.

The rest was met while the models were written, and the models follow the code:

* generate-scripts "publishes to Service Bus": the call passes an argument
  `publish_ai_job` does not take (`requirement_service.py:230`); the `TypeError` is
  swallowed. GenerationJobs' `TriggerGenerateScripts` never publishes.
* cancel "if PENDING or PROCESSING": status read and write are apart, and
  COMPLETED becomes CANCELLED (`ai_generation_service.py:84`). JobLifecycle allows it.
* `created_by` uses the job's id "as proxy" (`service_bus_worker.py:443`): it is a
  foreign key to `users`; on SQL Server the insert fails (`EnforceFK`).
* `project.system_type` is declared as text, so `.value` raises for every job
  (`service_bus_worker.py:183`, `EnumColumns`).
* "Update assignment status to match result": a request that commits between the
  two reads of `submit_result` leaves them different, and `log_result` writes the
  status only.
* `delete_script` leaves the row, and the job's index that lists the document
  (`test_script_service.py:159`).
* The syntax check of TypeScript finds no error where it cannot be made, for any reason
  (`chains.py:239`).
* `page.title()`, `evaluate` and `content` have no timeout (`web_crawler.py:264`): a page
  whose script never yields holds the crawl, its replica and the message's lock.
* RBAC matrix, "IN_REVIEW --> REJECTED": an approval and a rejection may both read
  IN_REVIEW, and the later replaces the other's document.
* ADR 002, executions in a LOCKED cycle cannot be modified: no operation on an
  execution reads its cycle.
* "Evidence", the path `evidence/{assignment}/{filename}` is overwritten by a second
  upload of the same name; answers built by `_doc_to_read` raise after the
  transition was stored.
* `web_crawler.py:486` calls a second save of the same pages idempotent; every
  batch inserts them all again.
* Crawl jobs stay PENDING: `_handle_crawl_job` updates table `jobs`. With scripts
  asked for, `uuid.UUID("")` raises and the message of a successful crawl is
  dead-lettered (`service_bus_worker.py:563`).
* `max_pages` of an SAP crawl counts tiles (`sap_fiori_crawler.py:234`).
* `chains.py:14` says that identical inputs are cached; inputs that differ after
  200 characters, in domain, priority or industry share an entry too.
* An invitation's placeholder is never replaced: the first login of the invited
  user inserts a second row with the same e-mail (`user_service.py:113`).
  Revocation without a domain removes any of the user's roles in the tenant.
  `is_active` of a user is not looked at.
* The context is set `read_only`: where a connection keeps it, the next request
  with a tenant fails on it (`database.py:87`).
* The cycle export selects scripts by a SQL status that no code sets.
* Two exporters cannot be made: their templates use what Jinja2 does not have,
  `{{expected!r}}` (`pytest_exporter.py:134`) and a filter `ljust`
  (`gherkin_exporter.py:196`). Every export to pytest or Gherkin fails, of a script
  that was generated in this format, too.
* A null `input_data` makes the Playwright and Selenium exporters raise
  (`playwright_exporter.py:52`); a wait for what is no number those of Selenium and Robot
  Framework (`selenium_exporter.py:87`).
* Scripts of one title give a ZIP two files of one name (`export_service.py:201`).
* A reviewer who holds an older copy brings its content back, under the status of the
  transition (`test_script_service.py:208`): contents of a document, and so of its
  exports, do not only grow newer. And another export may write the path of a file
  between its upload and the signature (`export_service.py:378`), with a document it read
  before the later export came in.
* A run that dies stays Running, an approval by the user interface has no row in
  `approvals`, and a passing step that is not critical is given the evidence of the
  step before (`tasks.py:249`, `ui.py:563`, `tasks.py:303`). Two steps of a test may have
  one `step_index` (`schemas.py:50`, `models.py:136`): their screenshots have one path.
* Two requests at once can remove the last administrator (`ui.py:732`).

## 5. Bounds

* One job in `generation_safety`: jobs share nothing but the requirements' marks
  and the replicas, and a replica holds one message at a time. What two actors can
  do to one job needs two replicas, and two deliveries are the least at which a
  second attempt overlaps the first. Two requirements make attempts that stored
  some but not all; clients may delete the document of one. `MaxDelivery` is 2 instead of the broker's limit, which only
  ends the sequence of attempts earlier; the proofs hold for any limit.
* `generation_live` has one replica and one requirement, since liveness is
  checked without symmetry; it adds a triggered job and a deletion.
* `cycles_safety` has three requests on one cycle and one execution: every pair
  of operations overlaps, with a third to commit between their steps. Two
  outcomes tell "the status I loaded" from "another". Executions do not interact
  with each other, nor do cycles.
* `scripts_safety` has two requests on a document that a second attempt may replace at
  any moment, beside two exports: the least at which one writes the path of the other.
  Documents and formats share no path, and formats differ for the model in what raises
  only; with Selenium the first content can be rendered and the second cannot. A bulk
  export asks for one row twice, so that it meets its own file. The proofs hold for any
  numbers of requests, exports, rows and formats.
* `generation_dropped` takes the smallest instance and no faults: nothing but the
  order of steps is to blame.
* `ai_pipeline`: two inputs that share both keys and a third that shares the gate's.
  `TTL` 1 in `MaxTime` 2 ticks lets an entry live, expire and be written again.
  Formats: one per kind of checker. `MaxAttempts` is the code's.
* `crawl_jobs`: two replicas and three deliveries, so that one of them is left when two
  replicas hang. Two pages make a batch that has some of a crawl's pages.
* `web_crawl`: lists of at most three anchors, two of them in every order; depth 2
  is the least at which a URL is queued at two depths. `FailedSaves`: one insert of a
  batch fails. Batches of 3 in crawls of 2 or 4 pages, so that the last is incomplete.
* `sap_crawl`: 2 row selectors and 1 of each other kind instead of 5, 3 and 5; two
  tiles pass the filter; limits of 1 and 3 allow none or both.
* `access`: each of two requests is made once (`MaxRequests` and `MaxFailures` 1, so
  that the second may meet either limit), one connection to wait for, one key that
  is withdrawn and published again; `MCAsks` has one request per operation and kind of
  caller. `Ttl`, `Timeout` and the windows are the least; ages saturate one above.
* `legacy_app`: one slot for tasks, used again and again, so `overlap` stays false;
  what two explorations at once do to each other is in the model, and
  the proof covers it. Two requests are the least that overlap.
* `legacy_bundles`: the model answers with a test that is not critical, or with one
  whose two steps share an index; steps are edited at one position (`Editable`); one writer, one bundle and two tests; two users, since the
  creator may not approve.

Deadlock is checked for GenerationJobs, TestCycles, AIPipeline and Access: a replica
that stopped is restarted, a request can always begin, keys rotate. ScriptReview,
the crawls, CrawlJobs and the legacy modules may stop: everything decided, crawled,
settled or executed.

## 6. Fairness

`FairSpec` of GenerationJobs assumes, for each replica, weak fairness of taking
a waiting message, of the handler's next step and of a restart, and for each
message weak fairness of the expiry of a lock nobody can settle.

* A step of the handler is an awaited call with a timeout: it returns or raises,
  and `Raise` is a step of the handler. Nothing is assumed of which.
* `_consume_topic` iterates over the receiver, which yields a waiting message;
  Container Apps restarts an exited replica (`minReplicas`, restart policy).
* Service Bus releases a lock after `lockDuration`.

Nothing is assumed of clients, faults, signals or of the commit of a request.
`HandlerEnds` holds because a delivery's list of requirements only shrinks;
`MessageSettles` because each delivery is counted, abandonment included, up to
the limit. Neither says that the job succeeds.

The other modules state their fairness in `Spec`:

* AIPipeline: weak fairness of the sequential program. Every call to the model has a
  timeout; whether it succeeds is open.
* WebCrawl: weak fairness of the next step of the crawl, which may be that the browser
  hangs: only navigation and clicks have timeouts, so `CrawlEnds` says that nothing else
  keeps the crawl from its end.
* CrawlJobs: as GenerationJobs, of taking, handling and the expiry of locks. A replica
  that hangs stays so, as nothing restarts it; its lock expires and the message goes on
  to another one.
* Access: strong fairness of each request's next step. The waiters for an
  `asyncio.Lock`, for a pooled connection and for a row lock are served in the
  order they came, so one that can go on again and again does; weak fairness would
  let others overtake it for ever. The timeouts (`DatabaseError`, `RefreshFails`) are
  not relied upon.

## 7. Proofs

TLAPS checks eight modules of proofs, one per component or pair of components:

| Module | About |
|---|---|
| `GenerationJobs_proofs` | GenerationJobs, and that it implements JobLifecycle |
| `TestCycles_proofs` | TestCycles |
| `ScriptReview_proofs` | ScriptReview, and Exports beside it |
| `AIPipeline_proofs` | AIPipeline |
| `CrawlJobs_proofs` | CrawlJobs |
| `Crawlers_proofs` | WebCrawl, SapCrawl and AppExplore, which share Site and CrawlBase |
| `Access_proofs` | TokenGate and Access |
| `Legacy_proofs` | LegacyAdmin, LegacyApp and LegacyBundles |

Every safety property of the passing runs is a theorem there. The theorems hold for any sets of jobs, requirements, replicas, cycles, executions,
documents, reviewers, requests, connections, keys, pages, sites, accounts, tests and
runs, any positive delivery limit, any of the other limits, any subset of the faults
and either value of `EnforceFK` and `EnumColumns`. What is assumed of the constants is
in the modules that declare them, and says of each

* that `None` is no member of the sets it stands beside, and limits are numbers;
* that a deployment is coherent: the base URL of a site is one of its URLs
  (`SiteAssumption`, `UrlAssumption`), the first administrator is an account
  (`AdminAssumption`), who may test or approve has an account (`RolesAssumption`);
* that what the environment may answer is of the type the code parses: lists of tiles,
  anchors, tests (`TilesAssumption`, `AnchorAssumption`, `TestsAssumption`). The sets among them may be infinite, and have to be no more than TLC can enumerate in a run.

Each module proves its inductive invariant, `IInv` unless another name is given
(`SapIInv`, `ExploreInv`, `AdminInv`, `ExportInv`), by a lemma per action, and the
theorems follow from it. No safety invariant of the runs is inductive alone, and most of
the work is in the strengthening:

**GenerationJobs.** That an index lists stored documents depends on what the worker's
local list is known to hold, that on the program point, and that a delivery inserts a
row once on the broker not having two deliveries under one count. `IInv` adds

* `RequestInv`: a row exists exactly when its request has committed; before that
  there is no result and, before the request begins, no message;
* `DeliveryInv`: a ready message has deliveries left; a replica's lock is one of
  the deliveries counted so far; two replicas on one job hold different ones;
* `DocumentInv`: a document is for a requirement with the id's prefix, and each
  script row had its document stored;
* `AttemptInv`: what a replica knows at each program point (`Knows`): the row
  exists past `LoadJob`, the current document is stored past the upsert, the row
  is inserted before the mark, the index is there before COMPLETED;
* `RowInv`: rows of the delivery in progress are of requirements it is done with.

Since most actions change one variable, the lemmas first state what each actor
can change (`HandleRow`, `HandleMsg`, `OtherWorkers`, `Monotone`: documents,
once stored, are there or `Gone`; indexes, rows and result pointers never go away) and the conjuncts cite those.
`RowsMatchDocuments` assumes `Prefix` injective: two requirements whose ids share
eight digits are a counterexample otherwise. `Refinement` maps each step to a step of
JobLifecycle or a stutter; the case that needs the invariant is `CompleteJob`, which
must find the row committed. `HandlersAdvance` and `EveryMoveCounts` prove the variants
that `HandlerEnds` and `MessageSettles` rest on: a worker in its handler reaches a later
stage, a shorter list of requirements or the next step of one's turn, whatever raises;
and a message moves at most 2 * `MaxDelivery` + 1 times, the last move settling it.

**TestCycles.** `RequestInv` is what a request in flight has made sure of: the result
an upload hangs on exists (results are never removed), the file to attach is stored,
and a request that loaded a LOCKED cycle writes LOCKED. The last is what `LockIsFinal`
needs: with no stale request open, whoever commits writes LOCKED, and whoever loads
now loads LOCKED. `NoLostResult` follows by cases on the actions. `SubmissionsAlign`
needs `ReadsInv`: what a request that was not overtaken has read is current, so a column
that it leaves out because it did not change has the status it was asked for.

**ScriptReview.** `CopyInv` is what is known of a copy in flight: it has the status
that was checked, no decision on it, and, if it is to be decided on, a content that has
been reviewed. `ReplaceStep` is the one lemma about overwriting: it does not matter
what is replaced if the new document is in order. `DecisionIsFinal` follows since a
request that begins on a decided document is refused, so no copy of it comes into being.

**Exports.** An export does not touch the review, so `ReviewAndExport` implements
ScriptReview's `Spec` (`ReviewBeside`) and its theorems carry over. `ExportInv` is
inductive relative to `TypeOK` of the review before and after the step: it adds
`SeenInv`, that `since` has the present version of each document, so that what is read
now may be uploaded later, and that a file in hand is of the script the archive comes to
next; and `OverlapInv`, that an export's `overlap` has all that any other open export may
have read, whichever of the two came first. `LinksAreFresh` follows: whoever uploads to
a path between an upload and its signature is open, and its file is in the `since` of
its script.

**AIPipeline.** `CacheInv`: an entry lies under the key of the input it was made for,
with a time that is past. `HandInv`: the cases in hand have the requirement's key and
were young enough when they were taken, and every script kept was accepted.

**CrawlJobs.** `FoundSaved`: between the last batch and the map, what the worker is about
to store has rows, or a save of it failed (`lost`).
`EveryMoveCounts` is the variant of `CrawlSettles`, as above: a message that was not sent
has had no delivery, and one that waits has one left (`DeliveryInv`).

**WebCrawl.** Breadth first needs the frontier: depths in the queue grow by at most one,
and no page is deeper than what waits (`FrontierInv`). Completeness needs that what a
page links to is visited, failed or still queued no deeper than one below it
(`PendingInv`), and that a crawl ends with an empty queue or at its limit (`EndInv`).
The site is discovered as the crawl goes, so these speak of the links pages had when
they were visited.

**SapCrawl.** An exception discards pages and keeps edges, so `EdgesHavePages` needs to
know that the first page of a tile is among its pages while its loops run (`LoopInv`).
`PageBudget` is by a potential: what is collected, and all that the selectors left in
the three loops may still add (`ToCome`), fits what so many tiles can bring (`BudgetInv`).

**AppExplore.** `Covered`: behind the walk each page has a row, and its links are seen,
queued or foreign; the page being saved is still to get there. That holds for every task
whatever the others do, since rows are only added. `Undisturbed` holds of a task that is
alone: nobody adds the row it did not find, or elements to the row it emptied.

**LegacyApp.** `Separation`: `AppSpec` implements `ExploreSpec` and `AdminSpec`, since a
step of one part leaves the other's variables. So `ExploreInv` and `AdminInv` are proved
on the parts and hold of the whole. `GuardInv`: a request that takes away an
administrator, with nobody having committed since it looked, finds another one.

**LegacyBundles.** `WriterInv`: the case whose steps a writer is about to store is its
own. `AsPlanned`: a run goes through the steps of its bundle once each in the order
of its plan, a step it has read stays one whatever is edited, and `any_fail` is true
exactly if a result says FAIL. `FileInv`: a file shows a step that has its name (`Shows`),
whoever wrote it and how often, and so does the digest of a row of evidence; two images
of one name are then of one step, or of two with one index. The matrix is then right because the results of a finished run are of
the steps of its bundle (`MatrixIsRight`).

**Access.** `OneRefresh`: the lock's holder is the only one that fetches (`LockInv`), what
is in an answer was published when the provider gave it, and what is in the cache no
longer than the timeout before it was filled (`KeyInv`), from which `KeysAreFresh`
follows step by step. `TenantIsolation` needs that a request has one connection
exactly while its session is open (`ConnInv`). `RolesAreChecked` needs that whatever is
flushed hangs together (`WriteInv`): a role is of a user who is there or comes with it,
and row locks keep two flushed users of one identity apart (`OidInv`).

**Lists.** `Outside`, of crawlers and exporters, and `FlattenSeq` are recursive functions
over sequences. The
library's induction rules take an operator as a parameter, which no installed prover
instantiates, so `Inductive` derives induction over a set of numbers from the
well-foundedness of `<` (NaturalsInduction, WellFoundedInduction), and the lemmas about
them (`OutsideRecursion` and those that cite it) use sets: of the positions up to which
the claim holds. Two modules need them, and each has its own copy of the two first lemmas.

TLC checked each inductive invariant, and the variants, on its run's instance before it was
proved; they are not in the runs, where the properties that follow from them are, and neither is `TypeOK`
of the modules: the provers find a wrong type sooner.

Only model-checked:

* the liveness properties `HandlerEnds`, `MessageSettles`, `RequirementEnds`,
  `CrawlSettles`, `CrawlEnds` and `RequestsEnd`: TLAPS has no rules for weak or strong
  fairness (`ENABLED`). For the first two and `CrawlSettles` the variants are proved
  (`HandlerAdvances`, `MessageAdvances`): only finitely many steps are possible. What
  fairness adds, that one of them is taken, is left to TLC;
* the refuted statement of section 4.

## 8. Not modelled

* Times: `completed_at`, `updated_at`, the broker's message time to live (a
  day, against minutes of handling), the crawler's delays. The lock's five minutes are
  modelled as expiry at any time. An answer of the identity provider that trickles in for longer
  than the client's timeout, which counts from byte to byte.
* Answers that change nothing: 401, 403, 404, 422 and reads.
* What the language model answers, the text the exporters write, and what a page
  looks like: classification, fields, screenshots, `detect_sap_field_properties`.
* Code without a caller: `CrawlerService.process_crawl_job`, classification,
  decomposition, streaming and the analysis of crawls in `ai/`, `write_audit_event`;
  the cache of `TenantMiddleware`, which is never filled.
* Of the export: wording and layout, the expiry of links, the legacy endpoint, which reads
  only, and the export of a cycle, whose selection is always empty (section 4). Locators:
  stored documents have none.
* Single-row edits with no other reader: tenants, projects, settings, upload and
  edit of requirements, edit and deactivation of a user, passwords.
* The table of permissions: data, with tests of its own.
* A second API process: the rate window and the throttle are per process, and so are
  the model's.
* The frontend, the deployment templates and the database policies, except where
  a model takes a limit from them.

## 9. Plan

Done: all modules of section 2, model-checked, and the proofs of section 7. To come, in
order of weight:

1. Refinements: a small specification of what a poller of `crawl_jobs` may rely on, as
   JobLifecycle is for generation, and that CrawlJobs implements it.
2. The variants of `RequirementEnds`, `CrawlEnds` and `RequestsEnd`, as they are proved
   for the other liveness properties.
