# RemoteFileService in TLA+

The service registers analysed papers and synchronises them with a Dify
knowledge base and with Neo4j (*ingestion*), and runs long Dify workflows for its
clients (*workflow gateway*). FastAPI processes accept requests; Celery workers
do the work; PostgreSQL holds the state; Redis carries messages. This directory
models the parts of `src/app` in which these actors interleave and fail, checks
the models with TLC, and proves the main safety results with TLAPS.

## 1. Inventory

| part | state it keeps | operations | talks to |
|---|---|---|---|
| workflow admission (`workflow_gateway_service.py` 1-130, 207-358, `api/workflow_jobs.py`) | `workflow_jobs` rows, files in `upload_dir` | `create_arxiv_job`, `create_upload_job`, `cancel_job`, `read_result`, list and get | PostgreSQL, the queue `workflow_gateway` |
| workflow runner (`WorkflowJobRunner`, `workers/workflow_tasks.py`) | the same rows and files, a session's copies of them | `run`, `recover`, `recover_unfinished`, event handling, error handling | Dify through `dify_workflow.py`, PostgreSQL |
| Dify workflow provider (`providers/dify_workflow.py`) | none | upload, run (SSE), events, run detail, stop | Dify |
| ingestion (`ingestion_service.py`, `api/ingestion.py`, `repositories/`) | `papers`, `paper_versions`, `ingestion_jobs` | `submit` (register, retry conflicts, dispatch) | PostgreSQL, the default Celery queue |
| synchronisation (`job_service.py`, `workers/tasks.py`) | job statuses, `graph_sync_records` | `sync_job`, `retry` | the two providers below, PostgreSQL |
| Dify knowledge provider (`dify_knowledge.py`) | `kb_documents`, in the caller's transaction | `sync_documents`: create or update, poll, record | the Dify knowledge base |
| Neo4j provider (`neo4j_graph.py`, `schemas/graph.py`) | none; nodes and edges live in Neo4j | `sync_graph`: validate, merge nodes, merge edges | Neo4j |
| duplicate detection (`deduplication_service.py`) and its review (`api/papers.py`) | `duplicate_candidates`, titles of `papers` | find, create, review | PostgreSQL |
| job listing (`workflow_gateway_service.py` 171-205, `_can_access`) | none | list page by page, read | PostgreSQL |
| other queries, admin, retrieval, health, CLI, authentication, settings, schemas, object storage | none that others use | | |

What is hard in each part, and what makes it correct:

- **Admission.** A handler awaits the database and the upload between lookup,
  count, storing, insert and dispatch; other requests are handled meanwhile; the
  process may die and the broker may fail between commit and dispatch. Correct
  means: one job per Idempotency-Key, the owner limit kept or nearly so, every
  admitted job has all of its files until somebody deletes them for its end, no
  file without a reason to be on disk.
- **Runner.** A session loads a row once and never reads it again
  (`expire_on_commit=False`, an identity map that is not refreshed), and flushes
  only the columns it changed, without a version check. Workers, a recovery
  sweep and cancels hold such copies for up to half an hour. Workers crash
  (`acks_late`), messages are delivered twice, streams break or just end,
  answers get lost, retries run out. Correct means: no second run of a job, a
  result is the output of a completed run of that job, a failure has a reason,
  uploads are neither lost nor left behind, jobs end.
- **Ingestion.** Requests for one paper race; unique constraints roll a
  transaction back and it is tried again. Correct means: versions in order, one
  synchronisation per content, nothing refused without a cause.
- **Synchronisation.** A task runs four transactions and reads the latest
  version anew in each; Dify and Neo4j change at once and the tables at the
  commit; tasks die and are redelivered, and run concurrently. Within the second
  transaction the documents are sent one by one, and rows are flushed, and
  locked, on the way; a flush that fails is caught, so that the task goes on
  without what its transaction wrote. Correct means: what jobs and records claim is true, final
  statuses sum up what happened, every job is answered.
- **Graphs.** Papers share nodes, and an edge is found again by a string. Correct
  means: what was reported as written stays, and papers keep out of each other's
  edges.
- **Listing.** Pages are cut with OFFSET from a list that changes between the
  requests. Correct means: a client misses or repeats only as many rows as left
  or entered its list, and can read what it is shown.
- **Duplicates.** Transactions compare titles with what is committed, later ones
  give a paper its first title, reviewers write over what they loaded. Correct
  means: nothing that was there is left uncompared, candidates stay true.

`PROJECT.json` lists all of these hazards, each at its line.

## 2. Plan

Order of work, the most important behaviour first:

1. *done* `WorkflowEvents`, `WorkflowRunner`: the runner with its sessions.
2. *done* `WorkflowRunnerInvariant`, `WorkflowRunnerProofs`: its proofs.
3. *done* `WorkflowAdmission`, `WorkflowAdmissionProofs`.
4. *done* `Ingestion`, `KnowledgeSync` (which extends it with the workers, the
   records of both providers and their collisions).
5. *done* `JobLifecycle`: a job as its client sees it, implemented by
   `WorkflowRunner` (one worker, no cancel): `WorkflowRunnerLifecycle`. Checked,
   and proved step by step in `WorkflowRunnerProofs` over `WorkflowRunnerAlone`.
6. *done* `Registry`: papers and growing sequences of contents, implemented by
   `Ingestion`: `IngestionRegistry`. Checked, and proved in `RegistrationProofs`
   with `VersionsInOrder`, `OneSyncPerContent` and `RefusedForCause`.
7. *done* `DocumentSync`, `GraphSync`: the two providers in detail; liveness of
   ingestion under fair handlers and workers.
8. *done* `DuplicateDetection`, `JobListing`.
9. *done* Proofs about `KnowledgeSync`: `RecordsTrue`, `GraphRecordsTrue`,
   `CompletedMeansSent` and `StatusHonest` in `SynchronisationProofs`.
10. *done* `DocumentSyncProofs`, `GraphSyncProofs`, `DuplicateDetectionProofs`,
   `JobListingProofs`: every safety property of the passing runs is proved
   (some under hypotheses the section on proofs names); what is left to TLC is
   liveness.

## 3. The modules and the code

| module | models | proofs |
|---|---|---|
| `WorkflowEvents` | one `WorkflowJob` and the functions that change it: events, run details, errors; `Flush`, the column-wise write of a session | |
| `WorkflowRunner` | Celery workers, cancel requests, Dify's runs, the queue | `WorkflowRunnerProofs` over `WorkflowRunnerInvariant` |
| `JobLifecycle`, `WorkflowRunnerLifecycle` | what a client may rely on; the mapping from rows and runs | `WorkflowRunnerProofs` over `WorkflowRunnerAlone` |
| `WorkflowAdmission` | the submit requests of an API process | `WorkflowAdmissionProofs` |
| `JobListing` | a client that pages through the jobs, `_can_access` | `JobListingProofs` |
| `Ingestion` | registration of papers | `RegistrationProofs` |
| `Registry`, `IngestionRegistry` | what registration promises; the mapping from the tables | `RegistrationProofs` |
| `KnowledgeSync` | `Ingestion` and the workers of `sync_job` | `RegistrationProofs` (types and the registry), `SynchronisationProofs` |
| `DocumentSync` | the second transaction of `sync_job`: several documents, row locks, indexing | `DocumentSyncProofs` |
| `GraphSync` | validation and merging of graphs | `GraphSyncProofs` |
| `DuplicateDetection` | titles, candidates, reviews | `DuplicateDetectionProofs` |
| `MC...` | small sets for TLC, one module for each of the modules above that runs | |

Definitions marked `Slip` are plausible mistakes in the definition that follows
them; nothing uses them except the mutants of `PROJECT.json`, which put them in
the place of the definition and make the named property fail.

**WorkflowRunner.** A session is a worker or a cancel request. `mem[s]` is its
identity map, `base[s]` the values last read or written; `Commit` writes to `db`
the columns in which the two differ, whatever `db` holds by now; `Close` forgets
both, which is what leaving `async with AsyncSessionLocal()` does to uncommitted
edits. A step ends where the code awaits. The labels of `ctl[s].pc` are those
places: `upload`, `starting`, `post`, `stream`, `handler`, `events`, `event`,
`stop`, `commit`. Abstractions of data: `dify_task_id` and
`dify_workflow_run_id` arrive in one event and are one column `run`;
`event_count > 0` is `seen`; `result_json` and its summary are `result`, the run
they came from; node events and pings change nothing the model keeps; one file
stands for a job's uploads; `retry_count` and times are left out. `DifyEnds` ends
a run in any status Dify may give, `"other"` being one the code has no name for.
`Crash` ends a session anywhere; its message is delivered again
(`task_acks_late`), and `Redeliver` delivers one that is still being worked on,
as Redis does after its visibility timeout of an hour. Celery's automatic retry
of a task that raised is the same step. A database failure is a crash for the
session that meets it. `Undeletable` jobs are those whose file `unlink` fails on:
the error is swallowed, the manifest emptied, and the file stays.
`asyncio.timeout` cancels the stream loop with `CancelledError`, which `except
Exception` does not catch, and turns it into `TimeoutError` outside
(`RuntimeExceeded`). The sweep message is what an operator sends to have
unfinished jobs taken up; `ConfigureKey` is an operator who sets the API key and
restarts the workers.

**WorkflowAdmission.** A job is named by the request that creates it. The handler
is cut at its awaits: lookup of the key, count, each file, insert with its
commit, dispatch. The database reads committed rows; a second insert of a key
raises `IntegrityError`, which nobody catches. What `WorkflowRunner` does to an admitted
job is three actions here, in the order of the code: `DeleteFiles` unlinks its
files, or fails to unlink some (`stuck`), any number of times and also when no
commit follows; `JobEnds` commits the end of a job whose files were seen to; and
`JobRevives` is a worker that commits an active status from a copy older than the
end, as `CancelOverwritten` shows. `FreshJobs` are those that have never ended.
`DispatchFails` is a broker that fails, possibly after it has taken the message.
`files` is the sequence of verdicts of the validations; an arXiv job has none.

**Ingestion.** On PostgreSQL: `Register` takes the advisory lock of the paper and
reads its row; `CommitFresh`, `CommitExisting` or `Conflict` end the transaction.
The unique constraints are evaluated at that point, which is where they decide.
A content stands for its hash with everything submitted under it. Jobs are
numbered in the order of their commits: for one paper that is the order of
`created_at`, because of the lock. The code tries six times; `MaxAttempts` is 2
in the instances, enough to have a second attempt and a last one. `EnableDify`
means that the switch, the key and the dataset id are set, `EnableNeo4j`
likewise.

**JobLifecycle.** `phase` is waiting, following or final; a run is posted only
for a waiting job, a job follows one run for good, and ends once, by success
with the output of that run, by cancellation because that run was stopped, or by
failure. `WorkflowRunnerLifecycle` maps the columns of a row and Dify's runs to
it. The refinement does not hold with two workers or with cancels: that is
what `SecondRun` and `CancelOverwritten` show.

**Registry.** One variable, the sequence of distinct contents of each paper, and
one action, `Register`. `IngestionRegistry` puts a history together from the row
of a paper, which gives its length, and the rows of `paper_versions`.

**KnowledgeSync.** A task is at the step its transaction has reached. `CallDify`
changes Dify at once, `Save` commits the record and `kb_status`; `WriteGraph`
changes Neo4j, `LookupGraphRecord` reads the row of `graph_sync_records` and
`SaveGraph` commits it. `DifyFails` and `GraphFails` cover calls that fail after
all retries with or without effect. A task may find that another has inserted the
row it did not find. For a document (`SaveConflicts`) the flush fails inside
`sync_documents`, which catches the error and reports "failed"; the transaction
is rolled back and can do nothing more, and `session.begin()` of SQLAlchemy, left
without an exception, closes it and raises nothing. The task goes on, and
`kb_status`, which was assigned after the rollback, is written by the commit of
the third transaction. For a graph (`Raise`) the insert is flushed by that commit,
which raises, and Celery tries the task again. `oldKb` and `oldGraph` are what the
session knows of the job's row (None: the column is written whatever is there);
`Column` writes what differs. `Die` is
a worker, database or task failure; the message comes back, or does not when only
a child process died (`task_reject_on_worker_lost` is off). `Redeliver` delivers a
message whose task is at work, as Redis does after its visibility timeout, also
while the task polls Dify for many documents; `overlapped` are the jobs that two
tasks have been working on at once. The branch of
`sync_job` for "existing" jobs has no action, because such jobs are never
dispatched. `Retry` is the retry endpoint: it reads the job in its session, which
begins a transaction (`api/ingestion.py:70`), and then enters `session.begin()`
(`job_service.py:98`), which raises `InvalidRequestError`; nothing changes,
although README.md:222 offers the endpoint for jobs that are `partial_success`.
Celery's `max_retries` is assumed not to be used up by conflicts.

**DocumentSync.** The transaction that `KnowledgeSync` takes as one document,
with its documents. `LookUp` flushes the row before it reads the next, because
the session autoflushes; a flushed row is locked until the end of the
transaction, so `CanFlush` waits for others (`waits` is the place in the line),
and `Deadlock` aborts one task of a circle. A conflict (`Raise`) and a deadlock are
caught like any failure of a call, but take the transaction along (`RollBack`):
its rows are gone, Dify keeps what it got, and the job is answered "failed" by
the next commit. `Die` and `Redeliver` bring a message back, after or during its
task. `FlushedRow` writes only the columns that differ from what was loaded. `Poll` records whatever the polling said: a
timeout or an error is a synchronised document for the code. Registration is the
counter `latest`; `History` is chosen at the start and never changes.

**GraphSync.** Validation by the schema (`SchemaAccepts`) and again, in other
code, by the provider (`ProviderAccepts`): the two ask the same of nodes and ends
(`WellFormed`) and write the range of a confidence, here a number of hundredths,
differently; nodes are merged first, then edges between nodes that are
there; the key of an edge joins its parts with `|`. A text is the sequence of its
parts, so that the joining is what the model does, and one uid of the instance
reads like a key. One transaction of Neo4j is one step. `MergeEdges` says what
`UNWIND` and `MERGE` leave: of several edges with one identity the last one.

**JobListing.** A row gets its time at the flush and is seen after the commit.
One client with any filter turns the pages; `left`, `leavings` and `arrivals`
count what happened to its list meanwhile. Times are taken to be distinct: the
query orders by nothing else, and equal times may come in any order.

**DuplicateDetection.** Registration of new papers under READ COMMITTED: a
transaction sees the titles that are committed, not those of its neighbours. The
ratio of `difflib` is a function of the ordered pair, and the empty normalised
title, which a Chinese title has, is compared with nothing. `PATCH` writes the
status over what it loaded, and nothing if it is the same.

All modules model `QUEUE_MODE=celery`, the mode of the deployment with workers.
Inline mode, the default of the settings, runs ingestion tasks inside the request
and never runs workflow jobs at all.

## 4. The runs

| run | instance | shows |
|---|---|---|
| `RunnerCrash` | two jobs with a file each, one of which cannot be unlinked, one worker, one sweep, one crash, two runs with the outcomes succeeded, failed and stopped, an API key that is set or not | with one worker: no second run of a job, no run without its file, final stays final, `workflow_start_error` only without a known run, no file left behind; the worker implements `JobLifecycle` |
| `RunnerSettles` | one job, one worker, fair, every failing call and every outcome | every job ends for good and every worker gives up its message |
| `RunnerRaces` | one job, two workers, a cancel, one redelivery; a run succeeds unless it is stopped, and jobs fail by exceptions | results, errors and the upload stay consistent when stale copies overwrite each other; an answered cancel has stopped the run it saw |
| `Admission` | three requests, two owners, one key, three shapes of upload, two in flight, one process death; files that go, or stay, before a job's end is committed, jobs made active again | one job per key, overshoot of the limit by admission bounded, uploads complete until they are deleted, files accounted for |
| `Registration` | four requests, two papers with one DOI, three contents, two attempts, no worker | versions in order, one synchronisation per content, refusals have a cause, `Registry` implemented |
| `Synchronisation` | two requests, one paper, two contents, two workers, a task with failing calls, one death or repeated delivery | what jobs and both kinds of records say is true; a status sums its job's results up unless two tasks worked on the job at once; unless a worker died, no job that was answered 202 is left with nobody to take it up |
| `DocumentRaces` | two workers, two or three versions of one paper whose documents change order, change twice, or vanish and come back; one failing call, death or repeated delivery, fair | rows name what was sent; a completed job has all documents in Dify; one task at a time leaves the latest there; every job is answered, deadlocks included |
| `GraphSync` | two papers, three graphs out of combinations of five lists of nodes and ten of edges, with confidences in and out of range | what is completed stays, an edge is there once, other papers' edges are not touched |
| `JobListing` | three jobs, one owner, two statuses, pages of one row, two moves | rows missed or repeated are no more than left or entered the list; what is listed can be read |
| `DuplicateDetection` | three papers, three submissions, two similar titles and one that becomes empty, two reviewers, one death | an earlier title is compared; a candidate stays true; the last review stands |
| `SecondRun`, `AcceptedLost` | as small as the behaviour allows | where the program does not do what its documents say |

The two findings of `PROJECT.json`:

- `SecondRun`: README_WORKFLOW_GATEWAY.md:312 promises no second run once a run
  id is known; the sweep decides on copies loaded when it began, and posts a
  second run of a job that another worker has started since.
- `AcceptedLost`: README_WORKFLOW_GATEWAY.md:10-11 promises that the worker
  consumes what was answered 202; after a broker failure a retry with the same
  key is answered 202, and the job is in no queue.

Further instances, not in the list of runs, stay beside them as `.cfg` files.
TLC finds the property of each violated, except that of `SyncFinishes`, which holds:

| instance | module | shows |
|---|---|---|
| `MissingKey` | `MCWorkflowRunner` | README_WORKFLOW_GATEWAY.md:311: a missing API key is to be reported; the runner marks the job failed, deletes its file and returns without a commit, so the row stays queued and its file is gone |
| `StreamEnds` | `MCWorkflowRunner` | README_WORKFLOW_GATEWAY.md:312: interruptions are to be recovered; a stream that ends before `workflow_finished` raises nothing, and the job stays running with nobody following it |
| `CancelOverwritten` | `MCWorkflowRunner` | README_WORKFLOW_GATEWAY.md:223: a worker's stale copy overwrites `cancelled`, and the job runs |
| `OwnerLimit` | `MCWorkflowAdmission` | README_WORKFLOW_GATEWAY.md:47: count and insert are not atomic, so the limit can be exceeded |
| `RepeatRefused` | `MCKnowledgeSync` | README.md:95: submitting A, B and A again ends in a 500, because A's version row exists already |
| `OverlappingSync` | `MCKnowledgeSync` | README.md:171 promises `partial_success` when Dify succeeds and Neo4j fails; when the message of a job is delivered again while its task is at work, the row ends with the results of one task and the status of the other |
| `SyncFinishes` | `MCKnowledgeSync` | without failing calls, one content with a graph, fair: though tasks collide over rows, and one message is delivered twice, the queue is emptied and no job left syncing, again and again, unless a task dies |
| `SharedKeys` | `MCDocumentSync` | two papers that name a document by one key: the row and the Dify document go over to the paper that is synchronised last, and the latest version of the other is no longer there, though its job says completed |

**Bounds.** Two runs of Dify are enough for a second run, which is the question;
two attempts of each retry loop give a first, a repeated and a last one. Crashes,
redeliveries and sweeps are bounded by one each: the properties compare one
session before with one after, or two at a time. Two requests in flight are the
least that race; the third comes after them, to find what they left. In
`Registration` four requests make A, B, A with one to race; the shared DOI makes
conflicts between papers. In `Synchronisation` two requests are two versions of
one paper, two workers concurrent tasks of it; `MaxFailures` counts a task whose
calls to both Dify and Neo4j fail once, so that `failed` is reached, and
`MaxInterruptions` deaths and repeated deliveries, of which one makes two tasks
of a job, overlapping or one after the other; registration
is exhausted in the other run, so that two are enough here. In `DocumentRaces`
two keys in opposite orders are the smallest circle of locks, three versions of
one key the smallest chain of updates. In `JobListing` pages of one row make
every boundary between rows one between requests. In `DuplicateDetection` three
papers give a chain of similar titles. `RunnerRaces` has only success, because
what races there is the worker's failure handling, not Dify's. Symmetry is used
for requests, workers, papers and jobs in safety runs only.

**Deadlock** is checked in every run: `Quiescent` steps say where the system may
rest.

**Fairness.** `RunnerSettles` assumes `WF_vars(WorkerStep(w))`. A worker's step is
never disabled forever by its environment, because every wait in the code is
bounded: httpx timeouts on each call, `asyncio.timeout` around the stream,
`min(delay, 60)` on each pause. Nothing is assumed of Dify, which may never end a
run, of clients or of the operator. The run excludes streams that end early and
crashes, with which `JobSettles` is false (`StreamEnds`). The instance
`SyncFinishes` and the run `DocumentRaces` assume weak fairness of every handler
that has begun (in `SyncFinishes`) and of every worker, for the same reason: the
calls and the polling have limits, and PostgreSQL aborts one of the tasks of a
deadlock. Death is no obligation, and no request need ever come.

## 5. What is proved

For any jobs, workers, cancel requests, runs and bounds, under `RunnerAssumption`
(which names no number): `TypeCorrect`, `ResultsAreReadable`,
`FailuresAreExplained`, `FilesAreCleanedUp`, `CancelledRunsAreStopped`.

*Argument.* The properties speak of `db`, but `db` is overwritten from copies of
any age, so they are not inductive. `IInv` states them of every copy, in `db`, in
`mem` and in `base` (`Sound`), together with `Keeps`: a result or an error code
that a session's base had is still in its object and in the table. That is what
makes a column-wise write safe: `Flush` can take `status` from one copy and
`result` from another, and if the status is the session's then so is the result,
or the table has one at least as good. `RunsOwned` ties a stream to its job's
run. The lemmas follow the shape of the code: what each event does to a sound
copy, what a flush does to two sound copies, that Dify's own steps keep copies
sound (a succeeded run stays succeeded), that deleting a file cannot make a copy
unsound. The types are proved first, with the labels at which a session must have
an object or a run (`Ready`). `CancelledRunsAreStopped` needs two more facts: a run
that has ended stays so (`EndsStay`), and a request on its way to the answer has
seen the end of the run that its copy names (`StopSeen`).

For the same constants with one worker and no cancel request (`OneAtATime`, which
`RunnerCrash` instantiates; crashes, redeliveries, sweeps and every failing call
included): `RunsCarryFiles`, `StartErrorsMeanNoRun`, `NoJobIsRunTwice`,
`FinishedJobsStay` and the refinement `LifecycleIsImplemented`. With a second
worker or a cancel the last three are false, as `SecondRun` and
`CancelOverwritten` show.

*Argument.* `AloneInv` (`WorkflowRunnerAlone`): what the worker's session has
loaded equals the rows, except the job it is about to commit (`Alone`), and that
commit is one step in the life of the job (`LifeStep`). A failure that is not
committed is the one exception, a missing API key, and then nothing is posted or
committed at all (`Keyless`). From `LifeStep` follow the step that is never
taken twice (a run is posted only for a row that waits), the one that is never
taken back (`FinalIsFinal`) and each step of `JobLifecycle`.

For any requests, owners, keys and files, under `AdmissionAssumption`
(`MaxConcurrent` and `MaxInFlight` positive): `TypeCorrect`, `OneJobPerKey`,
`LimitNearlyKept`, `UploadsAreComplete`, `FilesHaveOwners`. The limit is proved of
the jobs that have never ended (`FreshJobs`): a cancelled job that an old copy
makes active again passes no count. Completeness is proved until somebody begins
to delete the files of a job (`cleaned`), after which an active row may lack them.

*Argument.* `AInv` adds to the properties that a row is the one its request asked
for and keys are unique among rows (`RowsMatch`), that an accepted request names
a job with its own key (`Answered`), that the files of a request are stored in
order and stay until they are deleted (`FilesStored`), that a file of a deleted
set is gone or stuck (`Deleted`), and that admitted requests
that have no row yet count against the limit too (`Limits`). The last is the
strengthening that makes the bound inductive: a request passes the count only
when fewer than `MaxConcurrent` rows are active, fresh ones among them, and at most `MaxInFlight`
requests, itself included, are between count and insert.

For any requests, papers, contents, clashes, workers and bounds, under
`IngestionAssumption` and `SyncAssumption`, and of `KnowledgeSync`'s
specification, workers included: `TypeCorrect`, `VersionsAreInOrder`,
`OneSyncForEachContent`, `RefusalsHaveCause`, `RegistryImplemented`.

*Argument.* Everything rests on the advisory lock (`Exclusive`: of the requests
for a paper one is between `Register` and its end), because of which the row that
a transaction read is still there when it commits (`Begun`). So the next number
is really the next (`Numbered`, which has the finite cardinality), a violated
constraint is never the number but the content or the DOI (`ConflictHasCause`),
and a content that is new has no job yet (`JobsKnown`, `FreshAlone`). Workers
write nothing but statuses, the queue and their own tables
(`WorkerStepsKeepRInv`), but they read the latest version, which is why the types
need `Numbered` as well. The refinement has one step that counts:
`CommitFreshRegisters` shows that the histories put together from the rows differ
by one content at the end of one.

Under the same assumptions, of the same specification: `CompletedWasSent`,
`RecordsAreTrue`, `GraphRecordsAreTrue`, `StatusesAreHonest` and
`NoJobIsForgotten` (`SynchronisationProofs`). `SyncAssumption` asks that None, which
stands for a row that is not there, is none of the statuses a row can have.

*Argument.* What a task writes into the tables it has found out one or two
transactions earlier, so the properties of the tables are not inductive. `SInv`
states them of what tasks know as well (`TrueOf`): the record that was found, the
document and the version that were sent, the results that are going to be told.
That they are still true when they are written is the lemma `TruthStays`: every
step of every actor only adds (`Grow`), to what Dify and Neo4j got, to the
versions, to the records. `LatestSince`, which rests on `Numbered`, says that the
latest version a task reads is the job's own or a later one. A job for a content
that is there copies what its predecessor tells, of the same versions
(`CommitExistingTrue`). Nothing of this needs tasks to exclude each other.
`StatusHonest` does: the status sums up what the task remembers, while the row
holds what was saved last. It is stated, and proved, of jobs on which no two tasks
have worked at once, because with `Redeliver` it is false of others
(`OverlappingSync`). For those `HInv` shows that row and memory are the same
(`HeldBy`): although `kb_status` may be left to a later commit, and only columns
that differ from what the session knows are written, the session knows the row as
it is, since nobody else writes it (`Apart`). `RowsFollowTasks` states this. `NoneForgotten` says where the responsibility for a
job lies from the 202 on: a message, a task, or a final status, and each step of
each actor hands it over. It is inductive once a 202 is known to name a job
(`Answered`). A death may drop a message, so it is claimed only while there was none.

For any papers, histories of documents, workers, failing calls, deaths and
repeated deliveries, under
`DocumentAssumption`: `RowsNameSentDocuments`, `CompletedJobsCoverDocuments`.

*Argument.* `SInv`. A row is put together from what is in the table and from the
columns a task changed, so it is sound only because two tasks never hold the
same row (`Locked`) and because the identifier a task loaded is still the row's
when it writes (`Found`): identifiers never change once they are there, and the
content is written whenever it differs. A task on its way to "completed" has each
document of its version still before it or in what was sent (`Covered`).

With the hypothesis `KeysApart`, in addition: `StatusIsWhatDifySaid`,
`LatestIsInDify`. `KeysApart` says that two papers have no document key in
common. The code does not enforce it: the schema checks the keys of one
submission only (`schemas/ingestion.py:66-68`), and the row of a key takes over
the paper that wrote it last. The clients' keys begin with the paper's
identifier (`README.md:75`), and the run has one paper, for which the hypothesis
holds. It cannot be dropped: `SharedKeys.cfg` shows `LatestInDify` violated for
two papers with one key, and with two versions of one of them `StatusWasTold`
is violated as well.

*Argument.* `LInv`: while the tasks of a paper come one after the other, the one
at work knows the rows of its paper as they are (`TaskKnows`), has every document
of its version ahead, in place or about to be committed (`Placed`), Dify holds
no later version of any of them, and once the latest version is in place a task
finds nothing to do (`Resting`). A step of a task leaves all other papers'
rows and documents as they were (`Undisturbed`); that is where `KeysApart` is
used.

For any papers, graphs and syncs, under `GraphAssumption`:
`CompletedGraphsAreThere`, `EdgesAreThereOnce`, `OtherPapersAreUntouched`.

*Argument.* All edges have the key of their ends, relation and paper (`Keyed`).
`EdgeKeyTellsApart` is the lemma everything rests on: keys of edges between the
same two nodes are equal only if relation and paper are. It is enough that
the identity of an edge contains its ends, since the key alone can be ambiguous,
which the instance's third uid tries out. So an edge that is written over
is one of the same paper, and the edge in its place has the same ends and
relation (`UpsertWrites`); and edges that say the same have one identity, of which
merging leaves one (`IdentityIsStatement`, `MergedOnce`). That graphs in the table
pass the provider's validation follows from the schema's (`SchemaImpliesProvider`)
and is needed for every edge to find its ends. `EdgesMerged` says what `MergeEdges` leaves; it needs
that a non-empty set of indices has a greatest one.

For any jobs, page size and number of changes, under `ListingAssumption`:
`NothingMissedWithoutCause`, `NothingRepeatedWithoutCause`,
`ListedJobsCanBeRead`. The jobs need not be finitely many.

*Argument.* `LInv` counts two sets while the client pages: the jobs it has seen
that stand at or behind the offset of its next page (`From`), and those of its
start, never away and not seen, that stand before it (`Before`). Positions are
numbers of newer rows, and distinct, because times are (`Times`). An arrival
pushes at most one job back over the offset (`ArrivalMovesOneBack`), a leaving
lets at most one slip before it (`LeavingMovesOneAhead`), a page counts what it
repeats and moves the offset; and nothing stands behind a page that is not full
(`ShortPageIsLast`), so at the end all that was missed stood before.

For any papers, titles, scores and reviewers, under `DuplicateAssumption`:
`EarlierPapersAreCompared`, `CandidatesAreTrue`, `LastReviewStands`.

*Argument.* `DInv`: a title, once there, is not changed; a transaction that has
locked its paper finds there what it read, and has compared, or is going to
compare, all titles that were committed when it began (`Underway`, `Compares`); a
candidate has the score of the titles its papers have, in one of the two orders;
and a reviewer that began after all others were answered finds the status it
loaded (`Reviewed`).

Only model-checked: liveness (`JobSettles`, `JobsAnswered`, and `JobsFinish` of
`SyncFinishes`), which is out of the prover's reach. The inductive invariants were
model-checked on the instances before they were proved. Leaves that name a time
limit (`SMTT`, `ZenonT`) are those that need more than a moment of the prover.

## 6. Not modelled

- Paper queries (they only read, and are paged as jobs are), admin and its
  counts, retrieval, health and CLI: no state that other parts use.
- Authentication, settings, middleware (the limit of request bodies included),
  schemas and migrations: stateless checks; what matters is a constant, a guard
  or a unique constraint in the models.
- Object storage, which is never called.
- SQLite's `database is locked` retries, PostgreSQL being the deployment's
  database; an owner limit of 0, which the code takes for 1.
- The filter of papers by `source_type` and the visibility of papers.
- Two overlapping tasks of one paper may leave an older content in Dify; nothing
  promises otherwise, and `LatestInDify` is stated for tasks that do not overlap.
- Whether two titles ought to be similar, and whether the counts of edges agree:
  nothing says so.
