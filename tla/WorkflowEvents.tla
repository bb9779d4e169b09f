--------------------------- MODULE WorkflowEvents ---------------------------
(***************************************************************************)
(* The pure part of WorkflowJobRunner: what a Dify event, a Dify run       *)
(* detail or a failure does to the row of a workflow job, and what a       *)
(* SQLAlchemy session writes when it commits that row.                     *)
(*                                                                         *)
(* Abstractions.  dify_task_id and dify_workflow_run_id arrive together in *)
(* workflow_started and are written together: the one column "run" stands  *)
(* for both.  event_count is only ever compared with 0: "seen".  The       *)
(* result and its summary are the run that produced them.  Node ids,       *)
(* messages, retry_count and timestamps are left out.                      *)
(***************************************************************************)
CONSTANTS
    Runs,   \* identifiers of Dify workflow runs
    None    \* a NULL column, an object that is not loaded

ActiveStatuses == {"queued", "uploading", "starting", "running",
                   "reconnecting", "cancel_requested"}
FinalStatuses == {"succeeded", "failed", "cancelled"}

ErrorCodes == {"missing_dify_workflow_api_key", "workflow_start_error",
               "workflow_runtime_error", "workflow_failed"}

\* temporary_file_manifest_json: no entry, entries without a Dify upload id,
\* entries that carry one.
Manifests == {"empty", "stored", "uploaded"}

\* The columns of workflow_jobs that the runner reads and writes.
WorkflowJob == [status   : ActiveStatuses \cup FinalStatuses,
                run      : Runs \cup {None},
                seen     : BOOLEAN,
                result   : Runs \cup {None},
                error    : ErrorCodes \cup {None},
                manifest : Manifests,
                inputs   : BOOLEAN]   \* request_inputs_json has a paper file

\* A job as _build_job creates it, for an upload or for an arXiv paper.
NewJob(isUpload) ==
    [status |-> "queued", run |-> None, seen |-> FALSE, result |-> None,
     error |-> None, manifest |-> IF isUpload THEN "stored" ELSE "empty",
     inputs |-> FALSE]

IsFinal(job) == job.status \in FinalStatuses

MarkFailed(job, code) ==
    [job EXCEPT !.status = "failed", !.error = code, !.manifest = "empty"]

\* Slip: Dify's other spelling of the status.
MarkCanceled(job) ==
    [job EXCEPT !.status = "canceled", !.manifest = "empty"]

MarkCancelled(job) ==
    [job EXCEPT !.status = "cancelled", !.manifest = "empty"]

Succeed(job, run) ==
    [job EXCEPT !.status = "succeeded", !.result = run, !.manifest = "empty"]

\* Slip: every runtime error is taken for a failed start.
StartErrorCode(job) == "workflow_start_error"

\* Slip: a run that was started is expected to have left its error code.
StartErrorOnly(job) ==
    IF ~job.seen /\ job.run = None THEN "workflow_start_error" ELSE None

\* The error code is chosen from what this session's copy of the job knows.
RuntimeErrorCode(job) ==
    IF ~job.seen /\ job.run = None THEN "workflow_start_error"
                                   ELSE "workflow_runtime_error"

-----------------------------------------------------------------------------
\* States of a run on Dify's side.  "other" is a final state whose name the
\* code does not know (Dify has several).
DifyFinal == {"succeeded", "failed", "stopped", "other"}
DifyStates == DifyFinal \cup {"none", "running"}

ApplyFinished(job, run, outcome) ==
    CASE outcome = "succeeded" -> Succeed(job, run)
      [] outcome = "stopped"   -> MarkCancelled(job)
      [] OTHER                 -> MarkFailed(job, "workflow_failed")

\* The events the runner tells apart.  A ping, an unknown event and a node
\* event after workflow_started change nothing that is modelled.
EventNames == {"workflow_started", "workflow_finished", "error"}

ApplyEvent(job, name, run, outcome) ==
    LET counted == [job EXCEPT !.seen = TRUE] IN
    CASE name = "workflow_started"  ->
            [counted EXCEPT !.status = "running", !.run = run]
      [] name = "workflow_finished" -> ApplyFinished(counted, run, outcome)
      [] name = "error"             -> MarkFailed(counted, "workflow_failed")

ApplyRunDetail(job, run, outcome) ==
    CASE outcome = "succeeded" -> Succeed(job, run)
      [] outcome = "failed"    -> MarkFailed(job, "workflow_failed")
      [] outcome = "stopped"   -> MarkCancelled(job)
      [] OTHER                 -> [job EXCEPT !.status = "reconnecting"]

-----------------------------------------------------------------------------
\* A flush writes the columns whose value differs from the one the session
\* loaded or last wrote, over whatever the row holds now; it compares no
\* version and reads nothing back.
Column(row, loaded, changed) == IF changed # loaded THEN changed ELSE row

\* Slip: the result dict is changed in place, which the session does not track.
FlushUntrackedResult(row, loaded, object) ==
    [status   |-> Column(row.status, loaded.status, object.status),
     run      |-> Column(row.run, loaded.run, object.run),
     seen     |-> Column(row.seen, loaded.seen, object.seen),
     result   |-> row.result,
     error    |-> Column(row.error, loaded.error, object.error),
     manifest |-> Column(row.manifest, loaded.manifest, object.manifest),
     inputs   |-> Column(row.inputs, loaded.inputs, object.inputs)]

Flush(row, loaded, object) ==
    [status   |-> Column(row.status, loaded.status, object.status),
     run      |-> Column(row.run, loaded.run, object.run),
     seen     |-> Column(row.seen, loaded.seen, object.seen),
     result   |-> Column(row.result, loaded.result, object.result),
     error    |-> Column(row.error, loaded.error, object.error),
     manifest |-> Column(row.manifest, loaded.manifest, object.manifest),
     inputs   |-> Column(row.inputs, loaded.inputs, object.inputs)]
=============================================================================
