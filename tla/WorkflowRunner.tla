--------------------------- MODULE WorkflowRunner ---------------------------
(***************************************************************************)
(* Celery workers that drive workflow jobs through Dify, and HTTP requests *)
(* that cancel them.  Each opens a SQLAlchemy session of its own: it loads *)
(* a row once, edits the loaded object in memory, and commits without      *)
(* reading the row again (expire_on_commit=False).  A step ends where the  *)
(* code awaits the database, Dify or a timer, so that the sessions         *)
(* interleave at every such point.                                         *)
(*                                                                         *)
(* A failing database ends a session the way a crash does.  Unlinking the  *)
(* file of an Undeletable job raises an OSError, whoever tries it; it is   *)
(* swallowed, and the manifest emptied all the same.                       *)
(***************************************************************************)
EXTENDS WorkflowEvents, Naturals, Sequences

CONSTANTS
    Jobs,                 \* jobs already committed and dispatched
    Uploads,              \* the jobs that came with a file
    Undeletable,          \* those whose file the workers cannot unlink
    Workers,              \* task slots of the workflow_gateway workers
    Cancels,              \* cancel requests a client may send
    Sweep,                \* the recover_workflow_gateway_jobs message
    Sweeps,               \* bound: how often an operator sends it
    KeyAtStart,           \* whether DIFY_WORKFLOW_API_KEY may be set at first
    StreamMayEndEarly,    \* the event stream may end before workflow_finished
    Outcomes,             \* how runs end on Dify's side, unless stopped by us
    StartMaxAttempts,     \* workflow_gateway_start_max_attempts
    ReconnectMaxAttempts, \* workflow_gateway_reconnect_max_attempts
    MaxCrashes,           \* bound: crashes of a worker or of a request
    MaxRedeliveries       \* bound: redeliveries of a message still in work

ASSUME RunnerAssumption ==
    /\ Uploads \subseteq Jobs
    /\ Undeletable \subseteq Uploads
    /\ Workers \cap Cancels = {}
    /\ Sweep \notin Jobs
    /\ None \notin Jobs \cup Runs \cup {Sweep} \cup ErrorCodes \cup WorkflowJob
    /\ KeyAtStart \subseteq BOOLEAN
    /\ StreamMayEndEarly \in BOOLEAN
    /\ Outcomes \subseteq DifyFinal
    /\ StartMaxAttempts \in Nat
    /\ ReconnectMaxAttempts \in Nat
    /\ Sweeps \in Nat
    /\ MaxCrashes \in Nat
    /\ MaxRedeliveries \in Nat

Sessions == Workers \cup Cancels
Messages == Jobs \cup {Sweep}

VARIABLES
    db,           \* table workflow_jobs
    onDisk,       \* the stored upload of a job is still in upload_dir
    dify,         \* the runs Dify has, each with the job it was started for
    queue,        \* messages of the Celery queue workflow_gateway
    ctl,          \* where each session is in its code
    mem,          \* the objects a session has loaded and edited
    base,         \* the same objects as last read from or written to db
    hasKey,       \* the workers' settings hold a Dify workflow API key
    crashes,
    redeliveries
vars == <<db, onDisk, dify, queue, ctl, mem, base, hasKey, crashes,
          redeliveries>>
data == <<db, onDisk, dify>>
env == <<hasKey, crashes, redeliveries>>

PCs == {"idle", "next", "commit", "upload", "starting", "post", "stream",
        "handler", "events", "event", "stop", "replied", "done"}

\* msg: the message to acknowledge; todo: jobs still to run; cur: the job in
\* work; stream: the run whose events are read; attempt: failed starts; recon:
\* reconnects, 0 outside _handle_runtime_error; evs: recovered events to apply.
Idle == [pc |-> "idle", after |-> "idle", msg |-> None, todo |-> {},
         cur |-> None, stream |-> None, attempt |-> 0, recon |-> 0,
         evs |-> <<>>]

Nothing == [j \in Jobs |-> None]
NoRun == [state |-> "none", job |-> None, file |-> FALSE]

Init ==
    /\ db = [j \in Jobs |-> NewJob(j \in Uploads)]
    /\ onDisk = [j \in Jobs |-> j \in Uploads]
    /\ dify = [r \in Runs |-> NoRun]
    /\ queue = [m \in Messages |-> IF m = Sweep THEN Sweeps ELSE 1]
    /\ ctl = [s \in Sessions |-> Idle]
    /\ mem = [s \in Sessions |-> Nothing]
    /\ base = [s \in Sessions |-> Nothing]
    /\ hasKey \in KeyAtStart
    /\ crashes = 0
    /\ redeliveries = 0

-----------------------------------------------------------------------------
(* Sessions.                                                               *)

\* The object a select of job j gives: the one in the identity map, as stale
\* as it may be, or else one made from the row.
Object(s, j) == IF mem[s][j] = None THEN db[j] ELSE mem[s][j]

\* Slip: a file that was handed to Dify is taken for moved.
CleanupUnsentFiles(j, job) ==
    IF job.manifest # "stored" \/ j \in Undeletable THEN onDisk
    ELSE [onDisk EXCEPT ![j] = FALSE]

CleanupFiles(j, job) ==
    IF job.manifest = "empty" \/ j \in Undeletable THEN onDisk
    ELSE [onDisk EXCEPT ![j] = FALSE]

\* The session edits its object.  Whatever makes a job final also unlinks the
\* files its manifest lists, if they can be unlinked.
Edit(s, j, object) ==
    /\ mem' = [mem EXCEPT ![s][j] = object]
    /\ base' = [base EXCEPT ![s][j] = IF mem[s][j] = None THEN db[j] ELSE @]
    /\ onDisk' = IF IsFinal(object) THEN CleanupFiles(j, Object(s, j))
                                    ELSE onDisk

Goto(s, label) == ctl' = [ctl EXCEPT ![s].pc = label]

\* Edit the object, commit, and go on at label.
Save(s, j, object, label) ==
    /\ Edit(s, j, object)
    /\ ctl' = [ctl EXCEPT ![s].pc = "commit", ![s].after = label]

\* The whole unit of work is flushed, not only the job in work.
Commit(s) ==
    /\ ctl[s].pc = "commit"
    /\ db' = [j \in Jobs |-> IF mem[s][j] = None THEN db[j]
                             ELSE Flush(db[j], base[s][j], mem[s][j])]
    /\ base' = [base EXCEPT ![s] = mem[s]]
    /\ Goto(s, ctl[s].after)
    /\ UNCHANGED <<onDisk, dify, queue, mem, env>>

\* Closing a session rolls back what it did not commit.
Close(s, control) ==
    /\ ctl' = [ctl EXCEPT ![s] = control]
    /\ mem' = [mem EXCEPT ![s] = Nothing]
    /\ base' = [base EXCEPT ![s] = Nothing]

-----------------------------------------------------------------------------
(* A worker takes a message; it is acknowledged when the task ends.        *)

TakeMessage(w, m, jobs, objects) ==
    /\ ctl[w].pc = "idle"
    /\ queue[m] > 0
    /\ queue' = [queue EXCEPT ![m] = @ - 1]
    /\ ctl' = [ctl EXCEPT ![w] = [Idle EXCEPT !.pc = "next", !.msg = m,
                                              !.todo = jobs]]
    /\ mem' = [mem EXCEPT ![w] = objects]
    /\ base' = [base EXCEPT ![w] = objects]
    /\ UNCHANGED <<data, env>>

TakeJob(w, j) == TakeMessage(w, j, {j}, Nothing)

\* recover_unfinished loads every active row before it runs the first of them.
TakeSweep(w) ==
    LET active == {j \in Jobs : db[j].status \in ActiveStatuses} IN
    TakeMessage(w, Sweep, active,
                [j \in Jobs |-> IF j \in active THEN db[j] ELSE None])

EndTask(w) ==
    /\ ctl[w].pc = "next"
    /\ ctl[w].todo = {}
    /\ Close(w, Idle)
    /\ UNCHANGED <<data, queue, env>>

\* run(job_id), by what the session sees of the job.
RunJob(w, j, label, next) ==
    /\ ctl[w].pc = "next"
    /\ j \in ctl[w].todo
    /\ ctl' = [ctl EXCEPT ![w] =
                 [Idle EXCEPT !.pc = label, !.after = next, !.cur = j,
                              !.msg = ctl[w].msg, !.todo = ctl[w].todo \ {j}]]
    /\ UNCHANGED <<db, dify, queue, env>>

RunFinal(w, j) ==
    /\ IsFinal(Object(w, j))
    /\ RunJob(w, j, "next", "next")
    /\ UNCHANGED <<onDisk, mem, base>>

RunCancelRequested(w, j) ==
    /\ Object(w, j).status = "cancel_requested"
    /\ RunJob(w, j, "commit", "next")
    /\ Edit(w, j, MarkCancelled(Object(w, j)))

\* Slip: a final status is not looked at.
RunnableUnlessCancelled(job) == job.status # "cancel_requested"

Runnable(job) == ~IsFinal(job) /\ job.status # "cancel_requested"

RunRecover(w, j) ==
    /\ Runnable(Object(w, j))
    /\ Object(w, j).run # None
    /\ RunJob(w, j, "commit", "events")
    /\ Edit(w, j, [Object(w, j) EXCEPT !.status = "reconnecting"])

\* The job is failed in memory, its files are deleted, and run() returns:
\* nothing commits.
RunMissingKey(w, j) ==
    /\ Runnable(Object(w, j))
    /\ Object(w, j).run = None
    /\ ~hasKey
    /\ RunJob(w, j, "next", "next")
    /\ Edit(w, j, MarkFailed(Object(w, j), "missing_dify_workflow_api_key"))

RunUpload(w, j) ==
    /\ Runnable(Object(w, j))
    /\ Object(w, j).run = None
    /\ hasKey
    /\ Object(w, j).manifest # "empty"
    /\ RunJob(w, j, "commit", "upload")
    /\ Edit(w, j, [Object(w, j) EXCEPT !.status = "uploading"])

RunStart(w, j) ==
    /\ Runnable(Object(w, j))
    /\ Object(w, j).run = None
    /\ hasKey
    /\ Object(w, j).manifest = "empty"
    /\ RunJob(w, j, "commit", "post")
    /\ Edit(w, j, [Object(w, j) EXCEPT !.status = "starting"])

-----------------------------------------------------------------------------
(* _start_new_run.                                                         *)

Cur(s) == mem[s][ctl[s].cur]

Proceed == UNCHANGED <<db, dify, queue, env>>

\* Slip: the copy of the inputs is changed and not stored back.
UploadForgettingInputs(w) ==
    /\ ctl[w].pc = "upload"
    /\ Cur(w).manifest = "uploaded" \/ onDisk[ctl[w].cur]
    /\ Save(w, ctl[w].cur, [Cur(w) EXCEPT !.manifest = "uploaded"], "starting")
    /\ Proceed

\* An entry that has a Dify upload id is not uploaded again.
Upload(w) ==
    /\ ctl[w].pc = "upload"
    /\ Cur(w).manifest = "uploaded" \/ onDisk[ctl[w].cur]
    /\ Save(w, ctl[w].cur,
            [Cur(w) EXCEPT !.manifest = "uploaded", !.inputs = TRUE],
            "starting")
    /\ Proceed

UploadFails(w) ==
    /\ ctl[w].pc = "upload"
    /\ Cur(w).manifest # "uploaded"
    /\ Goto(w, "handler")
    /\ UNCHANGED <<data, queue, mem, base, env>>

StartRun(w) ==
    /\ ctl[w].pc = "starting"
    /\ Save(w, ctl[w].cur, [Cur(w) EXCEPT !.status = "starting"], "post")
    /\ Proceed

FreeRuns == {r \in Runs : dify[r].state = "none"}

\* Dify starts a run for the inputs it is posted.
CreateRun(w) ==
    LET r == CHOOSE r \in FreeRuns : TRUE IN
    /\ FreeRuns # {}
    /\ dify' = [dify EXCEPT ![r] = [state |-> "running", job |-> ctl[w].cur,
                                    file |-> Cur(w).inputs]]

PostRun(w) ==
    /\ ctl[w].pc = "post"
    /\ CreateRun(w)
    /\ ctl' = [ctl EXCEPT ![w].pc = "stream",
                          ![w].stream = CHOOSE r \in FreeRuns : TRUE]
    /\ UNCHANGED <<db, onDisk, queue, mem, base, env>>

\* Slip: the retry does not ask whether a run is known.
StartExceptionBlind(w) ==
    IF ctl[w].attempt + 1 >= StartMaxAttempts
    THEN Goto(w, "handler") /\ UNCHANGED <<onDisk, mem, base>>
    ELSE /\ Edit(w, ctl[w].cur, [Cur(w) EXCEPT !.status = "starting"])
         /\ ctl' = [ctl EXCEPT ![w].pc = "commit", ![w].after = "post",
                               ![w].stream = None, ![w].attempt = @ + 1]

\* An exception inside the retry loop: another POST, unless the job knows a run.
StartException(w) ==
    LET known == Cur(w).run # None \/ Cur(w).seen
        last == ctl[w].attempt + 1 >= StartMaxAttempts IN
    IF known \/ last
    THEN Goto(w, "handler") /\ UNCHANGED <<onDisk, mem, base>>
    ELSE /\ Edit(w, ctl[w].cur, [Cur(w) EXCEPT !.status = "starting"])
         /\ ctl' = [ctl EXCEPT ![w].pc = "commit", ![w].after = "post",
                               ![w].stream = None, ![w].attempt = @ + 1]

\* The POST fails, or its answer is lost after Dify has started the run.
PostFails(w) ==
    /\ ctl[w].pc = "post"
    /\ UNCHANGED dify \/ CreateRun(w)
    /\ StartException(w)
    /\ UNCHANGED <<db, queue, env>>

-----------------------------------------------------------------------------
(* The event stream of the run.                                            *)

Receive(w, name) ==
    LET r == ctl[w].stream
        job == ApplyEvent(Cur(w), name, r, dify[r].state) IN
    /\ Save(w, ctl[w].cur, job, IF IsFinal(job) THEN "next" ELSE "stream")
    /\ Proceed

StreamStarted(w) ==
    /\ ctl[w].pc = "stream"
    /\ Cur(w).run = None
    /\ Receive(w, "workflow_started")

StreamFinished(w) ==
    /\ ctl[w].pc = "stream"
    /\ Cur(w).run = ctl[w].stream
    /\ dify[ctl[w].stream].state \in DifyFinal
    /\ Receive(w, "workflow_finished")

StreamError(w) ==
    /\ ctl[w].pc = "stream"
    /\ dify[ctl[w].stream].state = "failed"
    /\ Receive(w, "error")

\* The iteration over the stream ends normally: run() returns.
StreamEnds(w) ==
    /\ ctl[w].pc = "stream"
    /\ StreamMayEndEarly
    /\ Goto(w, "next")
    /\ UNCHANGED <<data, queue, mem, base, env>>

StreamBreaks(w) ==
    /\ ctl[w].pc = "stream"
    /\ StartException(w)
    /\ Proceed

\* asyncio.timeout(workflow_gateway_max_runtime_seconds)
RuntimeExceeded(w) ==
    /\ ctl[w].pc \in {"post", "stream"}
    /\ Goto(w, "handler")
    /\ UNCHANGED <<data, queue, mem, base, env>>

-----------------------------------------------------------------------------
(* _handle_runtime_error and recover.                                      *)

Reconnect(w) ==
    /\ ctl[w].pc = "handler"
    /\ Cur(w).run # None
    /\ ctl[w].recon < ReconnectMaxAttempts
    /\ Edit(w, ctl[w].cur, [Cur(w) EXCEPT !.status = "reconnecting"])
    /\ ctl' = [ctl EXCEPT ![w].pc = "commit", ![w].after = "events",
                          ![w].recon = @ + 1]
    /\ Proceed

GiveUp(w) ==
    /\ ctl[w].pc = "handler"
    /\ Cur(w).run = None \/ ctl[w].recon >= ReconnectMaxAttempts
    /\ Save(w, ctl[w].cur, MarkFailed(Cur(w), RuntimeErrorCode(Cur(w))), "next")
    /\ Proceed

\* The event lists Dify may answer with: a snapshot of the run.
Snapshots(r) ==
    {<<>>, <<"workflow_started">>} \cup
    (IF dify[r].state \in DifyFinal
     THEN {<<"workflow_finished">>, <<"workflow_started", "workflow_finished">>}
     ELSE {})

GetEvents(w) ==
    /\ ctl[w].pc = "events"
    /\ \E evs \in Snapshots(Cur(w).run) :
          ctl' = [ctl EXCEPT ![w].pc = "event", ![w].evs = evs]
    /\ UNCHANGED <<data, queue, mem, base, env>>

ApplyRecovered(w) ==
    LET r == Cur(w).run
        job == ApplyEvent(Cur(w), Head(ctl[w].evs), r, dify[r].state) IN
    /\ ctl[w].pc = "event"
    /\ ctl[w].evs # <<>>
    /\ Edit(w, ctl[w].cur, job)
    /\ ctl' = [ctl EXCEPT ![w].pc = "commit",
                          ![w].after = IF IsFinal(job) THEN "next" ELSE "event",
                          ![w].evs = IF IsFinal(job) THEN <<>> ELSE Tail(@)]
    /\ Proceed

\* Slip: the handler returns after a recovery that leaves the job unfinished.
GetRunDetailOnce(w) ==
    LET r == Cur(w).run IN
    /\ ctl[w].pc = "event"
    /\ ctl[w].evs = <<>>
    /\ Save(w, ctl[w].cur, ApplyRunDetail(Cur(w), r, dify[r].state), "next")
    /\ Proceed

\* Outside the handler a recovery that leaves the job unfinished is the end.
GetRunDetail(w) ==
    LET r == Cur(w).run
        job == ApplyRunDetail(Cur(w), r, dify[r].state) IN
    /\ ctl[w].pc = "event"
    /\ ctl[w].evs = <<>>
    /\ Save(w, ctl[w].cur, job,
            IF IsFinal(job) \/ ctl[w].recon = 0 THEN "next" ELSE "handler")
    /\ Proceed

\* Either GET fails or times out.
RecoverFails(w) ==
    /\ \/ ctl[w].pc = "events"
       \/ ctl[w].pc = "event" /\ ctl[w].evs = <<>>
    /\ Goto(w, "handler")
    /\ UNCHANGED <<data, queue, mem, base, env>>

-----------------------------------------------------------------------------
(* POST /v1/workflow-jobs/{job_id}/cancel.                                 *)

Request(c, j, label, next) ==
    /\ ctl[c].pc = "idle"
    /\ ctl' = [ctl EXCEPT ![c] = [Idle EXCEPT !.pc = label, !.after = next,
                                              !.cur = j]]
    /\ UNCHANGED <<db, dify, queue, env>>

CancelFinal(c, j) ==
    /\ IsFinal(Object(c, j))
    /\ Request(c, j, "done", "done")
    /\ UNCHANGED <<onDisk, mem, base>>

\* Slip: a started job is cancelled without stopping its run.
CancelWithoutStop(c, j) ==
    /\ ~IsFinal(Object(c, j))
    /\ Object(c, j).run # None
    /\ Request(c, j, "commit", "replied")
    /\ Edit(c, j, MarkCancelled(Object(c, j)))

CancelStarted(c, j) ==
    /\ ~IsFinal(Object(c, j))
    /\ Object(c, j).run # None
    /\ Request(c, j, "commit", "stop")
    /\ Edit(c, j, [Object(c, j) EXCEPT !.status = "cancel_requested"])

CancelNotStarted(c, j) ==
    /\ ~IsFinal(Object(c, j))
    /\ Object(c, j).run = None
    /\ Request(c, j, "commit", "replied")
    /\ Edit(c, j, MarkCancelled(Object(c, j)))

StopRun(r) ==
    dify' = [dify EXCEPT ![r].state = IF @ = "running" THEN "stopped" ELSE @]

StopTask(c) ==
    /\ ctl[c].pc = "stop"
    /\ StopRun(Cur(c).run)
    /\ Save(c, ctl[c].cur, MarkCancelled(Cur(c)), "replied")
    /\ UNCHANGED <<db, queue, env>>

\* The stop call fails, or its answer is lost: the request answers 500.
StopFails(c) ==
    /\ ctl[c].pc = "stop"
    /\ UNCHANGED dify \/ StopRun(Cur(c).run)
    /\ Close(c, [Idle EXCEPT !.pc = "done"])
    /\ UNCHANGED <<db, onDisk, queue, env>>

-----------------------------------------------------------------------------
(* The environment.                                                        *)

\* A run ends on Dify's side; a user of Dify may stop it there.
DifyEnds(r) ==
    /\ dify[r].state = "running"
    /\ \E outcome \in Outcomes :
          dify' = [dify EXCEPT ![r].state = outcome]
    /\ UNCHANGED <<db, onDisk, queue, ctl, mem, base, env>>

\* A session dies: its transaction is rolled back and, with acks_late, the
\* message of a worker goes back to the queue.
Crash(s) ==
    /\ crashes < MaxCrashes
    /\ ctl[s].pc \notin {"idle", "replied", "done"}
    /\ crashes' = crashes + 1
    /\ queue' = IF ctl[s].msg = None THEN queue
                                     ELSE [queue EXCEPT ![ctl[s].msg] = @ + 1]
    /\ Close(s, IF s \in Workers THEN Idle ELSE [Idle EXCEPT !.pc = "done"])
    /\ UNCHANGED <<data, hasKey, redeliveries>>

\* The broker's visibility timeout passes while a worker still runs the task.
Redeliver(w) ==
    /\ redeliveries < MaxRedeliveries
    /\ ctl[w].msg # None
    /\ redeliveries' = redeliveries + 1
    /\ queue' = [queue EXCEPT ![ctl[w].msg] = @ + 1]
    /\ ctl' = [ctl EXCEPT ![w].msg = None]
    /\ UNCHANGED <<data, mem, base, hasKey, crashes>>

WorkerIdle(w) == ctl[w].pc = "idle"

\* The operator sets the key and restarts the workers: get_settings is cached.
ConfigureKey ==
    /\ ~hasKey
    /\ \A w \in Workers : WorkerIdle(w)
    /\ hasKey' = TRUE
    /\ UNCHANGED <<data, queue, ctl, mem, base, crashes, redeliveries>>

AllDelivered == \A w \in Workers, m \in Messages :
                    WorkerIdle(w) /\ queue[m] = 0

\* Nothing is left to do: the only state where the system may stop.
Quiescent ==
    /\ AllDelivered
    /\ \A c \in Cancels : ctl[c].pc \in {"idle", "replied", "done"}
    /\ UNCHANGED vars

-----------------------------------------------------------------------------
WorkerStep(w) ==
    \/ \E j \in Jobs :
          \/ TakeJob(w, j)
          \/ RunFinal(w, j)
          \/ RunCancelRequested(w, j)
          \/ RunRecover(w, j)
          \/ RunMissingKey(w, j)
          \/ RunUpload(w, j)
          \/ RunStart(w, j)
    \/ TakeSweep(w)
    \/ EndTask(w)
    \/ Upload(w) \/ UploadFails(w) \/ StartRun(w)
    \/ PostRun(w) \/ PostFails(w)
    \/ StreamStarted(w) \/ StreamFinished(w) \/ StreamError(w)
    \/ StreamEnds(w) \/ StreamBreaks(w) \/ RuntimeExceeded(w)
    \/ Reconnect(w) \/ GiveUp(w)
    \/ GetEvents(w) \/ ApplyRecovered(w) \/ GetRunDetail(w) \/ RecoverFails(w)
    \/ Commit(w)

CancelStep(c) ==
    \/ \E j \in Jobs :
          CancelFinal(c, j) \/ CancelStarted(c, j) \/ CancelNotStarted(c, j)
    \/ StopTask(c) \/ StopFails(c)
    \/ Commit(c)

Next ==
    \/ \E w \in Workers : WorkerStep(w) \/ Redeliver(w)
    \/ \E c \in Cancels : CancelStep(c)
    \/ \E s \in Sessions : Crash(s)
    \/ \E r \in Runs : DifyEnds(r)
    \/ ConfigureKey
    \/ Quiescent

Spec == Init /\ [][Next]_vars

\* Every wait of a worker is bounded: HTTP calls by the httpx timeouts, the
\* stream by asyncio.timeout, the pauses by min(delay, 60).
FairSpec == Spec /\ \A w \in Workers : WF_vars(WorkerStep(w))
-----------------------------------------------------------------------------
(* Types.                                                                  *)

Control == [pc : PCs, after : PCs, msg : Messages \cup {None},
            todo : SUBSET Jobs, cur : Jobs \cup {None},
            stream : Runs \cup {None}, attempt : Nat, recon : Nat,
            evs : Seq(EventNames)]

DifyRun == [state : DifyStates, job : Jobs \cup {None}, file : BOOLEAN]

\* Every variable has its type, and the labels after which the code reads the
\* job in work or the stream have one.
TypeOK ==
    /\ db \in [Jobs -> WorkflowJob]
    /\ onDisk \in [Jobs -> BOOLEAN]
    /\ dify \in [Runs -> DifyRun]
    /\ queue \in [Messages -> Nat]
    /\ ctl \in [Sessions -> Control]
    /\ mem \in [Sessions -> [Jobs -> WorkflowJob \cup {None}]]
    /\ base \in [Sessions -> [Jobs -> WorkflowJob \cup {None}]]
    /\ hasKey \in BOOLEAN
    /\ crashes \in Nat
    /\ redeliveries \in Nat

-----------------------------------------------------------------------------
(* Safety, whatever the sessions do to each other.                         *)

\* read_result: the HTTP status a client gets for a job.
ResultStatus(job) ==
    CASE job.status \in ActiveStatuses          -> 202
      [] job.status \in {"failed", "cancelled"} -> 409
      [] OTHER                                  -> 200

\* A job whose result a client may fetch has one, and it is the output of a
\* run that Dify completed for this very job: also when sessions that loaded
\* the row long ago write their columns over it.
ResultReadable ==
    \A j \in Jobs :
        ResultStatus(db[j]) = 200 =>
            /\ db[j].result # None
            /\ dify[db[j].result].state = "succeeded"
            /\ dify[db[j].result].job = j

\* A failed job says why, even when another session overwrote its status.
FailureExplained ==
    \A j \in Jobs : db[j].status = "failed" => db[j].error # None

\* The upload of a finished job is gone, and no row forgets, by an empty
\* manifest, a file that is still in upload_dir, if it can be unlinked at all:
\* also when the session that deleted the file never commits, or commits over
\* another's edit.
NoFileLeftBehind ==
    \A j \in Jobs \ Undeletable :
        onDisk[j] => ~IsFinal(db[j]) /\ db[j].manifest # "empty"

\* A cancel that saw a run of the job answers only when that run has stopped.
CancelledRunStopped ==
    \A c \in Cancels :
        ctl[c].pc = "replied" /\ Cur(c).run # None =>
            dify[Cur(c).run].state # "running"

-----------------------------------------------------------------------------
(* Safety when one worker at a time runs a job.                            *)

\* A run is posted only for a job that has none, across crashes, redelivered
\* messages and recovery sweeps.
NoSecondRun ==
    [][\A r \in Runs :
          dify[r].state = "none" /\ dify'[r].state # "none" =>
              db[dify'[r].job].run = None]_vars

\* Dify is never asked to analyse an upload without its file.
RunCarriesFile ==
    \A r \in Runs :
        dify[r].state # "none" /\ dify[r].job \in Uploads => dify[r].file

\* "workflow_start_error" is only said of a job no run of which is known.
StartErrorMeansNoRun ==
    \A j \in Jobs :
        db[j].status = "failed" /\ db[j].error = "workflow_start_error" =>
            db[j].run = None

\* Without a cancel request, a finished job keeps its status.
FinalIsFinal ==
    [][\A j \in Jobs : IsFinal(db[j]) => db'[j].status = db[j].status]_vars

-----------------------------------------------------------------------------
(* Progress.                                                               *)

\* A delivered job that meets failures, but no stream that ends early and no
\* crash, is finished, and every worker gives its message up again: retries are
\* bounded.
JobSettles ==
    <>[](/\ \A j \in Jobs : IsFinal(db[j])
         /\ \A w \in Workers : WorkerIdle(w))

-----------------------------------------------------------------------------
(* What the documentation says and the code does not keep.                 *)

\* README_WORKFLOW_GATEWAY.md:311: a job without an API key is failed.
MissingKeyReported ==
    AllDelivered => \A j \in Jobs : db[j].status = "failed"

\* README_WORKFLOW_GATEWAY.md:312: an interrupted stream is recovered.
InterruptionRecovered ==
    AllDelivered => \A j \in Jobs : db[j].run # None => IsFinal(db[j])

\* README_WORKFLOW_GATEWAY.md:223: a job that was not started when a client
\* cancelled it is cancelled.
CancelSticks ==
    \A c \in Cancels :
        ctl[c].pc = "replied" /\ Cur(c).run = None =>
            db[ctl[c].cur].status = "cancelled"
=============================================================================
