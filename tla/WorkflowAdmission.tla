-------------------------- MODULE WorkflowAdmission --------------------------
(***************************************************************************)
(* HTTP requests that submit workflow jobs (POST /v1/workflow-jobs/arxiv   *)
(* and /upload), handled at the same time by an API process.  A request    *)
(* looks its Idempotency-Key up, counts the owner's active jobs, stores    *)
(* its files, commits a row, sends the job to the queue and answers; it    *)
(* awaits the database or the upload between these steps, and others are   *)
(* handled meanwhile.                                                      *)
(*                                                                         *)
(* A job is named by the request that creates it: its identifier is        *)
(* random.  The database reads what is committed (READ COMMITTED).  What   *)
(* happens to an admitted job is the subject of WorkflowRunner.  Here      *)
(* somebody deletes its files, before it ends or after, as whoever ends a  *)
(* job unlinks before committing, dies in between, or holds an old copy of *)
(* the row; it ends; and such an old copy may make it active again.        *)
(***************************************************************************)
EXTENDS Naturals, Sequences, FiniteSets

CONSTANTS
    Requests,        \* the requests that clients send
    Owners,
    Keys,            \* values of the Idempotency-Key header
    Shapes,          \* the files of a request, as verdicts of their validation
    None,            \* no header; no row
    MaxConcurrent,   \* workflow_gateway_max_concurrent_jobs_per_owner
    MaxInFlight,     \* requests the API process handles at the same time
    MaxCrashes       \* bound: requests that die with their process

Verdicts == {"ok", "bad"}

ASSUME AdmissionAssumption ==
    /\ IsFiniteSet(Requests)
    /\ None \notin Keys \cup Owners \cup Requests
    /\ None \notin [owner : Owners, key : Keys \cup {None},
                    files : SUBSET (Requests \X Nat),
                    state : {"active", "ended", "revived"}]
    /\ Shapes \subseteq Seq(Verdicts)
    /\ MaxConcurrent \in Nat \ {0}
    /\ MaxInFlight \in Nat \ {0}
    /\ MaxCrashes \in Nat

VARIABLES
    rows,     \* the row of workflow_jobs that a request committed
    disk,     \* files in upload_dir, named by request and position
    cleaned,  \* history: jobs whose files somebody has begun to delete
    stuck,    \* history: files on disk that the last attempt could not delete
    sent,     \* jobs whose message is, or was, in the Celery queue
    req,      \* where each request is in its handler
    crashes
storage == <<disk, cleaned, stuck>>
vars == <<rows, storage, sent, req, crashes>>

PCs == {"new", "lookup", "count", "store", "dispatch", "done"}
Answers == {"none", "202", "422", "429", "500"}

NewRequest == [pc |-> "new", owner |-> None, key |-> None, files |-> <<>>,
               stored |-> 0, answer |-> "none", job |-> None]

Init ==
    /\ rows = [r \in Requests |-> None]
    /\ disk = {}
    /\ cleaned = {}
    /\ stuck = {}
    /\ sent = {}
    /\ req = [r \in Requests |-> NewRequest]
    /\ crashes = 0

InFlight == {r \in Requests : req[r].pc \notin {"new", "done"}}

\* The jobs of an owner that never ended, and those with an active status:
\* among these are jobs that ended and that an old copy made active again.
FreshJobs(owner) ==
    {j \in Requests : rows[j] # None /\ rows[j].owner = owner
                      /\ rows[j].state = "active"}

ActiveJobs(owner) ==
    {j \in Requests : rows[j] # None /\ rows[j].owner = owner
                      /\ rows[j].state # "ended"}

\* The rows a select on idempotency_key gives; a missing header selects none.
JobsWithKey(key) ==
    {j \in Requests : rows[j] # None /\ rows[j].key = key /\ key # None}

Answer(r, status, job) ==
    req' = [req EXCEPT ![r].pc = "done", ![r].answer = status, ![r].job = job]

Goto(r, label) == req' = [req EXCEPT ![r].pc = label]

-----------------------------------------------------------------------------
Submit(r, owner, key, files) ==
    /\ req[r].pc = "new"
    /\ Cardinality(InFlight) < MaxInFlight
    /\ req' = [req EXCEPT ![r] =
                 [NewRequest EXCEPT !.pc = "lookup", !.owner = owner,
                                    !.key = key, !.files = files]]
    /\ UNCHANGED <<rows, storage, sent, crashes>>

\* The key was seen before: the request answers with that job.
LookupFinds(r) ==
    /\ req[r].pc = "lookup"
    /\ \E j \in JobsWithKey(req[r].key) : Answer(r, "202", j)
    /\ UNCHANGED <<rows, storage, sent, crashes>>

LookupMisses(r) ==
    /\ req[r].pc = "lookup"
    /\ JobsWithKey(req[r].key) = {}
    /\ Goto(r, "count")
    /\ UNCHANGED <<rows, storage, sent, crashes>>

\* An upload whose access_scope or owner_id is not acceptable.
RejectForm(r) ==
    /\ req[r].pc = "lookup"
    /\ JobsWithKey(req[r].key) = {}
    /\ req[r].files # <<>>
    /\ Answer(r, "422", None)
    /\ UNCHANGED <<rows, storage, sent, crashes>>

\* Slip: an owner at the limit gets one job more.
CountAdmitsOneMore(r) ==
    /\ req[r].pc = "count"
    /\ Cardinality(ActiveJobs(req[r].owner)) <= MaxConcurrent
    /\ Goto(r, "store")
    /\ UNCHANGED <<rows, storage, sent, crashes>>

CountAdmits(r) ==
    /\ req[r].pc = "count"
    /\ Cardinality(ActiveJobs(req[r].owner)) < MaxConcurrent
    /\ Goto(r, "store")
    /\ UNCHANGED <<rows, storage, sent, crashes>>

CountRefuses(r) ==
    /\ req[r].pc = "count"
    /\ Cardinality(ActiveJobs(req[r].owner)) >= MaxConcurrent
    /\ Answer(r, "429", None)
    /\ UNCHANGED <<rows, storage, sent, crashes>>

\* Each file is read, validated and written before the next one is looked at.
NextFile(r) == req[r].stored + 1

StoreFile(r) ==
    /\ req[r].pc = "store"
    /\ NextFile(r) <= Len(req[r].files)
    /\ req[r].files[NextFile(r)] = "ok"
    /\ disk' = disk \cup {<<r, NextFile(r)>>}
    /\ req' = [req EXCEPT ![r].stored = @ + 1]
    /\ UNCHANGED <<rows, cleaned, stuck, sent, crashes>>

\* The files stored before the bad one stay.
RejectFile(r) ==
    /\ req[r].pc = "store"
    /\ NextFile(r) <= Len(req[r].files)
    /\ req[r].files[NextFile(r)] = "bad"
    /\ Answer(r, "422", None)
    /\ UNCHANGED <<rows, storage, sent, crashes>>

Manifest(r) == {<<r, i>> : i \in 1..Len(req[r].files)}

\* Slip: the last file is forgotten.
StoredButOne(r) == req[r].stored + 1 >= Len(req[r].files)

Stored(r) == req[r].stored = Len(req[r].files)

\* Slip: the owner is taken from X-Owner-Id, which a client need not send.
OwnerlessRow(r) == [owner |-> None, key |-> req[r].key,
                    files |-> Manifest(r), state |-> "active"]

NewRow(r) == [owner |-> req[r].owner, key |-> req[r].key,
              files |-> Manifest(r), state |-> "active"]

\* Slip: idempotency_key is not unique.
InsertRowAlways(r) ==
    /\ req[r].pc = "store"
    /\ Stored(r)
    /\ rows' = [rows EXCEPT ![r] = NewRow(r)]
    /\ Goto(r, "dispatch")
    /\ UNCHANGED <<storage, sent, crashes>>

InsertRow(r) ==
    /\ req[r].pc = "store"
    /\ Stored(r)
    /\ JobsWithKey(req[r].key) = {}
    /\ rows' = [rows EXCEPT ![r] = NewRow(r)]
    /\ Goto(r, "dispatch")
    /\ UNCHANGED <<storage, sent, crashes>>

\* Another request with this key has committed since the lookup: nobody
\* catches the IntegrityError.
InsertConflicts(r) ==
    /\ req[r].pc = "store"
    /\ Stored(r)
    /\ JobsWithKey(req[r].key) # {}
    /\ Answer(r, "500", None)
    /\ UNCHANGED <<rows, storage, sent, crashes>>

Dispatch(r) ==
    /\ req[r].pc = "dispatch"
    /\ sent' = sent \cup {r}
    /\ Answer(r, "202", r)
    /\ UNCHANGED <<rows, storage, crashes>>

\* The broker cannot be reached, or its confirmation is lost.
DispatchFails(r) ==
    /\ req[r].pc = "dispatch"
    /\ sent' \in {sent, sent \cup {r}}
    /\ Answer(r, "500", None)
    /\ UNCHANGED <<rows, storage, crashes>>

\* Somebody who finishes or cancels the job deletes its files, except those
\* whose unlink raises an OSError, which is swallowed.  He has not committed
\* yet, and may die before; with the Dify key missing he does not commit at all.
DeleteFiles(j) ==
    /\ rows[j] # None
    /\ \E failed \in SUBSET (rows[j].files \cap disk) :
          /\ disk' = disk \ (rows[j].files \ failed)
          /\ stuck' = (stuck \ rows[j].files) \cup failed
    /\ cleaned' = cleaned \cup {j}
    /\ UNCHANGED <<rows, sent, req, crashes>>

\* Slip: an end of the job that does not delete its files.
JobEndsKeepingFiles(j) ==
    /\ rows[j] # None
    /\ rows[j].state # "ended"
    /\ rows' = [rows EXCEPT ![j].state = "ended"]
    /\ UNCHANGED <<storage, sent, req, crashes>>

\* He commits the final status.
JobEnds(j) ==
    /\ rows[j] # None
    /\ rows[j].state # "ended"
    /\ j \in cleaned
    /\ rows' = [rows EXCEPT ![j].state = "ended"]
    /\ UNCHANGED <<storage, sent, req, crashes>>

\* A worker with an older copy of the row commits an active status over the
\* final one, as CancelOverwritten shows of WorkflowRunner.
JobRevives(j) ==
    /\ rows[j] # None
    /\ rows[j].state = "ended"
    /\ rows' = [rows EXCEPT ![j].state = "revived"]
    /\ UNCHANGED <<storage, sent, req, crashes>>

\* The API process dies; nobody answers the request.
Crash(r) ==
    /\ crashes < MaxCrashes
    /\ r \in InFlight
    /\ crashes' = crashes + 1
    /\ Goto(r, "done")
    /\ UNCHANGED <<rows, storage, sent>>

Step(r) ==
    \/ LookupFinds(r) \/ LookupMisses(r) \/ RejectForm(r)
    \/ CountAdmits(r) \/ CountRefuses(r)
    \/ StoreFile(r) \/ RejectFile(r)
    \/ InsertRow(r) \/ InsertConflicts(r)
    \/ Dispatch(r) \/ DispatchFails(r)

\* Everything is answered and every job is done.
Quiescent ==
    /\ \A r \in Requests : req[r].pc = "done"
    /\ \A o \in Owners : ActiveJobs(o) = {}
    /\ UNCHANGED vars

Next ==
    \/ \E r \in Requests, o \in Owners, k \in Keys \cup {None}, f \in Shapes :
          Submit(r, o, k, f)
    \/ \E r \in Requests :
          Step(r) \/ DeleteFiles(r) \/ JobEnds(r) \/ JobRevives(r) \/ Crash(r)
    \/ Quiescent

Spec == Init /\ [][Next]_vars

-----------------------------------------------------------------------------
Row == [owner : Owners, key : Keys \cup {None},
        files : SUBSET (Requests \X Nat),
        state : {"active", "ended", "revived"}]

Request == [pc : PCs, owner : Owners \cup {None}, key : Keys \cup {None},
            files : Seq(Verdicts), stored : Nat, answer : Answers,
            job : Requests \cup {None}]

\* Every variable has its type.
TypeOK ==
    /\ rows \in [Requests -> Row \cup {None}]
    /\ disk \subseteq Requests \X Nat
    /\ cleaned \subseteq Requests
    /\ stuck \subseteq Requests \X Nat
    /\ sent \subseteq Requests
    /\ req \in [Requests -> Request]
    /\ crashes \in Nat

\* Requests that are sent with one Idempotency-Key, one after the other or at
\* the same time, and that are accepted, are told of one and the same job.
SameKeySameJob ==
    \A r, s \in Requests :
        /\ req[r].answer = "202"
        /\ req[s].answer = "202"
        /\ req[r].key = req[s].key
        /\ req[r].key # None
        => req[r].job = req[s].job

\* Counting before inserting lets an owner exceed the limit, but only by
\* requests handled at the same time.  Jobs that ended and that an old copy of
\* the row made active again come on top: no count precedes that.
OvershootBounded ==
    \A o \in Owners :
        Cardinality(FreshJobs(o)) <= MaxConcurrent - 1 + MaxInFlight

\* Until somebody finishing or cancelling a job begins to delete its files, a
\* worker that takes it finds every file its client posted, on disk and in the
\* manifest, whatever became of other requests and jobs.  Afterwards an active
\* row may lack them: the unlink comes before the commit.
UploadsComplete ==
    \A j \in Requests :
        rows[j] # None /\ j \notin cleaned =>
            \A i \in 1..Len(req[j].files) :
                <<j, i>> \in disk \cap rows[j].files

\* A file on disk has an active job to be deleted with, or could not be deleted
\* with its job, or has a request that is still being handled or that was not
\* accepted: only these last leave files that nobody ever tries to delete.
FilesAccountedFor ==
    \A f \in disk :
        LET r == f[1] IN
        \/ rows[r] # None /\ rows[r].state # "ended"
        \/ f \in stuck
        \/ rows[r] = None /\ (r \in InFlight \/ req[r].answer # "202")

\* The documented limit of an owner's active jobs.
OwnerLimit ==
    \A o \in Owners : Cardinality(ActiveJobs(o)) <= MaxConcurrent

\* README_WORKFLOW_GATEWAY.md:10-11: a job that a client was told of, by a 202
\* answer, reaches the workers: when nobody is still dispatching it, it is or
\* was in the queue, or it is over.
AcceptedIsSent ==
    \A r \in Requests :
        LET j == req[r].job IN
        req[r].answer = "202" =>
            j \in sent \/ j \in InFlight \/ rows[j].state = "ended"
=============================================================================
