---------------------------- MODULE KnowledgeSync ----------------------------
(***************************************************************************)
(* The workers that synchronise registered papers with the knowledge base  *)
(* of Dify and with Neo4j (JobService.sync_job).  A task runs four         *)
(* transactions, and each of the two in the middle reads the latest        *)
(* version of the paper anew; Dify and Neo4j change at once, the tables    *)
(* when the transaction commits.                                           *)
(*                                                                         *)
(* One document stands for the knowledge_documents of a version: they are  *)
(* sent one after the other and the first failure ends the loop, which is  *)
(* the subject of DocumentSync.  Messages are acknowledged late: a worker  *)
(* that dies leaves its message to be delivered again, or, when only its   *)
(* child process dies, acknowledged; and Redis delivers a message again    *)
(* that has not been acknowledged in time, although its task is at work.   *)
(*                                                                         *)
(* A task's session keeps the job as its first transaction loaded it, and  *)
(* writes the columns that it changes.                                     *)
(***************************************************************************)
EXTENDS Ingestion

CONSTANTS
    Workers,
    Documents,       \* identifiers that Dify gives to documents
    MaxFailures,     \* bound: tasks that meet failing calls
    MaxInterruptions \* bound: deaths of workers, and messages that are
                     \* delivered again while in work, together

ASSUME SyncAssumption ==
    /\ Documents \subseteq Nat
    /\ None \notin Documents
    /\ None \notin SyncStatuses
    /\ None \notin [document : Documents, hash : Contents]
    /\ MaxFailures \in Nat
    /\ MaxInterruptions \in Nat

VARIABLES
    task,       \* the task of each worker
    records,    \* the row of kb_documents of each paper
    remote,     \* what Dify holds under each document identifier
    sentDify,   \* contents of each paper that Dify ever got
    graphs,     \* contents of each paper whose nodes and edges are in Neo4j
    graphRecords, \* sync_status of the row of graph_sync_records, by paper and content
    overlapped, \* history: jobs that two tasks have been working on at once
    failures,
    deaths,
    redeliveries
bounds == <<overlapped, failures, deaths, redeliveries>>
vars == <<registry, task, records, remote, sentDify, graphs, graphRecords, bounds>>
external == <<remote, sentDify, graphs>>
tables == <<records, graphRecords>>

\* version: what the transaction read; record: the row it found, if any;
\* kb, graph: the results so far; oldKb, oldGraph: what the session knows of the
\* job's row, None for a column that it writes whatever is there.
IdleTask == [pc |-> "idle", job |-> 0, version |-> None, record |-> None,
             found |-> FALSE, document |-> None, kb |-> "pending",
             graph |-> "pending", oldKb |-> None, oldGraph |-> None]

SyncInit ==
    /\ Init
    /\ task = [w \in Workers |-> IdleTask]
    /\ records = [p \in Papers |-> None]
    /\ remote = [d \in Documents |-> None]
    /\ sentDify = [p \in Papers |-> {}]
    /\ graphs = [p \in Papers |-> {}]
    /\ graphRecords = [p \in Papers |-> [h \in Contents |-> None]]
    /\ overlapped = {}
    /\ failures = 0
    /\ deaths = 0
    /\ redeliveries = 0

Paper(w) == jobs[task[w].job].paper

-----------------------------------------------------------------------------
\* First transaction: the job is "syncing".
Take(w) ==
    /\ task[w].pc = "idle"
    /\ \E j \in queue :
          /\ queue' = queue \ {j}
          /\ jobs' = [jobs EXCEPT ![j].status = "syncing"]
          /\ task' = [task EXCEPT ![w] =
                        [IdleTask EXCEPT !.pc = "read", !.job = j,
                                         !.oldKb = jobs[j].kb,
                                         !.oldGraph = jobs[j].graph]]
          /\ overlapped' = IF \E v \in Workers : task[v].pc # "idle" /\ task[v].job = j
                           THEN overlapped \cup {j} ELSE overlapped
    /\ UNCHANGED <<papers, versions, req, tables, external, failures, deaths, redeliveries>>

\* Second transaction: the latest version of the paper, and its record.
ReadVersion(w) ==
    /\ task[w].pc = "read"
    /\ task' = [task EXCEPT ![w].pc = "dify",
                            ![w].version = LatestVersion(Paper(w)).hash,
                            ![w].record = records[Paper(w)]]
    /\ UNCHANGED <<registry, tables, external, bounds>>

\* Slip: a document that is recorded is left alone.
RecordedAtAll(w) == task[w].record # None

UpToDate(w) == task[w].record # None /\ task[w].record.hash = task[w].version

NeedsDify(w) == EnableDify /\ task[w].version \in WithDocuments /\ ~UpToDate(w)

\* Nothing to send: Dify is switched off, the version has no documents, or it
\* has been sent before.
SkipDify(w) ==
    /\ task[w].pc = "dify"
    /\ ~NeedsDify(w)
    /\ task' = [task EXCEPT ![w].pc = "save",
                            ![w].kb = IF ~EnableDify THEN "disabled"
                                      ELSE IF task[w].version \notin WithDocuments
                                           THEN "skipped" ELSE "completed"]
    /\ UNCHANGED <<registry, tables, external, bounds>>

\* Dify creates a document, or updates the one of the record.
Target(w) ==
    IF task[w].record # None THEN {task[w].record.document}
    ELSE {d \in Documents : remote[d] = None
                             /\ \A e \in Documents : remote[e] = None => d <= e}

Send(w, d) ==
    /\ remote' = [remote EXCEPT ![d] = task[w].version]
    /\ sentDify' = [sentDify EXCEPT ![Paper(w)] = @ \cup {task[w].version}]

CallDify(w) ==
    /\ task[w].pc = "dify"
    /\ NeedsDify(w)
    /\ \E d \in Target(w) :
          /\ Send(w, d)
          /\ task' = [task EXCEPT ![w].pc = "save", ![w].document = d,
                                  ![w].kb = "completed"]
    /\ UNCHANGED <<registry, tables, graphs, bounds>>

\* All retries of the call, or of a poll after it, fail.
DifyFails(w) ==
    /\ task[w].pc = "dify"
    /\ NeedsDify(w)
    /\ failures < MaxFailures
    /\ failures' = failures + 1
    /\ \/ UNCHANGED <<remote, sentDify>>
       \/ \E d \in Target(w) : Send(w, d)
    /\ task' = [task EXCEPT ![w].pc = "save", ![w].kb = "failed"]
    /\ UNCHANGED <<registry, tables, graphs, overlapped, deaths, redeliveries>>

\* Another task has inserted a record since this one looked for it.
RecordConflicts(w) ==
    /\ task[w].document # None
    /\ task[w].record = None
    /\ records[Paper(w)] # None

\* A column of the job is written when its value differs from the one that the
\* session knows.
Column(row, old, new) == IF new # old THEN new ELSE row

SavedKb(w) == Column(jobs[task[w].job].kb, task[w].oldKb, task[w].kb)
SavedGraph(w) == Column(jobs[task[w].job].graph, task[w].oldGraph, task[w].graph)

\* The third transaction knows the job, and the result of the second.  If that
\* was not committed, kb_status is still to be written, and the job is read anew.
ThirdTransaction(w, result, committed) ==
    task' = [task EXCEPT ![w] =
               [IdleTask EXCEPT !.pc = "graph", !.job = task[w].job, !.kb = result,
                                !.oldKb = IF committed THEN result ELSE None,
                                !.oldGraph = IF committed THEN task[w].oldGraph
                                             ELSE jobs[task[w].job].graph]]

\* Slip: the record gets the content that is the latest by now.
LatestContent(w) == LatestVersion(Paper(w)).hash

RecordedContent(w) == task[w].version

\* The second transaction commits the record and kb_status.
Save(w) ==
    /\ task[w].pc = "save"
    /\ ~RecordConflicts(w)
    /\ records' = IF task[w].document = None THEN records
                  ELSE [records EXCEPT ![Paper(w)] =
                          [document |-> task[w].document, hash |-> RecordedContent(w)]]
    /\ jobs' = [jobs EXCEPT ![task[w].job].kb = SavedKb(w)]
    /\ ThirdTransaction(w, task[w].kb, TRUE)
    /\ UNCHANGED <<papers, versions, queue, req, graphRecords, external, bounds>>

\* The insert of the record fails.  That is caught and reported as "failed", and
\* the transaction, rolled back by then, is closed without an error: the task
\* goes on, and kb_status is left to the commit of the third transaction.
SaveConflicts(w) ==
    /\ task[w].pc = "save"
    /\ RecordConflicts(w)
    /\ ThirdTransaction(w, "failed", FALSE)
    /\ UNCHANGED <<registry, tables, external, bounds>>

\* Third transaction: Neo4j gets the graph of the version that is the latest by
\* now, merged into what it holds.
SkipGraph(w) ==
    LET v == LatestVersion(Paper(w)).hash IN
    /\ task[w].pc = "graph"
    /\ ~(EnableNeo4j /\ v \in WithGraph)
    /\ task' = [task EXCEPT ![w].pc = "saveGraph", ![w].version = v,
                            ![w].graph = IF EnableNeo4j THEN "skipped" ELSE "disabled"]
    /\ UNCHANGED <<registry, tables, external, bounds>>

WriteGraph(w) ==
    LET v == LatestVersion(Paper(w)).hash IN
    /\ task[w].pc = "graph"
    /\ EnableNeo4j /\ v \in WithGraph
    /\ graphs' = [graphs EXCEPT ![Paper(w)] = @ \cup {v}]
    /\ task' = [task EXCEPT ![w].pc = "lookup", ![w].version = v,
                            ![w].graph = "completed"]
    /\ UNCHANGED <<registry, tables, remote, sentDify, bounds>>

\* The write is one transaction of Neo4j: it is lost, or its answer is.
\* For the bound, a task whose Dify call failed has met its failure already.
GraphFails(w) ==
    LET v == LatestVersion(Paper(w)).hash IN
    /\ task[w].pc = "graph"
    /\ EnableNeo4j /\ v \in WithGraph
    /\ \/ task[w].kb = "failed" /\ UNCHANGED failures
       \/ failures < MaxFailures /\ failures' = failures + 1
    /\ graphs' \in {graphs, [graphs EXCEPT ![Paper(w)] = @ \cup {v}]}
    /\ task' = [task EXCEPT ![w].pc = "lookup", ![w].version = v,
                            ![w].graph = "failed"]
    /\ UNCHANGED <<registry, tables, remote, sentDify, overlapped, deaths, redeliveries>>

GraphRecord(w) == graphRecords[Paper(w)][task[w].version]

\* Is there a record of this paper and content?
LookupGraphRecord(w) ==
    /\ task[w].pc = "lookup"
    /\ task' = [task EXCEPT ![w].pc = "saveGraph", ![w].found = GraphRecord(w) # None]
    /\ UNCHANGED <<registry, tables, external, bounds>>

WritesGraphRecord(w) == task[w].graph \in {"completed", "failed"}

\* Another task has inserted the record since.
GraphRecordConflicts(w) ==
    WritesGraphRecord(w) /\ ~task[w].found /\ GraphRecord(w) # None

\* Slip: the record says "completed" whatever the result was.
SaveGraphOptimistic(w) ==
    /\ task[w].pc = "saveGraph"
    /\ ~GraphRecordConflicts(w)
    /\ jobs' = [jobs EXCEPT ![task[w].job].kb = SavedKb(w),
                            ![task[w].job].graph = SavedGraph(w)]
    /\ graphRecords' = IF WritesGraphRecord(w)
                       THEN [graphRecords EXCEPT ![Paper(w)][task[w].version] = "completed"]
                       ELSE graphRecords
    /\ task' = [task EXCEPT ![w] = [IdleTask EXCEPT !.pc = "finish", !.job = task[w].job,
                                                    !.kb = task[w].kb,
                                                    !.graph = task[w].graph]]
    /\ UNCHANGED <<papers, versions, queue, req, records, external, bounds>>

\* It commits the record, unless there was nothing to write, graph_status, and
\* kb_status if the second transaction did not.
SaveGraph(w) ==
    /\ task[w].pc = "saveGraph"
    /\ ~GraphRecordConflicts(w)
    /\ jobs' = [jobs EXCEPT ![task[w].job].kb = SavedKb(w),
                            ![task[w].job].graph = SavedGraph(w)]
    /\ graphRecords' = IF WritesGraphRecord(w)
                       THEN [graphRecords EXCEPT ![Paper(w)][task[w].version] =
                                task[w].graph]
                       ELSE graphRecords
    /\ task' = [task EXCEPT ![w] = [IdleTask EXCEPT !.pc = "finish", !.job = task[w].job,
                                                    !.kb = task[w].kb,
                                                    !.graph = task[w].graph]]
    /\ UNCHANGED <<papers, versions, queue, req, records, external, bounds>>

\* Slip: only a provider that has completed makes a failure a partial one.
PartialOnlyWithCompleted(kb, graph) ==
    IF {kb, graph} = {"failed", "completed"} THEN "partial_success"
    ELSE IF {kb, graph} = {"failed"} THEN "failed" ELSE "completed"

FinalStatus(kb, graph) ==
    LET all == {kb, graph} IN
    IF "failed" \in all /\ all \cap {"completed", "skipped", "disabled"} # {}
    THEN "partial_success"
    ELSE IF all = {"failed"} THEN "failed" ELSE "completed"

\* Fourth transaction: the status that sums the two up.
SaveStatus(w) ==
    jobs' = [jobs EXCEPT ![task[w].job].status =
               FinalStatus(task[w].kb, task[w].graph)]

Finish(w) ==
    /\ task[w].pc = "finish"
    /\ SaveStatus(w)
    /\ task' = [task EXCEPT ![w] = IdleTask]
    /\ UNCHANGED <<papers, versions, queue, req, tables, external, bounds>>

\* Slip: the message is acknowledged before the task runs.
RaiseUndelivered(w) ==
    /\ task[w].pc = "saveGraph"
    /\ GraphRecordConflicts(w)
    /\ task' = [task EXCEPT ![w] = IdleTask]
    /\ UNCHANGED <<registry, tables, external, bounds>>

\* The commit of the third transaction inserts the record and fails, and with it
\* the task: Celery tries it again.
Raise(w) ==
    /\ task[w].pc = "saveGraph"
    /\ GraphRecordConflicts(w)
    /\ queue' = queue \cup {task[w].job}
    /\ task' = [task EXCEPT ![w] = IdleTask]
    /\ UNCHANGED <<papers, versions, jobs, req, tables, external, bounds>>

\* The worker dies, or the database fails: the transaction is rolled back,
\* unless it was the last and done, and the message is delivered again, unless
\* it counts as acknowledged.
Die(w) ==
    /\ deaths + redeliveries < MaxInterruptions
    /\ task[w].pc # "idle"
    /\ \/ UNCHANGED jobs
       \/ task[w].pc = "finish" /\ SaveStatus(w)
    /\ queue' \in {queue, queue \cup {task[w].job}}
    /\ task' = [task EXCEPT ![w] = IdleTask]
    /\ deaths' = deaths + 1
    /\ UNCHANGED <<papers, versions, req, tables, external, overlapped, failures, redeliveries>>

\* The broker delivers the message of a task again that is still at work.  More
\* copies of it than one in the queue add nothing: the next may come later.
Redeliver(w) ==
    /\ deaths + redeliveries < MaxInterruptions
    /\ task[w].pc # "idle"
    /\ queue' = queue \cup {task[w].job}
    /\ redeliveries' = redeliveries + 1
    /\ UNCHANGED <<papers, versions, jobs, req, task, tables, external, overlapped,
                   failures, deaths>>

\* POST /v1/ingestion/jobs/{job_id}/retry: the handler has read the job, which
\* begins a transaction, when JobService.retry wants to begin one: the session
\* raises InvalidRequestError, and nothing is written or sent, although
\* README.md:222 offers the endpoint for jobs that are partial_success.
Retry(j) ==
    /\ j \in DOMAIN jobs
    /\ UNCHANGED vars

Work(w) ==
    \/ Take(w) \/ ReadVersion(w) \/ SkipDify(w) \/ CallDify(w) \/ DifyFails(w)
    \/ Save(w) \/ SaveConflicts(w) \/ SkipGraph(w) \/ WriteGraph(w) \/ GraphFails(w)
    \/ LookupGraphRecord(w) \/ SaveGraph(w) \/ Finish(w) \/ Raise(w)

\* All requests are answered and no task is left, or no worker is running.
Quiescent ==
    /\ \A r \in Requests : req[r].pc = "done"
    /\ \A w \in Workers : task[w].pc = "idle"
    /\ queue = {} \/ Workers = {}
    /\ UNCHANGED vars

Next ==
    \/ RegistryNext /\ UNCHANGED <<task, tables, external, bounds>>
    \/ \E w \in Workers : Work(w) \/ Die(w) \/ Redeliver(w)
    \/ \E j \in DOMAIN jobs : Retry(j)
    \/ Quiescent

Spec == SyncInit /\ [][Next]_vars

\* Handlers and workers go on: their calls have timeouts, their retries and the
\* polling of Dify a limit.
FairSpec ==
    /\ Spec
    /\ \A r \in Requests : WF_vars(Handle(r) /\ UNCHANGED <<task, tables, external, bounds>>)
    /\ \A w \in Workers : WF_vars(Work(w))

-----------------------------------------------------------------------------
Record == [document : Documents, hash : Contents]

Task == [pc : {"idle", "read", "dify", "save", "graph", "lookup", "saveGraph", "finish"},
         job : Nat, version : Contents \cup {None}, record : Record \cup {None},
         found : BOOLEAN, document : Documents \cup {None}, kb : SyncStatuses,
         graph : SyncStatuses, oldKb : SyncStatuses \cup {None},
         oldGraph : SyncStatuses \cup {None}]

\* Every variable has its type.
TypeOK ==
    /\ RegistryTypeOK
    /\ task \in [Workers -> Task]
    /\ records \in [Papers -> Record \cup {None}]
    /\ remote \in [Documents -> Contents \cup {None}]
    /\ sentDify \in [Papers -> SUBSET Contents]
    /\ graphs \in [Papers -> SUBSET Contents]
    /\ graphRecords \in [Papers -> [Contents -> {None, "completed", "failed"}]]
    /\ overlapped \subseteq DOMAIN jobs
    /\ failures \in Nat
    /\ deaths \in Nat
    /\ redeliveries \in Nat

\* The contents of a paper from a job's own version on.
SinceJob(j) ==
    {v.hash : v \in {v \in VersionsOf(jobs[j].paper) :
        \E u \in VersionsOf(jobs[j].paper) :
            u.hash = jobs[j].hash /\ u.number <= v.number}}

\* A job that tells its client that the documents, or the graph, are in does so
\* because Dify, or Neo4j, got those of its own version or of a later one:
\* whoever sent them, through crashes, redeliveries and concurrent tasks.
CompletedMeansSent ==
    \A j \in DOMAIN jobs :
        /\ jobs[j].kb = "completed" => SinceJob(j) \cap sentDify[jobs[j].paper] # {}
        /\ jobs[j].graph = "completed" => SinceJob(j) \cap graphs[jobs[j].paper] # {}

\* A record names a document that Dify holds, and a content that Dify got for
\* its paper: never one that was registered while the document was sent.
RecordsTrue ==
    \A p \in Papers :
        records[p] # None =>
            /\ remote[records[p].document] # None
            /\ records[p].hash \in sentDify[p]

\* What graph_sync_records says of a content is true of Neo4j when it says
\* "completed"; and a job whose graph was tried has left a record of its own
\* version or of a later one, whichever of two tasks inserted it.
GraphRecordsTrue ==
    /\ \A p \in Papers, h \in Contents :
          graphRecords[p][h] = "completed" => h \in graphs[p]
    /\ \A j \in DOMAIN jobs :
          jobs[j].graph \in {"completed", "failed"} /\ jobs[j].dedup # "existing" =>
             \E h \in SinceJob(j) : graphRecords[jobs[j].paper][h] # None

\* The job is over, and its status sums its two results up.
Over(j) ==
    /\ jobs[j].status \in {"completed", "partial_success", "failed"}
    /\ jobs[j].dedup # "existing"
    /\ j \notin {task[w].job : w \in Workers}

SumsUp(j) ==
    LET results == {jobs[j].kb, jobs[j].graph} IN
    /\ jobs[j].status = "completed" <=> "failed" \notin results
    /\ jobs[j].status = "failed" <=> results = {"failed"}

\* README.md:171: a job is completed only if nothing failed, failed only if
\* nothing succeeded, and partial_success otherwise: through conflicts, deaths
\* and redeliveries, unless two tasks have been working on it at once.
StatusHonest ==
    \A j \in DOMAIN jobs : Over(j) /\ j \notin overlapped => SumsUp(j)

\* README.md:171: when Dify succeeds but Neo4j fails, the job comes to be
\* partial_success.  A message that is delivered again while its task is at work
\* may leave the status of the one task beside the results of the other.
PartialSuccess ==
    \A j \in DOMAIN jobs :
        Over(j) /\ j \notin queue /\ jobs[j].kb = "completed" /\ jobs[j].graph = "failed"
        => jobs[j].status = "partial_success"

\* A message of the job waits, or a task is at work on it.
Underway(j) ==
    \/ j \in queue
    \/ \E w \in Workers : task[w].pc # "idle" /\ task[w].job = j

\* A job that a client was told of by a 202, or that is "syncing", is over or on
\* its way: no collision over a record, no failing call and no message that is
\* delivered twice leaves it behind with nobody to take it up, unless a worker dies.
NoneForgotten ==
    deaths = 0 =>
        \A j \in DOMAIN jobs :
            \/ jobs[j].status = "syncing"
            \/ jobs[j].status = "received"
               /\ \E r \in Requests : req[r].job = j /\ req[r].answer = "202"
            => Underway(j)

\* Again and again no job waits for a worker or is left "syncing", although two
\* tasks collide over a record, of a document or of a graph, and the one goes on
\* or starts anew; unless a worker dies.
JobsFinish ==
    []<>\/ deaths > 0
        \/ queue = {} /\ \A j \in DOMAIN jobs : jobs[j].status # "syncing"
=============================================================================
