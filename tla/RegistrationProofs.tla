-------------------------- MODULE RegistrationProofs --------------------------
(***************************************************************************)
(* What registration promises for any number of requests, papers, contents *)
(* and workers: the versions of a paper are in order, one job synchronises *)
(* a content, a refusal has its cause, and the tables implement the        *)
(* histories of Registry.                                                  *)
(***************************************************************************)
EXTENDS KnowledgeSync, IngestionRegistry, FiniteSetTheorems, TLAPS

\* A request names a paper and a content, and is answered at its end; a
\* transaction that is about to commit has read the row as it still is; one that
\* dispatches has a job.
Begun ==
    \A r \in Requests :
        /\ req[r].pc # "new" => req[r].paper \in Papers /\ req[r].hash \in Contents
        /\ req[r].pc = "commit" => req[r].seen = papers[req[r].paper]
        /\ req[r].pc = "dispatch" => req[r].job \in DOMAIN jobs
        /\ req[r].pc # "done" => req[r].answer = "none"

\* The advisory lock: of the requests for a paper one can commit.
Exclusive ==
    \A r, s \in Requests :
        req[r].pc = "commit" /\ req[s].pc = "commit" /\ req[r].paper = req[s].paper
            => r = s

\* The versions of one paper: numbers and contents identify them.
NumberedPaper(p) ==
    IF papers[p] = None THEN VersionsOf(p) = {}
    ELSE /\ papers[p].version \in Nat \ {0}
         /\ IsFiniteSet(VersionsOf(p))
         /\ Cardinality(VersionsOf(p)) = papers[p].version
         /\ \A n \in 1..papers[p].version : \E v \in VersionsOf(p) : v.number = n
         /\ \A v \in VersionsOf(p) :
               /\ v.number \in 1..papers[p].version
               /\ v.number = papers[p].version => v.hash = papers[p].hash
         /\ \A v, w \in VersionsOf(p) :
               v.number = w.number \/ v.hash = w.hash => v = w

Numbered == \A p \in Papers : NumberedPaper(p)

\* A job has a version with its content.
JobsKnown ==
    \A j \in DOMAIN jobs :
        \E v \in VersionsOf(jobs[j].paper) : v.hash = jobs[j].hash

\* No other job is to synchronise the same content.
FreshAlone ==
    \A j, k \in DOMAIN jobs :
        /\ jobs[j].paper = jobs[k].paper /\ jobs[j].hash = jobs[k].hash
        /\ jobs[j].dedup # "existing" /\ jobs[k].dedup # "existing"
        => j = k

\* Of the jobs for a content there is a last one.
LastKnown ==
    \A p \in Papers, h \in Contents :
        JobsFor(p, h) # {} =>
            \E j \in JobsFor(p, h) : \A k \in JobsFor(p, h) : k <= j

\* A task has a job, and a version where it needs one.
Tasked ==
    \A w \in Workers :
        /\ task[w].pc # "idle" => task[w].job \in DOMAIN jobs
        /\ task[w].pc \in {"dify", "save", "lookup", "saveGraph"}
              => task[w].version \in Contents

RInv ==
    /\ TypeOK
    /\ Begun
    /\ Exclusive
    /\ Numbered
    /\ JobsKnown
    /\ FreshAlone
    /\ LastKnown
    /\ Tasked
    /\ RefusedForCause

\* What a step of a worker does to the registry: to the statuses of jobs and
\* to the queue.
SameJobs ==
    /\ DOMAIN jobs' = DOMAIN jobs
    /\ \A j \in DOMAIN jobs :
          /\ jobs'[j].paper = jobs[j].paper
          /\ jobs'[j].hash = jobs[j].hash
          /\ jobs'[j].dedup = jobs[j].dedup

WorkerStep == UNCHANGED <<papers, versions, req>> /\ SameJobs

-----------------------------------------------------------------------------
(* The latest version.                                                     *)

\* A paper that is registered has a latest version, the one of its row.
LEMMA LatestIsLast ==
    ASSUME TypeOK, Numbered, NEW p \in Papers, papers[p] # None
    PROVE  /\ LatestVersion(p) \in VersionsOf(p)
           /\ LatestVersion(p).number = papers[p].version
           /\ LatestVersion(p).hash = papers[p].hash
           /\ LatestVersion(p).hash \in Contents
           /\ \A w \in VersionsOf(p) : w.number <= LatestVersion(p).number
<1>1. NumberedPaper(p)
  BY DEF Numbered
<1>2. papers[p].version \in Nat \ {0}
  BY <1>1 DEF NumberedPaper
<1>3. PICK v \in VersionsOf(p) : v.number = papers[p].version
  BY <1>1, <1>2 DEF NumberedPaper
<1>4. \A w \in VersionsOf(p) : w.number \in Nat /\ w.number <= papers[p].version
  BY <1>1, <1>2 DEF NumberedPaper
<1>5. \A w \in VersionsOf(p) : w.number <= v.number
  BY <1>3, <1>4
<1>6. /\ LatestVersion(p) \in VersionsOf(p)
      /\ \A w \in VersionsOf(p) : w.number <= LatestVersion(p).number
  BY <1>5 DEF LatestVersion
<1>7. LatestVersion(p).number = papers[p].version
  BY <1>2, <1>3, <1>4, <1>6
<1>8. LatestVersion(p).hash = papers[p].hash
  BY <1>1, <1>6, <1>7 DEF NumberedPaper
<1>9. LatestVersion(p).hash \in Contents
  BY <1>6 DEF TypeOK, RegistryTypeOK, VersionsOf
<1> QED
  BY <1>6, <1>7, <1>8, <1>9

\* The paper of a job is registered.
LEMMA JobHasPaper ==
    ASSUME TypeOK, Numbered, JobsKnown, NEW j \in DOMAIN jobs
    PROVE  jobs[j] \in Job /\ jobs[j].paper \in Papers /\ papers[jobs[j].paper] # None
<1>1. jobs[j] \in Job
  BY DEF TypeOK, RegistryTypeOK
<1>2. jobs[j].paper \in Papers
  BY <1>1 DEF Job
<1>3. VersionsOf(jobs[j].paper) # {}
  BY DEF JobsKnown
<1> QED
  BY <1>1, <1>2, <1>3 DEF Numbered, NumberedPaper

\* What a task reads as the latest version is a content.
LEMMA TaskReadsContent ==
    ASSUME RInv, NEW w \in Workers, task[w].pc # "idle"
    PROVE  /\ Paper(w) \in Papers
           /\ papers[Paper(w)] # None
           /\ LatestVersion(Paper(w)).hash \in Contents
<1>1. task[w].job \in DOMAIN jobs
  BY DEF RInv, Tasked
<1> QED
  BY <1>1, JobHasPaper, LatestIsLast DEF RInv, Paper

-----------------------------------------------------------------------------
(* The steps of workers.                                                   *)

\* Statuses and the queue are of no concern to the registry.
LEMMA WorkerKeepsRegistry ==
    ASSUME RInv, WorkerStep
    PROVE  /\ Begun' /\ Exclusive' /\ Numbered' /\ JobsKnown' /\ FreshAlone'
           /\ LastKnown' /\ RefusedForCause'
<1> USE DEF RInv, WorkerStep, SameJobs
<1>1. \A p : VersionsOf(p)' = VersionsOf(p)
  BY DEF VersionsOf
<1>2. \A p, h : JobsFor(p, h)' = JobsFor(p, h)
  BY DEF JobsFor
<1>3. Begun' /\ Exclusive'
  BY DEF Begun, Exclusive
<1>4. Numbered'
  BY <1>1 DEF Numbered, NumberedPaper
<1>5. JobsKnown' /\ FreshAlone'
  BY <1>1 DEF JobsKnown, FreshAlone
<1>7. LastKnown'
  BY <1>2 DEF LastKnown
<1>6. RefusedForCause'
  BY <1>1 DEF RefusedForCause
<1> QED
  BY <1>3, <1>4, <1>5, <1>6, <1>7

\* A step that changes one task, and how it must change it.
LEMMA TaskChanges ==
    ASSUME RInv, SameJobs, NEW w \in Workers, NEW t \in Task,
           task' = [task EXCEPT ![w] = t],
           t.pc # "idle" => t.job \in DOMAIN jobs,
           t.pc \in {"dify", "save", "lookup", "saveGraph"} => t.version \in Contents
    PROVE  task' \in [Workers -> Task] /\ Tasked'
<1>1. task \in [Workers -> Task]
  BY DEF RInv, TypeOK
<1>2. task' \in [Workers -> Task]
  BY <1>1
<1>3. Tasked'
  BY <1>1 DEF RInv, Tasked, SameJobs
<1> QED
  BY <1>2, <1>3

\* A step that changes one job, and what it must leave.
LEMMA JobChanges ==
    ASSUME RInv, NEW j \in DOMAIN jobs, NEW e \in Job,
           jobs' = [jobs EXCEPT ![j] = e],
           e.paper = jobs[j].paper, e.hash = jobs[j].hash, e.dedup = jobs[j].dedup
    PROVE  jobs' \in Seq(Job) /\ SameJobs
<1>1. jobs \in Seq(Job)
  BY DEF RInv, TypeOK, RegistryTypeOK
<1>2. jobs' \in Seq(Job)
  BY <1>1
<1>3. SameJobs
  BY <1>1 DEF SameJobs
<1> QED
  BY <1>2, <1>3

\* A worker at work has a task and its job.
LEMMA AtWork ==
    ASSUME RInv, NEW w \in Workers
    PROVE  /\ task[w] \in Task
           /\ task[w].pc # "idle" =>
                /\ task[w].job \in DOMAIN jobs
                /\ jobs[task[w].job] \in Job
           /\ task[w].pc \in {"dify", "save", "lookup", "saveGraph"}
                => task[w].version \in Contents
BY DEF RInv, TypeOK, RegistryTypeOK, Tasked

\* A step that leaves the registry alone.
LEMMA SameRegistry ==
    ASSUME RInv, UNCHANGED registry
    PROVE  RegistryTypeOK' /\ SameJobs /\ WorkerStep
BY DEF RInv, TypeOK, RegistryTypeOK, SameJobs, WorkerStep, registry

\* The task that has left its job.
LEMMA IdleTyped == IdleTask \in Task /\ IdleTask.pc = "idle"
BY DEF IdleTask, Task, SyncStatuses

\* Taking a job writes its status and the task.
LEMMA TakeStep ==
    ASSUME RInv, NEW w \in Workers, Take(w)
    PROVE  TypeOK' /\ Tasked' /\ WorkerStep
<1>1. PICK j \in queue :
        /\ queue' = queue \ {j}
        /\ jobs' = [jobs EXCEPT ![j].status = "syncing"]
        /\ task' = [task EXCEPT ![w] = [IdleTask EXCEPT !.pc = "read", !.job = j,
                                                        !.oldKb = jobs[j].kb,
                                                        !.oldGraph = jobs[j].graph]]
        /\ overlapped' \in {overlapped, overlapped \cup {j}}
  BY DEF Take
<1> DEFINE e == [jobs[j] EXCEPT !.status = "syncing"]
           t == [IdleTask EXCEPT !.pc = "read", !.job = j, !.oldKb = jobs[j].kb,
                                 !.oldGraph = jobs[j].graph]
<1>2. /\ jobs \in Seq(Job) /\ queue \subseteq DOMAIN jobs
      /\ j \in DOMAIN jobs /\ jobs[j] \in Job /\ j \in Nat
  BY DEF RInv, TypeOK, RegistryTypeOK
<1>3. e \in Job /\ e.paper = jobs[j].paper /\ e.hash = jobs[j].hash
      /\ e.dedup = jobs[j].dedup
  BY <1>2 DEF Job
<1>4. jobs' = [jobs EXCEPT ![j] = e]
  BY <1>1, <1>2
<1>5. jobs' \in Seq(Job) /\ SameJobs
  BY <1>2, <1>3, <1>4, JobChanges
<1>6. t \in Task /\ t.pc = "read" /\ t.job = j
  BY <1>2 DEF IdleTask, Task, SyncStatuses, Job
<1>7. task' \in [Workers -> Task] /\ Tasked'
  BY <1>1, <1>2, <1>5, <1>6, TaskChanges
<1>8. TypeOK'
  BY <1>1, <1>2, <1>5, <1>7
  DEF RInv, TypeOK, RegistryTypeOK, Take, SameJobs, tables, external, bounds
<1> QED
  BY <1>5, <1>7, <1>8 DEF Take, WorkerStep

\* The version a task reads is a content.
LEMMA ReadVersionStep ==
    ASSUME RInv, NEW w \in Workers, ReadVersion(w)
    PROVE  TypeOK' /\ Tasked' /\ WorkerStep
<1> DEFINE t == [task[w] EXCEPT !.pc = "dify",
                                !.version = LatestVersion(Paper(w)).hash,
                                !.record = records[Paper(w)]]
<1>1. RegistryTypeOK' /\ SameJobs /\ WorkerStep
  BY SameRegistry DEF ReadVersion
<1>2. /\ task[w] \in Task /\ task[w].job \in DOMAIN jobs
      /\ Paper(w) \in Papers
      /\ LatestVersion(Paper(w)).hash \in Contents
  BY AtWork, TaskReadsContent DEF ReadVersion
<1>3. records[Paper(w)] \in Record \cup {None}
  BY <1>2 DEF RInv, TypeOK
<1>4. /\ t \in Task /\ t.job = task[w].job /\ t.version \in Contents
  BY <1>2, <1>3 DEF Task
<1>5. task' = [task EXCEPT ![w] = t]
  BY DEF ReadVersion, RInv, TypeOK
<1>6. task' \in [Workers -> Task] /\ Tasked'
  BY <1>1, <1>2, <1>4, <1>5, TaskChanges
<1>7. TypeOK'
  BY <1>1, <1>6 DEF RInv, TypeOK, ReadVersion, tables, external, bounds, SameJobs
<1> QED
  BY <1>1, <1>6, <1>7

\* Nothing is sent to Dify.
LEMMA SkipDifyStep ==
    ASSUME RInv, NEW w \in Workers, SkipDify(w)
    PROVE  TypeOK' /\ Tasked' /\ WorkerStep
<1> DEFINE kb == IF ~EnableDify THEN "disabled"
                 ELSE IF task[w].version \notin WithDocuments
                      THEN "skipped" ELSE "completed"
           t == [task[w] EXCEPT !.pc = "save", !.kb = kb]
<1>1. RegistryTypeOK' /\ SameJobs /\ WorkerStep
  BY SameRegistry DEF SkipDify
<1>2. /\ task[w] \in Task /\ task[w].job \in DOMAIN jobs
      /\ task[w].version \in Contents
  BY AtWork DEF SkipDify
<1>3. kb \in SyncStatuses
  BY DEF SyncStatuses
<1>4. t \in Task /\ t.job = task[w].job /\ t.version = task[w].version
  BY <1>2, <1>3 DEF Task
<1>5. task' = [task EXCEPT ![w] = t]
  BY DEF SkipDify, RInv, TypeOK
<1>6. task' \in [Workers -> Task] /\ Tasked'
  BY <1>1, <1>2, <1>4, <1>5, TaskChanges
<1>7. TypeOK'
  BY <1>1, <1>6 DEF RInv, TypeOK, SkipDify, tables, external, bounds, SameJobs
<1> QED
  BY <1>1, <1>6, <1>7

\* What is sent to Dify goes to one of its documents.
LEMMA SendTyped ==
    ASSUME RInv, NEW w \in Workers, task[w].pc = "dify",
           NEW d \in Target(w), Send(w, d)
    PROVE  /\ d \in Documents
           /\ remote' \in [Documents -> Contents \cup {None}]
           /\ sentDify' \in [Papers -> SUBSET Contents]
<1>1. /\ task[w] \in Task /\ task[w].version \in Contents
      /\ Paper(w) \in Papers
  BY AtWork, TaskReadsContent
<1>2. d \in Documents
  BY <1>1 DEF Target, Task, Record
<1> QED
  BY <1>1, <1>2 DEF Send, RInv, TypeOK

\* A document is sent.
LEMMA CallDifyStep ==
    ASSUME RInv, NEW w \in Workers, CallDify(w)
    PROVE  TypeOK' /\ Tasked' /\ WorkerStep
<1>1. RegistryTypeOK' /\ SameJobs /\ WorkerStep
  BY SameRegistry DEF CallDify
<1>2. PICK d \in Target(w) :
        /\ Send(w, d)
        /\ task' = [task EXCEPT ![w].pc = "save", ![w].document = d,
                                ![w].kb = "completed"]
  BY DEF CallDify
<1> DEFINE t == [task[w] EXCEPT !.pc = "save", !.document = d, !.kb = "completed"]
<1>3. /\ task[w] \in Task /\ task[w].job \in DOMAIN jobs
      /\ task[w].version \in Contents /\ task[w].pc = "dify"
  BY AtWork DEF CallDify
<1>4. /\ d \in Documents
      /\ remote' \in [Documents -> Contents \cup {None}]
      /\ sentDify' \in [Papers -> SUBSET Contents]
  BY <1>2, <1>3, SendTyped
<1>5. t \in Task /\ t.job = task[w].job /\ t.version = task[w].version
  BY <1>3, <1>4 DEF Task, SyncStatuses
<1>6. task' = [task EXCEPT ![w] = t]
  BY <1>2 DEF RInv, TypeOK
<1>7. task' \in [Workers -> Task] /\ Tasked'
  BY <1>1, <1>3, <1>5, <1>6, TaskChanges
<1>8. TypeOK'
  BY <1>1, <1>4, <1>7 DEF RInv, TypeOK, CallDify, tables, bounds, SameJobs
<1> QED
  BY <1>1, <1>7, <1>8

\* A call to Dify fails.
LEMMA DifyFailsStep ==
    ASSUME RInv, NEW w \in Workers, DifyFails(w)
    PROVE  TypeOK' /\ Tasked' /\ WorkerStep
<1> DEFINE t == [task[w] EXCEPT !.pc = "save", !.kb = "failed"]
<1>1. RegistryTypeOK' /\ SameJobs /\ WorkerStep
  BY SameRegistry DEF DifyFails
<1>2. /\ task[w] \in Task /\ task[w].job \in DOMAIN jobs
      /\ task[w].version \in Contents /\ task[w].pc = "dify"
  BY AtWork DEF DifyFails
<1>3. /\ remote' \in [Documents -> Contents \cup {None}]
      /\ sentDify' \in [Papers -> SUBSET Contents]
  <2>1. CASE UNCHANGED <<remote, sentDify>>
    BY <2>1 DEF RInv, TypeOK
  <2>2. CASE \E d \in Target(w) : Send(w, d)
    BY <1>2, <2>2, SendTyped
  <2> QED
    BY <2>1, <2>2 DEF DifyFails
<1>4. t \in Task /\ t.job = task[w].job /\ t.version = task[w].version
  BY <1>2 DEF Task, SyncStatuses
<1>5. task' = [task EXCEPT ![w] = t]
  BY DEF DifyFails, RInv, TypeOK
<1>6. task' \in [Workers -> Task] /\ Tasked'
  BY <1>1, <1>2, <1>4, <1>5, TaskChanges
<1>7. TypeOK'
  BY <1>1, <1>3, <1>6 DEF RInv, TypeOK, DifyFails, tables, SameJobs
<1> QED
  BY <1>1, <1>6, <1>7

\* What a task writes into a job's columns.
LEMMA SavedTyped ==
    ASSUME RInv, NEW w \in Workers, task[w].pc # "idle"
    PROVE  SavedKb(w) \in SyncStatuses /\ SavedGraph(w) \in SyncStatuses
BY AtWork DEF SavedKb, SavedGraph, Column, Task, Job

\* The task as its third transaction begins.
LEMMA ThirdTyped ==
    ASSUME RInv, NEW w \in Workers, task[w].pc # "idle", SameJobs,
           NEW result \in SyncStatuses, NEW committed \in BOOLEAN,
           ThirdTransaction(w, result, committed)
    PROVE  task' \in [Workers -> Task] /\ Tasked'
<1> DEFINE old == IF committed THEN result ELSE None
           graph == IF committed THEN task[w].oldGraph ELSE jobs[task[w].job].graph
           t == [IdleTask EXCEPT !.pc = "graph", !.job = task[w].job, !.kb = result,
                                 !.oldKb = old, !.oldGraph = graph]
<1>1. /\ task[w] \in Task /\ task[w].job \in DOMAIN jobs
      /\ jobs[task[w].job] \in Job
  BY AtWork
<1>2. old \in SyncStatuses \cup {None} /\ graph \in SyncStatuses \cup {None}
  BY <1>1 DEF Task, Job
<1>3. task' = [task EXCEPT ![w] = t]
  BY DEF ThirdTransaction
<1> HIDE DEF old, graph
<1>4. task[w].job \in Nat
  BY <1>1 DEF Task
<1>5. t \in Task /\ t.pc = "graph" /\ t.job = task[w].job
  BY <1>2, <1>4, IdleTyped DEF Task, IdleTask
<1> QED
  BY <1>1, <1>3, <1>5, TaskChanges

\* The record of a document is written.
LEMMA SaveStep ==
    ASSUME RInv, NEW w \in Workers, Save(w)
    PROVE  TypeOK' /\ Tasked' /\ WorkerStep
<1> DEFINE j == task[w].job
           kb == SavedKb(w)
           e == [jobs[j] EXCEPT !.kb = kb]
<1>1. /\ task[w] \in Task /\ j \in DOMAIN jobs /\ jobs[j] \in Job
      /\ task[w].version \in Contents /\ Paper(w) \in Papers
  BY AtWork, TaskReadsContent DEF Save
<1>2. kb \in SyncStatuses
  BY SavedTyped DEF Save
<1>3. jobs' = [jobs EXCEPT ![j] = e]
  BY DEF Save, RInv, TypeOK, RegistryTypeOK
<1> HIDE DEF kb
<1>4. e \in Job /\ e.paper = jobs[j].paper /\ e.hash = jobs[j].hash
      /\ e.dedup = jobs[j].dedup
  BY <1>1, <1>2 DEF Job
<1>5. jobs' \in Seq(Job) /\ SameJobs
  BY <1>1, <1>3, <1>4, JobChanges
<1>6. task[w].kb \in SyncStatuses /\ TRUE \in BOOLEAN
  BY <1>1 DEF Task
<1>7. task' \in [Workers -> Task] /\ Tasked'
  BY <1>5, <1>6, ThirdTyped DEF Save
<1>8. task[w].document # None =>
        [document |-> task[w].document, hash |-> RecordedContent(w)] \in Record
  BY <1>1 DEF Task, Record, RecordedContent
<1>9. records' \in [Papers -> Record \cup {None}]
  BY <1>1, <1>8 DEF Save, RInv, TypeOK
<1>10. TypeOK'
  BY <1>5, <1>7, <1>9
  DEF RInv, TypeOK, RegistryTypeOK, Save, SameJobs, external, bounds
<1> QED
  BY <1>5, <1>7, <1>10 DEF Save, WorkerStep

\* The insert of a record fails.
LEMMA SaveConflictsStep ==
    ASSUME RInv, NEW w \in Workers, SaveConflicts(w)
    PROVE  TypeOK' /\ Tasked' /\ WorkerStep
<1>1. RegistryTypeOK' /\ SameJobs /\ WorkerStep
  BY SameRegistry DEF SaveConflicts
<1>2. "failed" \in SyncStatuses /\ FALSE \in BOOLEAN
  BY DEF SyncStatuses
<1>3. task' \in [Workers -> Task] /\ Tasked'
  BY <1>1, <1>2, ThirdTyped DEF SaveConflicts
<1>4. TypeOK'
  BY <1>1, <1>3 DEF RInv, TypeOK, SaveConflicts, tables, external, bounds, SameJobs
<1> QED
  BY <1>1, <1>3, <1>4

\* Nothing is written to Neo4j.
LEMMA SkipGraphStep ==
    ASSUME RInv, NEW w \in Workers, SkipGraph(w)
    PROVE  TypeOK' /\ Tasked' /\ WorkerStep
<1> DEFINE v == LatestVersion(Paper(w)).hash
           g == IF EnableNeo4j THEN "skipped" ELSE "disabled"
           t == [task[w] EXCEPT !.pc = "saveGraph", !.version = v, !.graph = g]
<1>1. RegistryTypeOK' /\ SameJobs /\ WorkerStep
  BY SameRegistry DEF SkipGraph
<1>2. /\ task[w] \in Task /\ task[w].job \in DOMAIN jobs
      /\ Paper(w) \in Papers /\ v \in Contents
  BY AtWork, TaskReadsContent DEF SkipGraph
<1>3. g \in SyncStatuses
  BY DEF SyncStatuses
<1>4. t \in Task /\ t.job = task[w].job /\ t.version = v
  BY <1>2, <1>3 DEF Task
<1>5. task' = [task EXCEPT ![w] = t]
  BY DEF SkipGraph, RInv, TypeOK
<1>6. task' \in [Workers -> Task] /\ Tasked'
  BY <1>1, <1>2, <1>4, <1>5, TaskChanges
<1>8. TypeOK'
  BY <1>1, <1>6 DEF RInv, TypeOK, SkipGraph, tables, external, bounds, SameJobs
<1> QED
  BY <1>1, <1>6, <1>8

\* A graph is written.
LEMMA WriteGraphStep ==
    ASSUME RInv, NEW w \in Workers, WriteGraph(w)
    PROVE  TypeOK' /\ Tasked' /\ WorkerStep
<1> DEFINE v == LatestVersion(Paper(w)).hash
           g == "completed"
           t == [task[w] EXCEPT !.pc = "lookup", !.version = v, !.graph = g]
<1>1. RegistryTypeOK' /\ SameJobs /\ WorkerStep
  BY SameRegistry DEF WriteGraph
<1>2. /\ task[w] \in Task /\ task[w].job \in DOMAIN jobs
      /\ Paper(w) \in Papers /\ v \in Contents
  BY AtWork, TaskReadsContent DEF WriteGraph
<1>3. g \in SyncStatuses
  BY DEF SyncStatuses
<1>4. t \in Task /\ t.job = task[w].job /\ t.version = v
  BY <1>2, <1>3 DEF Task
<1>5. task' = [task EXCEPT ![w] = t]
  BY DEF WriteGraph, RInv, TypeOK
<1>6. task' \in [Workers -> Task] /\ Tasked'
  BY <1>1, <1>2, <1>4, <1>5, TaskChanges
<1>7. graphs' \in [Papers -> SUBSET Contents]
  BY <1>2 DEF RInv, TypeOK, WriteGraph
<1>8. TypeOK'
  BY <1>1, <1>6, <1>7 DEF RInv, TypeOK, WriteGraph, tables, bounds, SameJobs
<1> QED
  BY <1>1, <1>6, <1>8

\* Writing a graph fails.
LEMMA GraphFailsStep ==
    ASSUME RInv, NEW w \in Workers, GraphFails(w)
    PROVE  TypeOK' /\ Tasked' /\ WorkerStep
<1> DEFINE v == LatestVersion(Paper(w)).hash
           g == "failed"
           t == [task[w] EXCEPT !.pc = "lookup", !.version = v, !.graph = g]
<1>1. RegistryTypeOK' /\ SameJobs /\ WorkerStep
  BY SameRegistry DEF GraphFails
<1>2. /\ task[w] \in Task /\ task[w].job \in DOMAIN jobs
      /\ Paper(w) \in Papers /\ v \in Contents
  BY AtWork, TaskReadsContent DEF GraphFails
<1>3. g \in SyncStatuses
  BY DEF SyncStatuses
<1>4. t \in Task /\ t.job = task[w].job /\ t.version = v
  BY <1>2, <1>3 DEF Task
<1>5. task' = [task EXCEPT ![w] = t]
  BY DEF GraphFails, RInv, TypeOK
<1>6. task' \in [Workers -> Task] /\ Tasked'
  BY <1>1, <1>2, <1>4, <1>5, TaskChanges
<1>7. graphs' \in [Papers -> SUBSET Contents]
  <2>1. graphs \in [Papers -> SUBSET Contents]
    BY DEF RInv, TypeOK
  <2>2. [graphs EXCEPT ![Paper(w)] = @ \cup {v}] \in [Papers -> SUBSET Contents]
    BY <1>2, <2>1
  <2> QED
    BY <2>1, <2>2 DEF GraphFails
<1>8. TypeOK'
  BY <1>1, <1>6, <1>7 DEF RInv, TypeOK, GraphFails, tables, SameJobs
<1> QED
  BY <1>1, <1>6, <1>8

\* The record of a graph is looked for.
LEMMA LookupGraphRecordStep ==
    ASSUME RInv, NEW w \in Workers, LookupGraphRecord(w)
    PROVE  TypeOK' /\ Tasked' /\ WorkerStep
<1> DEFINE found == GraphRecord(w) # None
           t == [task[w] EXCEPT !.pc = "saveGraph", !.found = found]
<1>1. RegistryTypeOK' /\ SameJobs /\ WorkerStep
  BY SameRegistry DEF LookupGraphRecord
<1>2. /\ task[w] \in Task /\ task[w].job \in DOMAIN jobs
      /\ task[w].version \in Contents
  BY AtWork DEF LookupGraphRecord
<1>3. found \in BOOLEAN
  OBVIOUS
<1> HIDE DEF found
<1>4. t \in Task /\ t.job = task[w].job /\ t.version = task[w].version
  BY <1>2, <1>3 DEF Task
<1>5. task' = [task EXCEPT ![w] = t]
  BY DEF LookupGraphRecord, RInv, TypeOK, found
<1>6. task' \in [Workers -> Task] /\ Tasked'
  BY <1>1, <1>2, <1>4, <1>5, TaskChanges
<1>7. TypeOK'
  BY <1>1, <1>6 DEF RInv, TypeOK, LookupGraphRecord, tables, external, bounds, SameJobs
<1> QED
  BY <1>1, <1>6, <1>7

\* The record of a graph is written.
LEMMA SaveGraphStep ==
    ASSUME RInv, NEW w \in Workers, SaveGraph(w)
    PROVE  TypeOK' /\ Tasked' /\ WorkerStep
<1> DEFINE j == task[w].job
           kb == SavedKb(w)
           graph == SavedGraph(w)
           e == [jobs[j] EXCEPT !.kb = kb, !.graph = graph]
           t == [IdleTask EXCEPT !.pc = "finish", !.job = j, !.kb = task[w].kb,
                                 !.graph = task[w].graph]
<1>1. /\ task[w] \in Task /\ j \in DOMAIN jobs /\ jobs[j] \in Job
      /\ task[w].version \in Contents /\ Paper(w) \in Papers
  BY AtWork, TaskReadsContent DEF SaveGraph
<1>2. kb \in SyncStatuses /\ graph \in SyncStatuses
  BY SavedTyped DEF SaveGraph
<1>3. jobs' = [jobs EXCEPT ![j] = e]
  BY DEF SaveGraph, RInv, TypeOK, RegistryTypeOK
<1> HIDE DEF kb, graph
<1>4. e \in Job /\ e.paper = jobs[j].paper /\ e.hash = jobs[j].hash
      /\ e.dedup = jobs[j].dedup
  BY <1>1, <1>2 DEF Job
<1>5. jobs' \in Seq(Job) /\ SameJobs
  BY <1>1, <1>3, <1>4, JobChanges
<1>6. t \in Task /\ t.pc = "finish" /\ t.job = j
  BY <1>1 DEF Task, IdleTask, SyncStatuses
<1>7. task' = [task EXCEPT ![w] = t]
  BY DEF SaveGraph
<1>8. task' \in [Workers -> Task] /\ Tasked'
  BY <1>1, <1>5, <1>6, <1>7, TaskChanges
<1>9. graphRecords' \in [Papers -> [Contents -> {None, "completed", "failed"}]]
  BY <1>1 DEF SaveGraph, WritesGraphRecord, RInv, TypeOK
<1>10. TypeOK'
  BY <1>5, <1>8, <1>9
  DEF RInv, TypeOK, RegistryTypeOK, SaveGraph, SameJobs, external, bounds
<1> QED
  BY <1>5, <1>8, <1>10 DEF SaveGraph, WorkerStep

\* The last transaction, whether or not its worker lives to see its end.
LEMMA StatusSaved ==
    ASSUME RInv, NEW w \in Workers, task[w].pc # "idle", SaveStatus(w)
    PROVE  jobs' \in Seq(Job) /\ SameJobs
<1> DEFINE j == task[w].job
           status == FinalStatus(task[w].kb, task[w].graph)
           e == [jobs[j] EXCEPT !.status = status]
<1>1. j \in DOMAIN jobs /\ jobs[j] \in Job
  BY AtWork
<1>2. status \in {"completed", "partial_success", "failed"}
  BY DEF FinalStatus
<1> HIDE DEF status
<1>3. e \in Job /\ e.paper = jobs[j].paper /\ e.hash = jobs[j].hash
      /\ e.dedup = jobs[j].dedup
  BY <1>1, <1>2 DEF Job
<1>4. jobs' = [jobs EXCEPT ![j] = e]
  BY DEF SaveStatus, RInv, TypeOK, RegistryTypeOK, status
<1> QED
  BY <1>1, <1>3, <1>4, JobChanges

\* The task ends.
LEMMA FinishStep ==
    ASSUME RInv, NEW w \in Workers, Finish(w)
    PROVE  TypeOK' /\ Tasked' /\ WorkerStep
<1>1. jobs' \in Seq(Job) /\ SameJobs
  BY StatusSaved DEF Finish
<1>2. task' \in [Workers -> Task] /\ Tasked'
  BY <1>1, IdleTyped, TaskChanges DEF Finish
<1>3. TypeOK'
  BY <1>1, <1>2
  DEF RInv, TypeOK, RegistryTypeOK, Finish, SameJobs, tables, external, bounds
<1> QED
  BY <1>1, <1>2, <1>3 DEF Finish, WorkerStep

\* The commit of a record raises.
LEMMA RaiseStep ==
    ASSUME RInv, NEW w \in Workers, Raise(w)
    PROVE  TypeOK' /\ Tasked' /\ WorkerStep
<1>1. SameJobs
  BY DEF Raise, SameJobs
<1>2. task' \in [Workers -> Task] /\ Tasked'
  BY <1>1, IdleTyped, TaskChanges DEF Raise
<1>3. task[w].job \in DOMAIN jobs
  BY AtWork DEF Raise
<1>4. TypeOK'
  BY <1>2, <1>3
  DEF RInv, TypeOK, RegistryTypeOK, Raise, tables, external, bounds
<1> QED
  BY <1>1, <1>2, <1>4 DEF Raise, WorkerStep

\* A worker dies.
LEMMA DieStep ==
    ASSUME RInv, NEW w \in Workers, Die(w)
    PROVE  TypeOK' /\ Tasked' /\ WorkerStep
<1>1. jobs' \in Seq(Job) /\ SameJobs
  <2>1. CASE UNCHANGED jobs
    BY <2>1 DEF RInv, TypeOK, RegistryTypeOK, SameJobs
  <2>2. CASE SaveStatus(w)
    BY <2>2, StatusSaved DEF Die
  <2> QED
    BY <2>1, <2>2 DEF Die
<1>2. task' \in [Workers -> Task] /\ Tasked'
  BY <1>1, IdleTyped, TaskChanges DEF Die
<1>3. task[w].job \in DOMAIN jobs
  BY AtWork DEF Die
<1>4. queue' \subseteq DOMAIN jobs'
  BY <1>1, <1>3 DEF RInv, TypeOK, RegistryTypeOK, Die, SameJobs
<1>5. TypeOK'
  BY <1>1, <1>2, <1>4
  DEF RInv, TypeOK, RegistryTypeOK, Die, tables, external, SameJobs
<1> QED
  BY <1>1, <1>2, <1>5 DEF Die, WorkerStep

\* The message of a task at work is delivered again.
LEMMA RedeliverStep ==
    ASSUME RInv, NEW w \in Workers, Redeliver(w)
    PROVE  TypeOK' /\ Tasked' /\ WorkerStep
<1>1. SameJobs
  BY DEF Redeliver, SameJobs
<1>2. task[w].job \in DOMAIN jobs
  BY AtWork DEF Redeliver
<1>3. TypeOK'
  BY <1>2 DEF RInv, TypeOK, RegistryTypeOK, Redeliver, tables, external
<1>4. Tasked'
  BY DEF RInv, Tasked, Redeliver
<1> QED
  BY <1>1, <1>3, <1>4 DEF Redeliver, WorkerStep

\* No step of a worker can disturb the registry.
LEMMA WorkerStepsKeepRInv ==
    ASSUME RInv, NEW w \in Workers, Work(w) \/ Die(w) \/ Redeliver(w)
    PROVE  RInv'
<1>1. TypeOK' /\ Tasked' /\ WorkerStep
  BY TakeStep, ReadVersionStep, SkipDifyStep, CallDifyStep, DifyFailsStep, SaveStep,
     SaveConflictsStep, SkipGraphStep, WriteGraphStep, GraphFailsStep,
     LookupGraphRecordStep, SaveGraphStep, FinishStep, RaiseStep, DieStep, RedeliverStep
  DEF Work
<1> QED
  BY <1>1, WorkerKeepsRegistry DEF RInv

-----------------------------------------------------------------------------
(* The steps of requests.                                                  *)

\* Why a paper may be refused.
HasCause(p, h) ==
    \/ \E v \in VersionsOf(p) : v.hash = h /\ v.number < papers[p].version
    \/ \E q \in Papers : {p, q} \in Clashing /\ papers[q] # None

\* A request as it is kept, and what it may become in a step that leaves the
\* tables alone.
RequestFits(q) ==
    /\ q \in Request
    /\ q.pc # "new" => q.paper \in Papers /\ q.hash \in Contents
    /\ q.pc = "commit" => q.seen = papers[q.paper] /\ LockFree(q.paper)
    /\ q.pc = "dispatch" => q.job \in DOMAIN jobs
    /\ q.pc # "done" => q.answer = "none"
    /\ q.answer = "500" /\ q.job = 0 => HasCause(q.paper, q.hash)

\* Steps that write neither papers nor versions nor jobs.
LEMMA QuietStep ==
    ASSUME RInv, NEW r \in Requests, NEW q, RequestFits(q),
           req' = [req EXCEPT ![r] = q],
           UNCHANGED <<papers, versions, jobs, task, tables, external, bounds>>,
           queue' \subseteq DOMAIN jobs
    PROVE  RInv'
<1>1. req \in [Requests -> Request]
  BY DEF RInv, TypeOK, RegistryTypeOK
<1>2. /\ req' \in [Requests -> Request] /\ req'[r] = q
      /\ \A s \in Requests \ {r} : req'[s] = req[s]
  BY <1>1 DEF RequestFits
<1>3. TypeOK'
  BY <1>2 DEF RInv, TypeOK, RegistryTypeOK, tables, external, bounds
<1>4. \A p : VersionsOf(p)' = VersionsOf(p)
  BY DEF VersionsOf
<1>5. \A p, h : JobsFor(p, h)' = JobsFor(p, h)
  BY DEF JobsFor
<1>6. Begun'
  BY <1>2 DEF RInv, Begun, RequestFits
<1>7. Exclusive'
  BY <1>2 DEF RInv, Exclusive, RequestFits, LockFree
<1>8. Numbered'
  BY <1>4 DEF RInv, Numbered, NumberedPaper
<1>9. JobsKnown' /\ FreshAlone'
  BY <1>4 DEF RInv, JobsKnown, FreshAlone
<1>12. LastKnown'
  BY <1>5 DEF RInv, LastKnown
<1>10. Tasked'
  BY DEF RInv, Tasked
<1>11. RefusedForCause'
  BY <1>2, <1>4 DEF RInv, RefusedForCause, RequestFits, HasCause
<1> QED
  BY <1>3, <1>6, <1>7, <1>8, <1>9, <1>10, <1>11, <1>12 DEF RInv

\* A request arrives.
LEMMA SubmitStep ==
    ASSUME RInv, NEW r \in Requests, NEW p \in Papers, NEW h \in Contents,
           Submit(r, p, h), UNCHANGED <<task, tables, external, bounds>>
    PROVE  RInv'
<1> DEFINE q == [req[r] EXCEPT !.pc = "register", !.paper = p, !.hash = h]
<1>1. req[r] \in Request /\ req[r].answer = "none"
  BY DEF RInv, TypeOK, RegistryTypeOK, Begun, Submit
<1>2. q \in Request /\ q.pc = "register" /\ q.paper = p /\ q.hash = h
      /\ q.answer = "none"
  BY <1>1 DEF Request, PCs
<1>3. RequestFits(q)
  BY <1>2 DEF RequestFits
<1>4. req' = [req EXCEPT ![r] = q]
  BY DEF Submit, RInv, TypeOK, RegistryTypeOK
<1>5. UNCHANGED <<papers, versions, jobs>> /\ queue' \subseteq DOMAIN jobs
  BY DEF Submit, RInv, TypeOK, RegistryTypeOK
<1> HIDE DEF q
<1> QED
  BY <1>3, <1>4, <1>5, QuietStep

\* A transaction takes the lock and reads the row.
LEMMA RegisterStep ==
    ASSUME RInv, NEW r \in Requests, Register(r),
           UNCHANGED <<task, tables, external, bounds>>
    PROVE  RInv'
<1> DEFINE p == req[r].paper
           q == [req[r] EXCEPT !.pc = "commit", !.seen = papers[p]]
<1>1. req[r] \in Request /\ req[r].answer = "none" /\ p \in Papers
      /\ req[r].hash \in Contents
  BY DEF RInv, TypeOK, RegistryTypeOK, Begun, Register
<1>2. papers[p] \in Row \cup {None}
  BY <1>1 DEF RInv, TypeOK, RegistryTypeOK
<1>3. q \in Request /\ q.pc = "commit" /\ q.paper = p /\ q.hash \in Contents
      /\ q.answer = "none" /\ q.seen = papers[p]
  BY <1>1, <1>2 DEF Request, PCs
<1>4. RequestFits(q)
  BY <1>1, <1>3 DEF RequestFits, Register
<1>5. req' = [req EXCEPT ![r] = q]
  BY DEF Register, RInv, TypeOK, RegistryTypeOK
<1>6. UNCHANGED <<papers, versions, jobs>> /\ queue' \subseteq DOMAIN jobs
  BY DEF Register, RInv, TypeOK, RegistryTypeOK
<1> HIDE DEF q
<1> QED
  BY <1>4, <1>5, <1>6, QuietStep

\* A constraint that is violated is violated for a cause: the number is never
\* taken, thanks to the lock.
LEMMA ConflictHasCause ==
    ASSUME RInv, NEW r \in Requests, req[r].pc = "commit", Conflicts(r)
    PROVE  HasCause(req[r].paper, req[r].hash)
<1> DEFINE p == req[r].paper
           h == req[r].hash
<1>1. p \in Papers /\ req[r].seen = papers[p]
  BY DEF RInv, Begun
<1>2. NumberedPaper(p)
  BY <1>1 DEF RInv, Numbered
<1>3. CASE IsNew(r)
  <2>1. papers[p] = None /\ VersionsOf(p) = {}
    BY <1>1, <1>2, <1>3 DEF IsNew, NumberedPaper
  <2> QED
    BY <2>1 DEF Conflicts, HasCause
<1>4. CASE ~IsNew(r)
  <2>1. papers[p] # None /\ papers[p].version \in Nat \ {0}
    BY <1>1, <1>2, <1>4 DEF IsNew, NumberedPaper
  <2>2. ~IsExisting(r)
    BY <1>4 DEF Conflicts
  <2>3. papers[p].hash # h
    BY <1>1, <2>1, <2>2 DEF IsExisting
  <2>4. PICK v \in VersionsOf(p) : v.number = VersionNumber(r) \/ v.hash = h
    BY <1>4 DEF Conflicts
  <2>5. /\ v.number \in 1..papers[p].version
        /\ v.number = papers[p].version => v.hash = papers[p].hash
    BY <1>2, <2>1, <2>4 DEF NumberedPaper
  <2>6. VersionNumber(r) = papers[p].version + 1
    BY <1>1, <1>4 DEF VersionNumber
  <2>7. v.hash = h
    BY <2>1, <2>4, <2>5, <2>6
  <2>8. v.number < papers[p].version
    BY <2>1, <2>3, <2>5, <2>7
  <2> QED
    BY <2>4, <2>7, <2>8 DEF HasCause
<1> QED
  BY <1>3, <1>4

\* A violated constraint.
LEMMA ConflictStep ==
    ASSUME RInv, NEW r \in Requests, Conflict(r),
           UNCHANGED <<task, tables, external, bounds>>
    PROVE  RInv'
<1> DEFINE again == [req[r] EXCEPT !.pc = "register", !.seen = None,
                                   !.attempt = req[r].attempt + 1]
           ended == [req[r] EXCEPT !.pc = "done", !.seen = None, !.answer = "500"]
<1>1. req[r] \in Request /\ req[r].answer = "none" /\ req[r].paper \in Papers
      /\ req[r].hash \in Contents
  BY DEF RInv, TypeOK, RegistryTypeOK, Begun, Conflict
<1>2. HasCause(req[r].paper, req[r].hash)
  BY ConflictHasCause DEF Conflict
<1>3. UNCHANGED <<papers, versions, jobs>> /\ queue' \subseteq DOMAIN jobs
  BY DEF Conflict, RInv, TypeOK, RegistryTypeOK
<1>4. CASE req[r].attempt < MaxAttempts
  <2>0. req[r].attempt \in Nat /\ req[r].attempt + 1 \in 1..MaxAttempts
    BY <1>1, <1>4, IngestionAssumption DEF Request
  <2>1. again \in Request /\ again.pc = "register" /\ again.answer = "none"
        /\ again.paper = req[r].paper /\ again.hash = req[r].hash
    BY <1>1, <2>0 DEF Request, PCs
  <2>2. RequestFits(again)
    BY <1>1, <2>1 DEF RequestFits
  <2>3. req' = [req EXCEPT ![r] = again]
    BY <1>1, <1>4, <2>0 DEF Conflict, RInv, TypeOK, RegistryTypeOK
  <2> HIDE DEF again
  <2> QED
    BY <1>3, <2>2, <2>3, QuietStep
<1>5. CASE ~(req[r].attempt < MaxAttempts)
  <2>1. ended \in Request /\ ended.pc = "done"
        /\ ended.paper = req[r].paper /\ ended.hash = req[r].hash
    BY <1>1 DEF Request, PCs
  <2>2. RequestFits(ended)
    BY <1>1, <1>2, <2>1 DEF RequestFits
  <2>3. req' = [req EXCEPT ![r] = ended]
    BY <1>5 DEF Conflict, RInv, TypeOK, RegistryTypeOK
  <2> HIDE DEF ended
  <2> QED
    BY <1>3, <2>2, <2>3, QuietStep
<1> QED
  BY <1>4, <1>5

\* The job is sent, or cannot be.
LEMMA DispatchSteps ==
    ASSUME RInv, NEW r \in Requests, Dispatch(r) \/ DispatchFails(r),
           UNCHANGED <<task, tables, external, bounds>>
    PROVE  RInv'
<1>1. PICK a \in {"202", "500"} :
        req' = [req EXCEPT ![r].pc = "done", ![r].answer = a]
  BY DEF Dispatch, DispatchFails
<1> DEFINE q == [req[r] EXCEPT !.pc = "done", !.answer = a]
<1>2. req[r] \in Request /\ req[r].paper \in Papers /\ req[r].hash \in Contents
      /\ req[r].job \in DOMAIN jobs /\ req[r].job # 0
  BY DEF RInv, TypeOK, RegistryTypeOK, Begun, Dispatch, DispatchFails
<1>3. q \in Request /\ q.pc = "done" /\ q.paper = req[r].paper
      /\ q.hash = req[r].hash /\ q.job = req[r].job
  BY <1>2 DEF Request, PCs
<1>4. RequestFits(q)
  BY <1>2, <1>3 DEF RequestFits
<1>5. req' = [req EXCEPT ![r] = q]
  BY <1>1 DEF RInv, TypeOK, RegistryTypeOK
<1>6. UNCHANGED <<papers, versions, jobs>> /\ queue' \subseteq DOMAIN jobs
  BY <1>2 DEF Dispatch, DispatchFails, RInv, TypeOK, RegistryTypeOK
<1> HIDE DEF q
<1> QED
  BY <1>4, <1>5, <1>6, QuietStep

\* A job that is added at the end leaves the others where they are.
LEMMA Appended ==
    ASSUME jobs \in Seq(Job), NEW e \in Job, jobs' = Append(jobs, e)
    PROVE  /\ jobs' \in Seq(Job)
           /\ Len(jobs') = Len(jobs) + 1 /\ Len(jobs) \in Nat
           /\ DOMAIN jobs = 1..Len(jobs)
           /\ DOMAIN jobs' = DOMAIN jobs \cup {Len(jobs')}
           /\ Len(jobs') \notin DOMAIN jobs
           /\ jobs'[Len(jobs')] = e
           /\ \A j \in DOMAIN jobs : jobs'[j] = jobs[j] /\ j < Len(jobs')
OBVIOUS

\* The new job is the last one for its content; for others the last one stays.
LEMMA LastOfJobs ==
    ASSUME RInv, NEW e \in Job, jobs' = Append(jobs, e)
    PROVE  LastKnown'
<1> SUFFICES ASSUME NEW p \in Papers, NEW h \in Contents, JobsFor(p, h)' # {}
             PROVE  \E j \in JobsFor(p, h)' : \A k \in JobsFor(p, h)' : k <= j
  BY DEF LastKnown
<1> DEFINE n == Len(jobs')
<1>1. jobs \in Seq(Job)
  BY DEF RInv, TypeOK, RegistryTypeOK
<1>2. /\ n \in Nat /\ DOMAIN jobs' = DOMAIN jobs \cup {n} /\ jobs'[n] = e
      /\ \A j \in DOMAIN jobs : jobs'[j] = jobs[j] /\ j < n /\ j \in Nat
  BY <1>1, Appended
<1>3. CASE e.paper = p /\ e.hash = h
  <2>1. n \in JobsFor(p, h)'
    BY <1>2, <1>3 DEF JobsFor
  <2>2. \A k \in JobsFor(p, h)' : k <= n
    BY <1>2 DEF JobsFor
  <2> QED
    BY <2>1, <2>2
<1>4. CASE ~(e.paper = p /\ e.hash = h)
  <2>1. JobsFor(p, h)' = JobsFor(p, h)
    BY <1>2, <1>4 DEF JobsFor
  <2>2. \E j \in JobsFor(p, h) : \A k \in JobsFor(p, h) : k <= j
    BY <2>1 DEF RInv, LastKnown
  <2> QED
    BY <2>1, <2>2
<1> QED
  BY <1>3, <1>4

\* What the committing transaction makes of its request.
Committed(r, l, a, n) ==
    req' = [req EXCEPT ![r].pc = l, ![r].seen = None, ![r].answer = a, ![r].job = n]

\* The request of a committed transaction.
LEMMA RequestCommitted ==
    ASSUME RInv, NEW r \in Requests, req[r].pc = "commit",
           NEW l \in {"dispatch", "done"}, NEW a \in {"none", "202"}, NEW n \in Nat,
           Committed(r, l, a, n)
    PROVE  /\ req' \in [Requests -> Request]
           /\ \A s \in Requests \ {r} : req'[s] = req[s]
           /\ req'[r].pc = l /\ req'[r].answer = a /\ req'[r].job = n
           /\ req'[r].paper = req[r].paper /\ req'[r].hash = req[r].hash
<1> DEFINE q == [req[r] EXCEPT !.pc = l, !.seen = None, !.answer = a, !.job = n]
<1>1. req \in [Requests -> Request] /\ req[r] \in Request
  BY DEF RInv, TypeOK, RegistryTypeOK
<1>2. q \in Request /\ q.pc = l /\ q.answer = a /\ q.job = n
      /\ q.paper = req[r].paper /\ q.hash = req[r].hash
  BY <1>1 DEF Request, PCs
<1>3. req' = [req EXCEPT ![r] = q]
  BY <1>1 DEF Committed
<1> HIDE DEF q
<1> QED
  BY <1>1, <1>2, <1>3

\* The job of a content that is there copies values of a job.
LEMMA RepeatedJobTyped ==
    ASSUME RInv, NEW r \in Requests, req[r].pc = "commit"
    PROVE  /\ RepeatedJob(r) \in Job
           /\ RepeatedJob(r).paper = req[r].paper
           /\ RepeatedJob(r).hash = req[r].hash
           /\ RepeatedJob(r).dedup = "existing"
<1> DEFINE p == req[r].paper
           h == req[r].hash
           prior == JobsFor(p, h)
           last == CHOOSE j \in prior : \A k \in prior : k <= j
           kb == IF prior = {} THEN "skipped" ELSE jobs[last].kb
           graph == IF prior = {} THEN "skipped" ELSE jobs[last].graph
           e == [paper |-> p, hash |-> h, status |-> "completed",
                 dedup |-> "existing", kb |-> kb, graph |-> graph]
<1>1. p \in Papers /\ h \in Contents /\ jobs \in Seq(Job)
  BY DEF RInv, Begun, TypeOK, RegistryTypeOK
<1>2. kb \in SyncStatuses /\ graph \in SyncStatuses
  <2>1. CASE prior = {}
    BY <2>1 DEF SyncStatuses
  <2>2. CASE prior # {}
    <3>1. PICK i \in prior : TRUE
      BY <2>2
    <3>2. \E j \in prior : \A k \in prior : k <= j
      BY <1>1, <3>1 DEF RInv, LastKnown
    <3>3. last \in prior
      BY <3>2
    <3>4. jobs[last] \in Job
      BY <1>1, <3>3 DEF JobsFor
    <3> QED
      BY <2>2, <3>4 DEF Job
  <2> QED
    BY <2>1, <2>2
<1>3. RepeatedJob(r) = e
  BY DEF RepeatedJob
<1> HIDE DEF kb, graph
<1>4. e \in Job
  BY <1>1, <1>2 DEF Job
<1> QED
  BY <1>3, <1>4

\* A content that is there: no version is added.
LEMMA CommitExistingStep ==
    ASSUME RInv, NEW r \in Requests, CommitExisting(r),
           UNCHANGED <<task, tables, external, bounds>>
    PROVE  RInv'
<1> DEFINE p == req[r].paper
           h == req[r].hash
           e == RepeatedJob(r)
           n == Len(jobs')
<1>1. /\ e \in Job /\ e.paper = p /\ e.hash = h /\ e.dedup = "existing"
      /\ jobs' = Append(jobs, e) /\ jobs \in Seq(Job)
  BY RepeatedJobTyped DEF CommitExisting, RInv, TypeOK, RegistryTypeOK
<1> HIDE DEF e
<1>2. /\ n \in Nat /\ jobs' \in Seq(Job)
      /\ DOMAIN jobs' = DOMAIN jobs \cup {n} /\ n \notin DOMAIN jobs
      /\ jobs'[n] = e /\ \A j \in DOMAIN jobs : jobs'[j] = jobs[j]
  BY <1>1, Appended
<1>3. /\ req' \in [Requests -> Request]
      /\ \A s \in Requests \ {r} : req'[s] = req[s]
      /\ req'[r].pc = "done" /\ req'[r].answer = "202"
      /\ req'[r].paper = p /\ req'[r].hash = h
  <2>1. Committed(r, "done", "202", n)
    BY DEF CommitExisting, Committed
  <2> HIDE DEF n
  <2> QED
    BY <1>2, <2>1, RequestCommitted DEF CommitExisting
<1>4. UNCHANGED <<papers, versions, queue>>
  BY DEF CommitExisting
<1>5. \A q : VersionsOf(q)' = VersionsOf(q)
  BY <1>4 DEF VersionsOf
<1>6. p \in Papers /\ h \in Contents /\ req[r].seen = papers[p]
  BY DEF RInv, Begun, CommitExisting
<1>7. TypeOK'
  BY <1>2, <1>3, <1>4 DEF RInv, TypeOK, RegistryTypeOK, tables, external, bounds
<1>8. Begun'
  BY <1>2, <1>3, <1>4, <1>6, ZenonT(30) DEF RInv, Begun
<1>9. Exclusive'
  BY <1>3 DEF RInv, Exclusive
<1>10. Numbered'
  BY <1>4, <1>5 DEF RInv, Numbered, NumberedPaper
<1>11. JobsKnown'
  <2>1. \E v \in VersionsOf(p) : v.hash = h
    <3>1. papers[p] # None /\ papers[p].hash = h
      BY <1>6 DEF CommitExisting, IsExisting
    <3> QED
      BY <1>6, <3>1, LatestIsLast DEF RInv
  <2>2. \A j \in DOMAIN jobs' :
          \E v \in versions : v.paper = jobs'[j].paper /\ v.hash = jobs'[j].hash
    BY <1>1, <1>2, <2>1 DEF RInv, JobsKnown, VersionsOf
  <2> QED
    BY <1>4, <2>2 DEF JobsKnown, VersionsOf
<1>14. FreshAlone'
  BY <1>1, <1>2 DEF RInv, FreshAlone
<1>15. LastKnown'
  BY <1>1, LastOfJobs
<1>12. Tasked'
  BY <1>2 DEF RInv, Tasked
<1>13. RefusedForCause'
  BY <1>3, <1>4, <1>5 DEF RInv, RefusedForCause
<1> QED
  BY <1>7, <1>8, <1>9, <1>10, <1>11, <1>12, <1>13, <1>14, <1>15 DEF RInv

-----------------------------------------------------------------------------
(* The transaction that adds a version.                                    *)

NewRow(r) == [hash |-> req[r].hash, version |-> VersionNumber(r)]
NewVersion(r) ==
    [paper |-> req[r].paper, number |-> VersionNumber(r), hash |-> req[r].hash]

\* The number of the new version is the next one, and neither it nor the content
\* is that of another version: the row the transaction read is still there.
LEMMA NextNumber ==
    ASSUME RInv, NEW r \in Requests, CommitFresh(r)
    PROVE  /\ req[r].paper \in Papers /\ req[r].hash \in Contents
           /\ VersionNumber(r) \in Nat \ {0}
           /\ papers[req[r].paper] = None => VersionNumber(r) = 1
           /\ papers[req[r].paper] # None =>
                 VersionNumber(r) = papers[req[r].paper].version + 1
           /\ \A v \in VersionsOf(req[r].paper) :
                 v.number # VersionNumber(r) /\ v.hash # req[r].hash
           /\ papers' = [papers EXCEPT ![req[r].paper] = NewRow(r)]
           /\ versions' = versions \cup {NewVersion(r)}
           /\ NewRow(r) \in Row /\ NewRow(r) # None
<1> DEFINE p == req[r].paper
<1>1. p \in Papers /\ req[r].hash \in Contents /\ req[r].seen = papers[p]
  BY DEF RInv, Begun, CommitFresh
<1>2. NumberedPaper(p)
  BY <1>1 DEF RInv, Numbered
<1>3. IsNew(r) <=> papers[p] = None
  BY <1>1 DEF IsNew
<1>4. /\ VersionNumber(r) \in Nat \ {0}
      /\ papers[p] = None => VersionNumber(r) = 1
      /\ papers[p] # None => VersionNumber(r) = papers[p].version + 1
  BY <1>1, <1>2, <1>3 DEF VersionNumber, NumberedPaper
<1>5. \A v \in VersionsOf(p) : v.number # VersionNumber(r) /\ v.hash # req[r].hash
  BY <1>1, <1>2, <1>3 DEF CommitFresh, Conflicts, NumberedPaper
<1>6. NewRow(r) \in Row
  BY <1>1, <1>4 DEF NewRow, Row
<1>7. NewRow(r) # None
  BY <1>6, IngestionAssumption DEF Row
<1>8. papers' = [papers EXCEPT ![p] = NewRow(r)] /\ versions' = versions \cup {NewVersion(r)}
  BY DEF CommitFresh, NewRow, NewVersion
<1> QED
  BY <1>1, <1>4, <1>5, <1>6, <1>7, <1>8

\* One version more for the paper, none for the others.
LEMMA VersionsGrow ==
    ASSUME NEW p, NEW v, v.paper = p, versions' = versions \cup {v}
    PROVE  /\ VersionsOf(p)' = VersionsOf(p) \cup {v}
           /\ \A q : q # p => VersionsOf(q)' = VersionsOf(q)
           /\ \A q : VersionsOf(q) \subseteq VersionsOf(q)'
BY DEF VersionsOf

\* The next number follows the others without a gap.
LEMMA NumberedGrows ==
    ASSUME RInv, NEW r \in Requests, CommitFresh(r)
    PROVE  Numbered'
<1>0. PICK p, n, h, v :
        /\ p = req[r].paper /\ n = VersionNumber(r)
        /\ h = req[r].hash /\ v = NewVersion(r)
  OBVIOUS
<1>1. /\ p \in Papers /\ h \in Contents /\ n \in Nat \ {0}
      /\ papers[p] = None => n = 1
      /\ papers[p] # None => n = papers[p].version + 1
      /\ \A u \in VersionsOf(p) : u.number # n /\ u.hash # h
      /\ papers' = [papers EXCEPT ![p] = NewRow(r)]
      /\ versions' = versions \cup {v}
      /\ NewRow(r) # None
  BY <1>0, NextNumber
<1>2. v.paper = p /\ v.number = n /\ v.hash = h
  BY <1>0 DEF NewVersion
<1>3. NewRow(r).version = n /\ NewRow(r).hash = h
  BY <1>0 DEF NewRow
<1>4. NumberedPaper(p) /\ \A q \in Papers : NumberedPaper(q)
  BY <1>1 DEF RInv, Numbered
<1>5. papers'[p] = NewRow(r) /\ \A q \in Papers \ {p} : papers'[q] = papers[q]
  BY <1>1 DEF RInv, TypeOK, RegistryTypeOK
<1>6. /\ VersionsOf(p)' = VersionsOf(p) \cup {v}
      /\ \A q : q # p => VersionsOf(q)' = VersionsOf(q)
  BY <1>1, <1>2, VersionsGrow
<1>7. \A q \in Papers \ {p} : NumberedPaper(q)'
  BY <1>4, <1>5, <1>6 DEF NumberedPaper
<1>8. /\ IsFiniteSet(VersionsOf(p)) /\ Cardinality(VersionsOf(p)) = n - 1
      /\ \A u \in VersionsOf(p) : u.number \in 1..(n - 1)
      /\ \A i \in 1..(n - 1) : \E u \in VersionsOf(p) : u.number = i
      /\ \A u, w \in VersionsOf(p) :
            u.number = w.number \/ u.hash = w.hash => u = w
  <2>1. CASE papers[p] = None
    <3>1. VersionsOf(p) = {} /\ n = 1
      BY <1>1, <1>4, <2>1 DEF NumberedPaper
    <3> QED
      BY <3>1, FS_EmptySet
  <2>2. CASE papers[p] # None
    <3>1. papers[p].version \in Nat \ {0} /\ n - 1 = papers[p].version
      BY <1>1, <1>4, <2>2 DEF NumberedPaper
    <3> QED
      BY <1>4, <2>2, <3>1 DEF NumberedPaper
  <2> QED
    BY <2>1, <2>2
<1>9. v \notin VersionsOf(p)
  BY <1>1, <1>2
<1>10. /\ IsFiniteSet(VersionsOf(p) \cup {v})
       /\ Cardinality(VersionsOf(p) \cup {v}) = n
  <2>1. Cardinality(VersionsOf(p) \cup {v}) = Cardinality(VersionsOf(p)) + 1
    BY <1>8, <1>9, FS_AddElement
  <2>2. IsFiniteSet(VersionsOf(p) \cup {v})
    BY <1>8, FS_AddElement
  <2> QED
    BY <1>1, <1>8, <2>1, <2>2
<1>11. NumberedPaper(p)'
  <2>1. \A i \in 1..n : \E u \in VersionsOf(p) \cup {v} : u.number = i
    BY <1>1, <1>2, <1>8
  <2>2. \A u \in VersionsOf(p) \cup {v} :
          u.number \in 1..n /\ (u.number = n => u.hash = h)
    BY <1>1, <1>2, <1>8
  <2>3. \A u, w \in VersionsOf(p) \cup {v} :
          u.number = w.number \/ u.hash = w.hash => u = w
    BY <1>1, <1>2, <1>8
  <2> QED
    BY <1>1, <1>3, <1>5, <1>6, <1>10, <2>1, <2>2, <2>3 DEF NumberedPaper
<1> QED
  BY <1>7, <1>11 DEF Numbered

\* The new job is the first that is to synchronise its content.
LEMMA FreshJobTyped ==
    ASSUME RInv, NEW r \in Requests, CommitFresh(r)
    PROVE  /\ FreshJob(r) \in Job
           /\ FreshJob(r).paper = req[r].paper /\ FreshJob(r).hash = req[r].hash
           /\ \A j \in DOMAIN jobs :
                 ~(jobs[j].paper = req[r].paper /\ jobs[j].hash = req[r].hash)
<1>1. req[r].paper \in Papers /\ req[r].hash \in Contents
  BY NextNumber
<1>2. \A u \in VersionsOf(req[r].paper) : u.hash # req[r].hash
  BY NextNumber
<1>3. FreshJob(r) \in Job
  BY <1>1 DEF FreshJob, Job, SyncStatuses
<1>4. FreshJob(r).paper = req[r].paper /\ FreshJob(r).hash = req[r].hash
  BY DEF FreshJob
<1>5. \A j \in DOMAIN jobs :
        ~(jobs[j].paper = req[r].paper /\ jobs[j].hash = req[r].hash)
  BY <1>2 DEF RInv, JobsKnown
<1> QED
  BY <1>3, <1>4, <1>5

\* A cause stays a cause.
LEMMA CausesStay ==
    ASSUME RInv, NEW r \in Requests, CommitFresh(r),
           NEW p \in Papers, NEW h,
           \/ \E v \in VersionsOf(p) : v.hash = h /\ v.number < papers[p].version
           \/ \E q \in Papers : {p, q} \in Clashing /\ papers[q] # None
    PROVE  \/ \E v \in VersionsOf(p)' : v.hash = h /\ v.number < papers'[p].version
           \/ \E q \in Papers : {p, q} \in Clashing /\ papers'[q] # None
<1> DEFINE n == VersionNumber(r)
           pp == req[r].paper
           v == NewVersion(r)
<1>1. /\ pp \in Papers /\ n \in Nat \ {0}
      /\ papers[pp] # None => n = papers[pp].version + 1
      /\ papers' = [papers EXCEPT ![pp] = NewRow(r)]
      /\ versions' = versions \cup {v}
      /\ NewRow(r) # None
  BY NextNumber
<1>2. papers'[pp] = NewRow(r) /\ \A q \in Papers \ {pp} : papers'[q] = papers[q]
  BY <1>1 DEF RInv, TypeOK, RegistryTypeOK
<1>3. NewRow(r).version = n /\ v.paper = pp
  BY DEF NewRow, NewVersion
<1> HIDE DEF pp, n, v
<1>4. VersionsOf(p) \subseteq VersionsOf(p)'
  BY <1>1, <1>3, VersionsGrow
<1>5. CASE \E q \in Papers : {p, q} \in Clashing /\ papers[q] # None
  BY <1>1, <1>2, <1>5
<1>6. CASE \E u \in VersionsOf(p) : u.hash = h /\ u.number < papers[p].version
  <2>1. PICK u \in VersionsOf(p) : u.hash = h /\ u.number < papers[p].version
    BY <1>6
  <2>2. NumberedPaper(p) /\ papers[p] # None
    BY <2>1 DEF RInv, Numbered, NumberedPaper
  <2>3. u.number \in Nat /\ papers[p].version \in Nat
    BY <2>1, <2>2 DEF NumberedPaper
  <2>4. u.number < papers'[p].version
    BY <1>1, <1>2, <1>3, <2>1, <2>2, <2>3
  <2> QED
    BY <1>4, <2>1, <2>4
<1> QED
  BY <1>5, <1>6

\* A content that is not there: a version and its job are added.
LEMMA CommitFreshStep ==
    ASSUME RInv, NEW r \in Requests, CommitFresh(r),
           UNCHANGED <<task, tables, external, bounds>>
    PROVE  RInv'
<1>0. PICK p, h, e, v, n :
        /\ p = req[r].paper /\ h = req[r].hash /\ e = FreshJob(r)
        /\ v = NewVersion(r) /\ n = Len(jobs')
  OBVIOUS
<1>1. /\ p \in Papers /\ h \in Contents
      /\ papers' = [papers EXCEPT ![p] = NewRow(r)]
      /\ versions' = versions \cup {v}
      /\ NewRow(r) \in Row /\ VersionNumber(r) \in Nat
  BY <1>0, NextNumber
<1>2. v.paper = p /\ v.hash = h /\ v \in [paper : Papers, number : Nat, hash : Contents]
  BY <1>0, <1>1 DEF NewVersion
<1>3. /\ e \in Job /\ e.paper = p /\ e.hash = h
      /\ jobs' = Append(jobs, e) /\ jobs \in Seq(Job)
      /\ \A j \in DOMAIN jobs : ~(jobs[j].paper = p /\ jobs[j].hash = h)
  BY <1>0, FreshJobTyped DEF CommitFresh, RInv, TypeOK, RegistryTypeOK
<1>4. /\ n \in Nat /\ jobs' \in Seq(Job)
      /\ DOMAIN jobs' = DOMAIN jobs \cup {n} /\ n \notin DOMAIN jobs
      /\ jobs'[n] = e /\ \A j \in DOMAIN jobs : jobs'[j] = jobs[j]
  BY <1>0, <1>3, Appended
<1>5. /\ req' \in [Requests -> Request]
      /\ \A s \in Requests \ {r} : req'[s] = req[s]
      /\ req'[r].pc = "dispatch" /\ req'[r].answer = "none" /\ req'[r].job = n
      /\ req'[r].paper = p /\ req'[r].hash = h
  <2>1. req[r] \in Request /\ req[r].answer = "none" /\ req[r].pc = "commit"
    BY DEF CommitFresh, RInv, Begun, TypeOK, RegistryTypeOK
  <2>2. Committed(r, "dispatch", "none", n)
    <3>1. req' = [req EXCEPT ![r].pc = "dispatch", ![r].seen = None, ![r].job = n]
      BY <1>0 DEF CommitFresh
    <3>2. req \in [Requests -> Request]
      BY DEF RInv, TypeOK, RegistryTypeOK
    <3>3. [req[r] EXCEPT !.pc = "dispatch", !.seen = None, !.job = n]
            = [req[r] EXCEPT !.pc = "dispatch", !.seen = None, !.answer = "none", !.job = n]
      BY <2>1 DEF Request
    <3> QED
      BY <3>1, <3>2, <3>3 DEF Committed
  <2> QED
    BY <1>0, <1>4, <2>1, <2>2, RequestCommitted
<1>6. queue' = queue
  BY DEF CommitFresh
<1>7. /\ VersionsOf(p)' = VersionsOf(p) \cup {v}
      /\ \A q : VersionsOf(q) \subseteq VersionsOf(q)'
  BY <1>1, <1>2, VersionsGrow
<1>8. TypeOK'
  <2>1. papers' \in [Papers -> Row \cup {None}]
    BY <1>1 DEF RInv, TypeOK, RegistryTypeOK
  <2>2. versions' \subseteq [paper : Papers, number : Nat, hash : Contents]
    BY <1>1, <1>2 DEF RInv, TypeOK, RegistryTypeOK
  <2> QED
    BY <1>4, <1>5, <1>6, <2>1, <2>2
    DEF RInv, TypeOK, RegistryTypeOK, tables, external, bounds
<1>9. Begun'
  <2>1. ASSUME NEW s \in Requests \ {r}, req[s].pc = "commit"
        PROVE  req[s].seen = papers'[req[s].paper]
    <3>1. req[s].paper # p /\ req[s].paper \in Papers /\ req[s].seen = papers[req[s].paper]
      BY <1>0, <2>1 DEF RInv, Exclusive, Begun, CommitFresh
    <3> QED
      BY <1>1, <3>1 DEF RInv, TypeOK, RegistryTypeOK
  <2> QED
    BY <1>1, <1>4, <1>5, <2>1 DEF RInv, Begun
<1>10. Exclusive'
  BY <1>5 DEF RInv, Exclusive
<1>11. Numbered'
  BY NumberedGrows
<1>12. JobsKnown'
  <2>1. \A j \in DOMAIN jobs' :
          \E u \in versions' : u.paper = jobs'[j].paper /\ u.hash = jobs'[j].hash
    BY <1>1, <1>2, <1>3, <1>4 DEF RInv, JobsKnown, VersionsOf
  <2> QED
    BY <2>1 DEF JobsKnown, VersionsOf
<1>13. FreshAlone'
  BY <1>3, <1>4 DEF RInv, FreshAlone
<1>14. LastKnown'
  BY <1>3, LastOfJobs
<1>15. Tasked'
  BY <1>4 DEF RInv, Tasked
<1>16. RefusedForCause'
  <2>1. ASSUME NEW s \in Requests, NEW q, NEW g,
               req'[s].answer = "500", req'[s].job = 0,
               q = req'[s].paper, g = req'[s].hash
        PROVE  HasCause(q, g)'
    <3>1. s # r /\ req'[s] = req[s]
      BY <1>5, <2>1
    <3>2. q \in Papers
      BY <2>1, <3>1 DEF RInv, Begun
    <3>3. HasCause(q, g)
      BY <2>1, <3>1 DEF RInv, RefusedForCause, HasCause
    <3> QED
      BY <3>2, <3>3, CausesStay DEF HasCause
  <2> QED
    BY <2>1 DEF RefusedForCause, HasCause, VersionsOf
<1> QED
  BY <1>8, <1>9, <1>10, <1>11, <1>12, <1>13, <1>14, <1>15, <1>16 DEF RInv

-----------------------------------------------------------------------------
(* The invariant, and what follows from it.                                *)

\* The tables are empty at first.
LEMMA InitRInv == SyncInit => RInv
<1> SUFFICES ASSUME SyncInit PROVE RInv
  OBVIOUS
<1> USE DEF SyncInit, Init
<1>1. NewRequest \in Request
  BY IngestionAssumption DEF NewRequest, Request, PCs
<1>2. jobs \in Seq(Job) /\ DOMAIN jobs = {}
  OBVIOUS
<1>3. TypeOK
  BY <1>1, <1>2, IdleTyped DEF TypeOK, RegistryTypeOK
<1>4. \A p : VersionsOf(p) = {} /\ \A h : JobsFor(p, h) = {}
  BY <1>2 DEF VersionsOf, JobsFor
<1>5. Begun /\ Exclusive /\ RefusedForCause
  BY DEF Begun, Exclusive, RefusedForCause, NewRequest
<1>6. Numbered /\ JobsKnown /\ FreshAlone /\ LastKnown
  BY <1>2, <1>4 DEF Numbered, NumberedPaper, JobsKnown, FreshAlone, LastKnown
<1>7. Tasked
  BY IdleTyped DEF Tasked, IdleTask
<1> QED
  BY <1>3, <1>5, <1>6, <1>7 DEF RInv

\* Every step keeps the invariant.
LEMMA NextRInv == RInv /\ [Next]_vars => RInv'
<1> SUFFICES ASSUME RInv, [Next]_vars PROVE RInv'
  OBVIOUS
<1>1. CASE RegistryNext /\ UNCHANGED <<task, tables, external, bounds>>
  <2>1. PICK r \in Requests :
          \/ \E p \in Papers, h \in Contents : Submit(r, p, h)
          \/ Handle(r)
    BY <1>1 DEF RegistryNext
  <2>2. CASE \E p \in Papers, h \in Contents : Submit(r, p, h)
    BY <1>1, <2>2, SubmitStep
  <2>3. CASE Register(r)
    BY <1>1, <2>3, RegisterStep
  <2>4. CASE CommitFresh(r)
    BY <1>1, <2>4, CommitFreshStep
  <2>5. CASE CommitExisting(r)
    BY <1>1, <2>5, CommitExistingStep
  <2>6. CASE Conflict(r)
    BY <1>1, <2>6, ConflictStep
  <2>7. CASE Dispatch(r) \/ DispatchFails(r)
    BY <1>1, <2>7, DispatchSteps
  <2> QED
    BY <2>1, <2>2, <2>3, <2>4, <2>5, <2>6, <2>7 DEF Handle
<1>2. ASSUME NEW w \in Workers, Work(w) \/ Die(w) \/ Redeliver(w)
      PROVE  RInv'
  BY <1>2, WorkerStepsKeepRInv
<1>3. CASE UNCHANGED vars
  <2>1. UNCHANGED registry /\ UNCHANGED <<task, tables, external, bounds>>
    BY <1>3 DEF vars, tables, external, bounds
  <2>2. RegistryTypeOK' /\ SameJobs /\ WorkerStep
    BY <2>1, SameRegistry
  <2>3. TypeOK' /\ Tasked'
    BY <2>1, <2>2 DEF RInv, TypeOK, Tasked, SameJobs, tables, external, bounds
  <2> QED
    BY <2>2, <2>3, WorkerKeepsRegistry DEF RInv
<1> QED
  BY <1>1, <1>2, <1>3 DEF Next, Retry, Quiescent

\* The invariant holds throughout.
THEOREM RegistrationInvariant == Spec => []RInv
BY InitRInv, NextRInv, PTL DEF Spec

\* Every variable keeps its type: the rows, the queue, the requests and the
\* tasks that workers have read from them.
THEOREM TypeCorrect == Spec => []TypeOK
<1>1. RInv => TypeOK
  BY DEF RInv
<1> QED
  BY <1>1, RegistrationInvariant, PTL

\* However many requests race for a paper, its versions are numbered from 1
\* without a gap and its row is that of the last one.
THEOREM VersionsAreInOrder == Spec => []VersionsInOrder
<1>1. RInv => VersionsInOrder
  <2> SUFFICES ASSUME RInv, NEW p \in Papers
               PROVE  LET numbers == {v.number : v \in VersionsOf(p)} IN
                      IF papers[p] = None THEN numbers = {}
                      ELSE /\ numbers = 1..papers[p].version
                           /\ Cardinality(VersionsOf(p)) = papers[p].version
                           /\ LatestVersion(p).hash = papers[p].hash
    BY DEF VersionsInOrder
  <2>1. NumberedPaper(p)
    BY DEF RInv, Numbered
  <2>2. papers[p] # None => LatestVersion(p).hash = papers[p].hash
    BY LatestIsLast DEF RInv
  <2>3. papers[p] # None => {v.number : v \in VersionsOf(p)} = 1..papers[p].version
    BY <2>1 DEF NumberedPaper
  <2> QED
    BY <2>1, <2>2, <2>3 DEF NumberedPaper
<1> QED
  BY <1>1, RegistrationInvariant, PTL

\* However often a content is submitted, one job at most is there to
\* synchronise it.
THEOREM OneSyncForEachContent == Spec => []OneSyncPerContent
<1>1. RInv => OneSyncPerContent
  <2> SUFFICES ASSUME RInv, NEW p \in Papers, NEW h \in Contents
               PROVE  Cardinality({j \in JobsFor(p, h) : jobs[j].dedup # "existing"}) <= 1
    BY DEF OneSyncPerContent
  <2> DEFINE S == {j \in JobsFor(p, h) : jobs[j].dedup # "existing"}
  <2>1. \A j, k \in S : j = k
    BY DEF RInv, FreshAlone, JobsFor
  <2> HIDE DEF S
  <2>2. CASE S = {}
    BY <2>2, FS_EmptySet DEF S
  <2>3. CASE S # {}
    <3>1. PICK j \in S : S = {j}
      BY <2>1, <2>3
    <3>2. Cardinality({j}) = 1
      BY FS_Singleton
    <3> QED
      BY <3>1, <3>2 DEF S
  <2> QED
    BY <2>2, <2>3
<1> QED
  BY <1>1, RegistrationInvariant, PTL

\* A paper that is refused after all attempts is refused for its content or its
\* DOI, never because other requests used up its attempts.
THEOREM RefusalsHaveCause == Spec => []RefusedForCause
<1>1. RInv => RefusedForCause
  BY DEF RInv
<1> QED
  BY <1>1, RegistrationInvariant, PTL

-----------------------------------------------------------------------------
(* The refinement of Registry.                                             *)

\* Version i of a paper is the one with that number.
LEMMA VersionAtIs ==
    ASSUME NEW p, NEW i, NEW u \in VersionsOf(p), u.number = i,
           \A w \in VersionsOf(p) : w.number = i => w = u
    PROVE  VersionAt(p, i) = u.hash
BY DEF VersionAt

\* The history of a registered paper is the sequence of its versions.
LEMMA HistoryIs ==
    ASSUME RInv, NEW p \in Papers, papers[p] # None
    PROVE  /\ papers[p].version \in Nat
           /\ DOMAIN HistoryOf(p) = 1..papers[p].version
           /\ HistoryOf(p) \in Seq(Contents)
           /\ \A i \in 1..papers[p].version :
                 \E u \in VersionsOf(p) :
                    /\ u.number = i /\ u.hash = HistoryOf(p)[i]
                    /\ \A w \in VersionsOf(p) : w.number = i => w = u
<1>1. NumberedPaper(p)
  BY DEF RInv, Numbered
<1>2. papers[p].version \in Nat /\ HistoryOf(p) = [n \in 1..papers[p].version |-> VersionAt(p, n)]
  BY <1>1 DEF NumberedPaper, HistoryOf
<1>3. ASSUME NEW i \in 1..papers[p].version
      PROVE  \E u \in VersionsOf(p) :
                /\ u.number = i /\ u.hash = VersionAt(p, i) /\ u.hash \in Contents
                /\ \A w \in VersionsOf(p) : w.number = i => w = u
  <2>1. PICK u \in VersionsOf(p) : u.number = i
    BY <1>1, <1>3 DEF NumberedPaper
  <2>2. \A w \in VersionsOf(p) : w.number = i => w = u
    BY <1>1, <2>1 DEF NumberedPaper
  <2>3. VersionAt(p, i) = u.hash
    BY <2>1, <2>2, VersionAtIs
  <2>4. u.hash \in Contents
    BY DEF RInv, TypeOK, RegistryTypeOK, VersionsOf
  <2> QED
    BY <2>1, <2>2, <2>3, <2>4
<1>4. HistoryOf(p) \in Seq(Contents)
  BY <1>2, <1>3
<1> QED
  BY <1>2, <1>3, <1>4, ZenonT(30)

\* A step that leaves papers and versions leaves the histories.
LEMMA HistoriesStay ==
    ASSUME UNCHANGED <<papers, versions>>
    PROVE  UNCHANGED [p \in Papers |-> HistoryOf(p)]
<1>1. \A p : VersionsOf(p)' = VersionsOf(p)
  BY DEF VersionsOf
<1>2. \A p, i : VersionAt(p, i)' = VersionAt(p, i)
  BY <1>1 DEF VersionAt
<1> QED
  BY <1>2 DEF HistoryOf

\* The transaction that adds a version adds it at the end of the history.
LEMMA CommitFreshRegisters ==
    ASSUME RInv, NEW r \in Requests, CommitFresh(r)
    PROVE  Abstract!Next
<1>0. PICK p, h, n, v :
        /\ p = req[r].paper /\ h = req[r].hash /\ n = VersionNumber(r)
        /\ v = NewVersion(r)
  OBVIOUS
<1>1. /\ p \in Papers /\ h \in Contents /\ n \in Nat \ {0}
      /\ papers[p] = None => n = 1
      /\ papers[p] # None => n = papers[p].version + 1
      /\ \A u \in VersionsOf(p) : u.number # n /\ u.hash # h
      /\ papers' = [papers EXCEPT ![p] = NewRow(r)]
      /\ versions' = versions \cup {v}
      /\ NewRow(r) # None
  BY <1>0, NextNumber
<1>2. v.paper = p /\ v.number = n /\ v.hash = h
  BY <1>0 DEF NewVersion
<1>3. NewRow(r).version = n
  BY <1>0 DEF NewRow
<1>4. papers'[p] = NewRow(r) /\ \A q \in Papers \ {p} : papers'[q] = papers[q]
  BY <1>1 DEF RInv, TypeOK, RegistryTypeOK
<1>5. /\ VersionsOf(p)' = VersionsOf(p) \cup {v}
      /\ \A q : q # p => VersionsOf(q)' = VersionsOf(q)
  BY <1>1, <1>2, VersionsGrow
<1>6. \A q \in Papers \ {p} : HistoryOf(q)' = HistoryOf(q)
  <2> SUFFICES ASSUME NEW q \in Papers \ {p} PROVE HistoryOf(q)' = HistoryOf(q)
    OBVIOUS
  <2>1. \A i : VersionAt(q, i)' = VersionAt(q, i)
    BY <1>5 DEF VersionAt
  <2>2. papers'[q] = papers[q]
    BY <1>4
  <2> QED
    BY <2>1, <2>2 DEF HistoryOf
<1>7. /\ HistoryOf(p) \in Seq(Contents)
      /\ Len(HistoryOf(p)) = n - 1
      /\ \A i \in 1..(n - 1) :
            \E u \in VersionsOf(p) :
               /\ u.number = i /\ u.hash = HistoryOf(p)[i]
               /\ \A w \in VersionsOf(p) : w.number = i => w = u
  <2>1. CASE papers[p] = None
    BY <1>1, <2>1 DEF HistoryOf
  <2>2. CASE papers[p] # None
    BY <1>1, <2>2, HistoryIs
  <2> QED
    BY <2>1, <2>2
<1>8. HistoryOf(p)' = [i \in 1..n |-> VersionAt(p, i)']
  BY <1>1, <1>3, <1>4 DEF HistoryOf
<1>9. VersionAt(p, n)' = h
  <2>1. \A w \in VersionsOf(p) \cup {v} : w.number = n => w = v
    BY <1>1, <1>2
  <2>2. (CHOOSE w \in VersionsOf(p) \cup {v} : w.number = n) = v
    BY <1>2, <2>1
  <2> QED
    BY <1>2, <1>5, <2>2 DEF VersionAt
<1>10. ASSUME NEW i \in 1..(n - 1)
       PROVE  VersionAt(p, i)' = HistoryOf(p)[i]
  <2>1. PICK u \in VersionsOf(p) :
          /\ u.number = i /\ u.hash = HistoryOf(p)[i]
          /\ \A w \in VersionsOf(p) : w.number = i => w = u
    BY <1>7, <1>10
  <2>2. \A w \in VersionsOf(p) \cup {v} : w.number = i => w = u
    BY <1>1, <1>2, <1>10, <2>1
  <2>3. (CHOOSE w \in VersionsOf(p) \cup {v} : w.number = i) = u
    BY <2>1, <2>2
  <2> QED
    BY <1>5, <2>1, <2>3 DEF VersionAt
<1>11. HistoryOf(p)' = Append(HistoryOf(p), h)
  <2> DEFINE s == HistoryOf(p)
             t == HistoryOf(p)'
  <2>1. t = [i \in 1..n |-> IF i = n THEN h ELSE s[i]]
    BY <1>1, <1>8, <1>9, <1>10
  <2> HIDE DEF s, t
  <2>2. s \in Seq(Contents) /\ Len(s) = n - 1
    BY <1>7 DEF s
  <2>3. n = Len(s) + 1
    BY <1>1, <2>2
  <2>4. t = [i \in 1..(Len(s) + 1) |-> IF i = Len(s) + 1 THEN h ELSE s[i]]
    BY <2>1, <2>3
  <2>5. t \in Seq(Contents) /\ Append(s, h) \in Seq(Contents)
    BY <1>1, <2>2, <2>4
  <2>6. Len(t) = Len(Append(s, h)) /\ \A i \in 1..Len(t) : t[i] = Append(s, h)[i]
    BY <1>1, <2>2, <2>4
  <2>7. t = Append(s, h)
    BY <2>5, <2>6
  <2> QED
    BY <2>7 DEF s, t
<1>12. \A i \in DOMAIN HistoryOf(p) : HistoryOf(p)[i] # h
  BY <1>1, <1>7
<1>13. [q \in Papers |-> HistoryOf(q)]'
         = [[q \in Papers |-> HistoryOf(q)] EXCEPT ![p] = Append(HistoryOf(p), h)]
  BY <1>1, <1>6, <1>11
<1>14. Abstract!Register(p, h)
  BY <1>1, <1>12, <1>13 DEF Abstract!Register
<1> QED
  BY <1>1, <1>14 DEF Abstract!Next

\* A step of a worker leaves the rows of papers and versions.
LEMMA WorkersKeepHistories ==
    ASSUME RInv, NEW w \in Workers, Work(w) \/ Die(w) \/ Redeliver(w)
    PROVE  UNCHANGED <<papers, versions>>
<1>1. WorkerStep
  BY TakeStep, ReadVersionStep, SkipDifyStep, CallDifyStep, DifyFailsStep, SaveStep,
     SaveConflictsStep, SkipGraphStep, WriteGraphStep, GraphFailsStep,
     LookupGraphRecordStep, SaveGraphStep, FinishStep, RaiseStep, DieStep, RedeliverStep
  DEF Work
<1> QED
  BY <1>1 DEF WorkerStep

\* Every step adds a content to one history or leaves them all.
LEMMA StepsImplement ==
    ASSUME RInv, [Next]_vars
    PROVE  [Abstract!Next]_([p \in Papers |-> HistoryOf(p)])
<1>1. CASE RegistryNext
  <2>1. PICK r \in Requests :
          \/ \E p \in Papers, h \in Contents : Submit(r, p, h)
          \/ Handle(r)
    BY <1>1 DEF RegistryNext
  <2>2. CASE CommitFresh(r)
    BY <2>2, CommitFreshRegisters
  <2>3. CASE ~CommitFresh(r)
    <3>1. UNCHANGED <<papers, versions>>
      BY <2>1, <2>3
      DEF Handle, Submit, Register, CommitExisting, Conflict, Dispatch, DispatchFails
    <3> QED
      BY <3>1, HistoriesStay
  <2> QED
    BY <2>2, <2>3
<1>2. ASSUME NEW w \in Workers, Work(w) \/ Die(w) \/ Redeliver(w)
      PROVE  UNCHANGED <<papers, versions>>
  BY <1>2, WorkersKeepHistories
<1>3. CASE UNCHANGED vars
  BY <1>3, HistoriesStay DEF vars, registry
<1> QED
  BY <1>1, <1>2, <1>3, HistoriesStay DEF Next, Retry, Quiescent

\* What the tables hold of each paper is a history that only grows at its end
\* and never repeats a content, whatever requests race and workers do.
THEOREM RegistryImplemented == Spec => ImplementsRegistry
<1>1. SyncInit => Abstract!Init
  BY DEF SyncInit, Init, Abstract!Init, HistoryOf
<1>2. RInv /\ [Next]_vars => [Abstract!Next]_([p \in Papers |-> HistoryOf(p)])
  BY StepsImplement
<1> QED
  BY <1>1, <1>2, RegistrationInvariant, PTL
  DEF Spec, ImplementsRegistry, Abstract!Spec

=============================================================================
