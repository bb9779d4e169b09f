------------------------ MODULE SynchronisationProofs ------------------------
(***************************************************************************)
(* What jobs and records say of Dify and Neo4j is true, for any number of  *)
(* requests, papers, contents, documents and workers, and however often    *)
(* calls fail, workers die and messages are delivered again.  The first    *)
(* invariant is about the tasks: what a task is going to write has come    *)
(* true before, and stays true, because nothing that was sent is ever      *)
(* taken back and versions are only added.  The second is about the rows   *)
(* of jobs, and holds of a job until two tasks have overlapped on it.      *)
(***************************************************************************)
EXTENDS RegistrationProofs

\* What a task t knows is true of Dify and Neo4j: the record it found, the
\* document it sent, and the results it is going to report for its job.
TrueOf(t) ==
    LET p == jobs[t.job].paper IN
    t.pc # "idle" =>
        /\ t.record # None =>
              remote[t.record.document] # None /\ t.record.hash \in sentDify[p]
        /\ t.document # None =>
              /\ t.pc = "save"
              /\ remote[t.document] # None
              /\ t.version \in sentDify[p]
        /\ t.pc \in {"dify", "save", "lookup", "saveGraph"} => t.version \in SinceJob(t.job)
        /\ t.kb = "completed" => SinceJob(t.job) \cap sentDify[p] # {}
        /\ t.graph = "completed" => SinceJob(t.job) \cap graphs[p] # {}
        /\ t.pc \in {"lookup", "saveGraph"} /\ t.graph = "completed" => t.version \in graphs[p]

\* What a job tells is true of Dify, Neo4j and graph_sync_records.
JobTrue(j) ==
    /\ jobs[j].kb = "completed" => SinceJob(j) \cap sentDify[jobs[j].paper] # {}
    /\ jobs[j].graph = "completed" => SinceJob(j) \cap graphs[jobs[j].paper] # {}
    /\ jobs[j].graph \in {"completed", "failed"} /\ jobs[j].dedup # "existing" =>
          \E h \in SinceJob(j) : graphRecords[jobs[j].paper][h] # None

\* "completed" in graph_sync_records is true of Neo4j.
GraphsRecorded ==
    \A p \in Papers, h \in Contents :
        graphRecords[p][h] = "completed" => h \in graphs[p]

SInv ==
    /\ \A w \in Workers : TrueOf(task[w])
    /\ RecordsTrue
    /\ GraphsRecorded
    /\ \A j \in DOMAIN jobs : JobTrue(j)

\* What no step takes back.
Grow ==
    /\ \A j \in DOMAIN jobs :
          /\ j \in DOMAIN jobs'
          /\ jobs'[j].paper = jobs[j].paper
          /\ jobs'[j].hash = jobs[j].hash
          /\ jobs'[j].dedup = jobs[j].dedup
    /\ versions \subseteq versions'
    /\ \A d \in Documents : remote[d] # None => remote'[d] # None
    /\ \A p \in Papers : sentDify[p] \subseteq sentDify'[p]
    /\ \A p \in Papers : graphs[p] \subseteq graphs'[p]
    /\ \A p \in Papers, h \in Contents :
          graphRecords[p][h] # None => graphRecords'[p][h] # None

-----------------------------------------------------------------------------
(* What stays true.                                                        *)

\* The versions from a job's own on are contents, and stay.
LEMMA SinceGrows ==
    ASSUME RInv, Grow, NEW j \in DOMAIN jobs
    PROVE  SinceJob(j) \subseteq SinceJob(j)' /\ SinceJob(j) \subseteq Contents
<1>1. SinceJob(j) \subseteq SinceJob(j)'
  <2> SUFFICES ASSUME NEW h \in SinceJob(j) PROVE h \in SinceJob(j)'
    OBVIOUS
  <2>1. PICK v \in versions, u \in versions :
          /\ v.paper = jobs[j].paper /\ u.paper = jobs[j].paper
          /\ u.hash = jobs[j].hash /\ u.number <= v.number /\ h = v.hash
    BY DEF SinceJob, VersionsOf
  <2>2. /\ v \in versions' /\ u \in versions'
        /\ jobs'[j].paper = jobs[j].paper /\ jobs'[j].hash = jobs[j].hash
    BY <2>1 DEF Grow
  <2> QED
    BY <2>1, <2>2 DEF SinceJob, VersionsOf
<1>2. SinceJob(j) \subseteq Contents
  BY DEF RInv, TypeOK, RegistryTypeOK, SinceJob, VersionsOf
<1> QED
  BY <1>1, <1>2

\* The latest version of a paper is one from the version of any of its jobs on.
LEMMA LatestSince ==
    ASSUME RInv, NEW j \in DOMAIN jobs
    PROVE  LatestVersion(jobs[j].paper).hash \in SinceJob(j)
<1> DEFINE p == jobs[j].paper
<1>1. p \in Papers /\ papers[p] # None
  BY JobHasPaper DEF RInv
<1>2. PICK u \in VersionsOf(p) : u.hash = jobs[j].hash
  BY DEF RInv, JobsKnown
<1>3. LatestVersion(p) \in VersionsOf(p) /\ u.number <= LatestVersion(p).number
  BY <1>1, <1>2, LatestIsLast DEF RInv
<1> QED
  BY <1>2, <1>3 DEF SinceJob

\* What is true of a task stays true, and so does what a step makes of it.
LEMMA TruthStays ==
    ASSUME RInv, Grow, NEW t \in Task, t.pc # "idle" => t.job \in DOMAIN jobs, TrueOf(t)
    PROVE  TrueOf(t)'
<1> SUFFICES ASSUME t.pc # "idle" PROVE TrueOf(t)'
  BY DEF TrueOf
<1> DEFINE p == jobs[t.job].paper
<1>1. t.job \in DOMAIN jobs /\ p \in Papers /\ jobs'[t.job].paper = p
  BY JobHasPaper DEF RInv, Grow
<1>2. SinceJob(t.job) \subseteq SinceJob(t.job)'
  BY <1>1, SinceGrows
<1>3. sentDify[p] \subseteq sentDify'[p] /\ graphs[p] \subseteq graphs'[p]
  BY <1>1 DEF Grow
<1>4. /\ t.record # None /\ remote[t.record.document] # None
            => remote'[t.record.document] # None
      /\ t.document # None /\ remote[t.document] # None => remote'[t.document] # None
  BY DEF Grow, Task, Record
<1> QED
  BY <1>1, <1>2, <1>3, <1>4 DEF TrueOf

\* A job that tells the same keeps its truth.
LEMMA JobStays ==
    ASSUME RInv, Grow, NEW j \in DOMAIN jobs, JobTrue(j),
           jobs'[j].kb = jobs[j].kb \/ jobs'[j].kb # "completed",
           jobs'[j].graph = jobs[j].graph
    PROVE  JobTrue(j)'
<1> DEFINE p == jobs[j].paper
<1>1. p \in Papers /\ jobs'[j].paper = p /\ jobs'[j].dedup = jobs[j].dedup
  BY JobHasPaper DEF RInv, Grow
<1>2. SinceJob(j) \subseteq SinceJob(j)' /\ SinceJob(j) \subseteq Contents
  BY SinceGrows
<1>3. sentDify[p] \subseteq sentDify'[p] /\ graphs[p] \subseteq graphs'[p]
  BY <1>1 DEF Grow
<1>4. \A h \in SinceJob(j) : graphRecords[p][h] # None => graphRecords'[p][h] # None
  BY <1>1, <1>2 DEF Grow
<1> QED
  BY <1>1, <1>2, <1>3, <1>4 DEF JobTrue

\* A job that is told more keeps its truth when that is true.
LEMMA JobWritten ==
    ASSUME RInv, Grow, NEW j \in DOMAIN jobs, JobTrue(j), NEW p, p = jobs[j].paper,
           \/ jobs'[j].kb = jobs[j].kb
           \/ jobs'[j].kb = "completed" => SinceJob(j) \cap sentDify[p] # {},
           \/ jobs'[j].graph = jobs[j].graph
           \/ /\ jobs'[j].graph = "completed" => SinceJob(j) \cap graphs[p] # {}
              /\ jobs'[j].graph \in {"completed", "failed"} =>
                    \E h \in SinceJob(j) : graphRecords'[p][h] # None
    PROVE  JobTrue(j)'
<1>1. p \in Papers /\ jobs'[j].paper = p /\ jobs'[j].dedup = jobs[j].dedup
  BY JobHasPaper DEF RInv, Grow
<1>2. SinceJob(j) \subseteq SinceJob(j)' /\ SinceJob(j) \subseteq Contents
  BY SinceGrows
<1>3. sentDify[p] \subseteq sentDify'[p] /\ graphs[p] \subseteq graphs'[p]
  BY <1>1 DEF Grow
<1>4. \A h \in SinceJob(j) : graphRecords[p][h] # None => graphRecords'[p][h] # None
  BY <1>1, <1>2 DEF Grow
<1>5. jobs'[j].kb = "completed" => SinceJob(j)' \cap sentDify'[p] # {}
  BY <1>2, <1>3 DEF JobTrue
<1>6. jobs'[j].graph = "completed" => SinceJob(j)' \cap graphs'[p] # {}
  BY <1>2, <1>3 DEF JobTrue
<1>7. jobs'[j].graph \in {"completed", "failed"} /\ jobs[j].dedup # "existing" =>
        \E h \in SinceJob(j)' : graphRecords'[p][h] # None
  BY <1>2, <1>4 DEF JobTrue
<1> QED
  BY <1>1, <1>5, <1>6, <1>7 DEF JobTrue

\* Records that are not written stay true.
LEMMA RecordsStay ==
    ASSUME RInv, Grow, RecordsTrue, records' = records
    PROVE  RecordsTrue'
<1> SUFFICES ASSUME NEW p \in Papers, records[p] # None
             PROVE  /\ remote'[records[p].document] # None
                    /\ records[p].hash \in sentDify'[p]
  BY DEF RecordsTrue
<1>1. records[p] \in Record
  BY DEF RInv, TypeOK
<1> QED
  BY <1>1 DEF RecordsTrue, Grow, Record

LEMMA GraphsStay ==
    ASSUME RInv, Grow, GraphsRecorded, graphRecords' = graphRecords
    PROVE  GraphsRecorded'
BY DEF GraphsRecorded, Grow

\* The step of a worker that grows: what is left to be shown of it.
LEMMA WorkerKeepsSInv ==
    ASSUME RInv, SInv, Grow, SameJobs, NEW w \in Workers, NEW t,
           task' = [task EXCEPT ![w] = t],
           TrueOf(t)', RecordsTrue', GraphsRecorded',
           \A j \in DOMAIN jobs : JobTrue(j)'
    PROVE  SInv'
<1>0. task \in [Workers -> Task]
  BY DEF RInv, TypeOK
<1>1. ASSUME NEW x \in Workers \ {w}, NEW u, u = task[x] PROVE TrueOf(u)'
  <2>1. u \in Task /\ TrueOf(u) /\ (u.pc # "idle" => u.job \in DOMAIN jobs)
    BY <1>1, AtWork DEF SInv
  <2> QED
    BY <2>1, TruthStays
<1>2. \A x \in Workers : TrueOf(task[x])'
  <2> SUFFICES ASSUME NEW x \in Workers, NEW u, u = task'[x] PROVE TrueOf(u)'
    BY DEF TrueOf
  <2>1. CASE x = w
    BY <1>0, <2>1
  <2>2. CASE x # w
    BY <1>0, <1>1, <2>2
  <2> QED
    BY <2>1, <2>2
<1>3. DOMAIN jobs' = DOMAIN jobs
  BY DEF SameJobs
<1> QED
  BY <1>2, <1>3 DEF SInv

\* A worker's step that writes no table.
LEMMA NothingWritten ==
    ASSUME RInv, SInv, WorkerStep, UNCHANGED <<tables, external>>
    PROVE  Grow /\ RecordsTrue' /\ GraphsRecorded'
<1>1. Grow
  BY DEF WorkerStep, SameJobs, Grow, tables, external
<1> QED
  BY <1>1, RecordsStay, GraphsStay DEF SInv, tables

\* Jobs that tell the same.
LEMMA JobsStay ==
    ASSUME RInv, SInv, Grow, SameJobs,
           \A j \in DOMAIN jobs : jobs'[j].kb = jobs[j].kb /\ jobs'[j].graph = jobs[j].graph
    PROVE  \A j \in DOMAIN jobs : JobTrue(j)'
BY JobStays DEF SInv

\* A step of a worker that writes no table, and makes a true task of its task.
LEMMA QuietTask ==
    ASSUME RInv, SInv, WorkerStep, NEW w \in Workers, NEW t \in Task,
           task' = [task EXCEPT ![w] = t], UNCHANGED <<tables, external>>,
           \A j \in DOMAIN jobs : jobs'[j].kb = jobs[j].kb /\ jobs'[j].graph = jobs[j].graph,
           t.pc # "idle" => t.job \in DOMAIN jobs, TrueOf(t)
    PROVE  SInv'
<1>1. Grow /\ RecordsTrue' /\ GraphsRecorded'
  BY NothingWritten
<1>2. SameJobs
  BY DEF WorkerStep
<1>3. \A j \in DOMAIN jobs : JobTrue(j)'
  BY <1>1, <1>2, JobsStay
<1>4. TrueOf(t)'
  BY <1>1, TruthStays
<1> QED
  BY <1>1, <1>2, <1>3, <1>4, WorkerKeepsSInv

-----------------------------------------------------------------------------
(* The steps of workers.                                                   *)

\* A task that begins, or ends, knows nothing.
LEMMA TakeTrue ==
    ASSUME RInv, SInv, NEW w \in Workers, Take(w)
    PROVE  SInv'
<1>1. PICK j \in queue :
        /\ jobs' = [jobs EXCEPT ![j].status = "syncing"]
        /\ task' = [task EXCEPT ![w] = [IdleTask EXCEPT !.pc = "read", !.job = j,
                                                        !.oldKb = jobs[j].kb,
                                                        !.oldGraph = jobs[j].graph]]
  BY DEF Take
<1> DEFINE t == [IdleTask EXCEPT !.pc = "read", !.job = j, !.oldKb = jobs[j].kb,
                                 !.oldGraph = jobs[j].graph]
<1>2. WorkerStep
  BY TakeStep
<1>3. \A i \in DOMAIN jobs : jobs'[i].kb = jobs[i].kb /\ jobs'[i].graph = jobs[i].graph
  BY <1>1 DEF RInv, TypeOK, RegistryTypeOK
<1>4. j \in DOMAIN jobs /\ j \in Nat /\ jobs[j] \in Job
  BY DEF RInv, TypeOK, RegistryTypeOK
<1>5. t \in Task /\ t.job = j /\ TrueOf(t)
  BY <1>4 DEF IdleTask, Task, SyncStatuses, Job, TrueOf
<1>6. UNCHANGED <<tables, external>>
  BY DEF Take
<1> HIDE DEF t
<1>7. task' = [task EXCEPT ![w] = t]
  BY <1>1 DEF t
<1> QED
  BY <1>2, <1>3, <1>4, <1>5, <1>6, <1>7, QuietTask

\* The record that a task reads is true, and its version is one from its job's on.
LEMMA ReadVersionTrue ==
    ASSUME RInv, SInv, NEW w \in Workers, ReadVersion(w)
    PROVE  SInv'
<1> DEFINE j == task[w].job
           p == jobs[j].paper
           t == [task[w] EXCEPT !.pc = "dify", !.version = LatestVersion(p).hash,
                                !.record = records[p]]
<1>1. /\ j \in DOMAIN jobs /\ task[w] \in Task /\ Paper(w) = p /\ p \in Papers
      /\ LatestVersion(p).hash \in Contents
  BY AtWork, TaskReadsContent DEF ReadVersion, Paper
<1>2. WorkerStep /\ UNCHANGED <<jobs, tables, external>>
  BY ReadVersionStep DEF ReadVersion, registry
<1>3. task' = [task EXCEPT ![w] = t]
  BY <1>1 DEF ReadVersion, RInv, TypeOK
<1>4. /\ t \in Task /\ t.pc = "dify" /\ t.job = j /\ t.version = LatestVersion(p).hash
      /\ t.record = records[p] /\ t.document = task[w].document
      /\ t.kb = task[w].kb /\ t.graph = task[w].graph
  BY <1>1 DEF Task, RInv, TypeOK
<1>5. TrueOf(task[w]) /\ task[w].pc = "read"
  BY DEF SInv, ReadVersion
<1>6. t.version \in SinceJob(j)
  BY <1>1, <1>4, LatestSince
<1>7. t.record # None => remote[t.record.document] # None /\ t.record.hash \in sentDify[p]
  BY <1>1, <1>4 DEF SInv, RecordsTrue
<1> HIDE DEF t
<1>8. TrueOf(t)
  BY <1>4, <1>5, <1>6, <1>7 DEF TrueOf
<1> QED
  BY <1>1, <1>2, <1>3, <1>4, <1>8, QuietTask

\* Nothing to send because it has been sent: the record that was found tells.
LEMMA SkipDifyTrue ==
    ASSUME RInv, SInv, NEW w \in Workers, SkipDify(w)
    PROVE  SInv'
<1>1. PICK k \in {"disabled", "skipped", "completed"} :
        /\ task' = [task EXCEPT ![w].pc = "save", ![w].kb = k]
        /\ k = "completed" => EnableDify /\ task[w].version \in WithDocuments
  BY DEF SkipDify
<1> DEFINE j == task[w].job
           p == jobs[j].paper
           t == [task[w] EXCEPT !.pc = "save", !.kb = k]
<1>2. /\ j \in DOMAIN jobs /\ task[w] \in Task /\ p \in Papers
      /\ task[w].pc = "dify"
  BY AtWork, JobHasPaper DEF SkipDify, RInv
<1>3. WorkerStep /\ UNCHANGED <<jobs, tables, external>>
  BY SkipDifyStep DEF SkipDify, registry
<1>4. /\ t \in Task /\ t.pc = "save" /\ t.job = j /\ t.version = task[w].version
      /\ t.record = task[w].record /\ t.document = task[w].document
      /\ t.kb = k /\ t.graph = task[w].graph
  BY <1>2 DEF Task, SyncStatuses
<1>5. task' = [task EXCEPT ![w] = t]
  BY <1>1, <1>2 DEF RInv, TypeOK
<1>6. TrueOf(task[w])
  BY DEF SInv
<1>7. k = "completed" => SinceJob(j) \cap sentDify[p] # {}
  <2> SUFFICES ASSUME k = "completed" PROVE SinceJob(j) \cap sentDify[p] # {}
    OBVIOUS
  <2>1. task[w].record # None /\ task[w].record.hash = task[w].version
    BY <1>1 DEF SkipDify, NeedsDify, UpToDate
  <2>2. task[w].version \in SinceJob(j) /\ task[w].record.hash \in sentDify[p]
    BY <1>2, <1>6, <2>1 DEF TrueOf
  <2> QED
    BY <2>1, <2>2
<1> HIDE DEF t
<1>8. TrueOf(t)
  BY <1>2, <1>4, <1>6, <1>7 DEF TrueOf
<1> QED
  BY <1>2, <1>3, <1>4, <1>5, <1>8, QuietTask

\* What a call to Dify does, whether it is answered or not.
LEMMA SendGrows ==
    ASSUME RInv, SInv, NEW w \in Workers, task[w].pc = "dify", WorkerStep,
           UNCHANGED <<tables, graphs, jobs>>,
           \/ UNCHANGED <<remote, sentDify>>
           \/ \E d \in Target(w) : Send(w, d)
    PROVE  Grow /\ RecordsTrue' /\ GraphsRecorded' /\ \A j \in DOMAIN jobs : JobTrue(j)'
<1>1. /\ task[w].version \in Contents /\ Paper(w) \in Papers
      /\ remote \in [Documents -> Contents \cup {None}]
      /\ sentDify \in [Papers -> SUBSET Contents]
  BY AtWork, TaskReadsContent DEF RInv, TypeOK
<1>2. task[w].version # None
  BY <1>1, IngestionAssumption
<1>3. \A d \in Documents : remote[d] # None => remote'[d] # None
  BY <1>1, <1>2 DEF Send
<1>4. \A p \in Papers : sentDify[p] \subseteq sentDify'[p]
  BY <1>1 DEF Send
<1>5. SameJobs
  BY DEF WorkerStep
<1>6. Grow
  BY <1>3, <1>4 DEF Grow, WorkerStep, SameJobs, tables
<1>7. RecordsTrue' /\ GraphsRecorded'
  BY <1>6, RecordsStay, GraphsStay DEF SInv, tables
<1>8. \A j \in DOMAIN jobs : JobTrue(j)'
  BY <1>5, <1>6, JobsStay
<1> QED
  BY <1>6, <1>7, <1>8

\* A document that was sent is there.
LEMMA CallDifyTrue ==
    ASSUME RInv, SInv, NEW w \in Workers, CallDify(w)
    PROVE  SInv'
<1>1. PICK d \in Target(w) :
        /\ Send(w, d)
        /\ task' = [task EXCEPT ![w].pc = "save", ![w].document = d, ![w].kb = "completed"]
  BY DEF CallDify
<1>2. PICK t : t = [task[w] EXCEPT !.pc = "save", !.document = d, !.kb = "completed"]
  OBVIOUS
<1> DEFINE j == task[w].job
           p == jobs[j].paper
<1>3. /\ j \in DOMAIN jobs /\ task[w] \in Task /\ p \in Papers
      /\ task[w].pc = "dify" /\ task[w].version \in Contents /\ Paper(w) = p
  BY AtWork, JobHasPaper DEF CallDify, RInv, Paper
<1>4. WorkerStep /\ SameJobs /\ UNCHANGED <<jobs, tables, graphs>>
  BY CallDifyStep DEF CallDify, registry, WorkerStep
<1>5. Grow /\ RecordsTrue' /\ GraphsRecorded' /\ \A i \in DOMAIN jobs : JobTrue(i)'
  BY <1>1, <1>3, <1>4, SendGrows
<1>6. task' = [task EXCEPT ![w] = t]
  BY <1>1, <1>2, <1>3 DEF RInv, TypeOK
<1>7. /\ t.pc = "save" /\ t.job = j /\ t.version = task[w].version
      /\ t.record = task[w].record /\ t.document = d
      /\ t.kb = "completed" /\ t.graph = task[w].graph
  BY <1>2, <1>3 DEF Task
<1>8. d \in Documents
  BY <1>3 DEF Target, Task, Record
<1>9. remote'[d] # None /\ task[w].version \in sentDify'[p]
  BY <1>1, <1>3, <1>8, IngestionAssumption DEF Send, RInv, TypeOK
<1>10. TrueOf(task[w])
  BY DEF SInv
<1>11. SinceJob(j) \subseteq SinceJob(t.job)'
  BY <1>3, <1>5, <1>7, SinceGrows
<1>12. task[w].version \in SinceJob(j)
  BY <1>3, <1>10 DEF TrueOf
<1>13. /\ task[w].record # None =>
            remote'[task[w].record.document] # None /\ task[w].record.hash \in sentDify'[p]
       /\ task[w].graph = "completed" => SinceJob(j) \cap graphs'[p] # {}
  <2>1. task[w].record # None => task[w].record.document \in Documents
    BY <1>3 DEF Task, Record
  <2> QED
    BY <1>3, <1>5, <1>10, <2>1 DEF TrueOf, Grow
<1>14. jobs'[t.job].paper = p
  BY <1>4, <1>7
<1> HIDE DEF j, p
<1>15. TrueOf(t)'
  BY <1>7, <1>9, <1>11, <1>12, <1>13, <1>14 DEF TrueOf
<1> QED
  BY <1>4, <1>5, <1>6, <1>15, WorkerKeepsSInv

\* A failed call promises nothing.
LEMMA DifyFailsTrue ==
    ASSUME RInv, SInv, NEW w \in Workers, DifyFails(w)
    PROVE  SInv'
<1>1. PICK t : t = [task[w] EXCEPT !.pc = "save", !.kb = "failed"]
  OBVIOUS
<1>3. /\ task[w].job \in DOMAIN jobs /\ task[w] \in Task /\ task[w].pc = "dify"
  BY AtWork DEF DifyFails
<1>4. WorkerStep /\ SameJobs /\ UNCHANGED <<jobs, tables, graphs>>
  BY DifyFailsStep DEF DifyFails, registry, WorkerStep
<1>5. Grow /\ RecordsTrue' /\ GraphsRecorded' /\ \A i \in DOMAIN jobs : JobTrue(i)'
  BY <1>3, <1>4, SendGrows DEF DifyFails
<1>6. task' = [task EXCEPT ![w] = t]
  BY <1>1, <1>3 DEF DifyFails, RInv, TypeOK
<1>7. /\ t \in Task /\ t.pc = "save" /\ t.job = task[w].job /\ t.version = task[w].version
      /\ t.record = task[w].record /\ t.document = task[w].document
      /\ t.kb = "failed" /\ t.graph = task[w].graph
  BY <1>1, <1>3 DEF Task, SyncStatuses
<1>8. TrueOf(task[w])
  BY DEF SInv
<1>9. TrueOf(t)
  BY <1>3, <1>7, <1>8 DEF TrueOf
<1>10. TrueOf(t)'
  BY <1>3, <1>5, <1>7, <1>9, TruthStays
<1> QED
  BY <1>4, <1>5, <1>6, <1>10, WorkerKeepsSInv

\* The record that is written names the document and the content that were
\* sent, and the job tells what the task has found.
LEMMA SaveTrue ==
    ASSUME RInv, SInv, NEW w \in Workers, Save(w)
    PROVE  SInv'
<1> DEFINE j == task[w].job
           p == jobs[j].paper
<1>1. PICK t : t = [IdleTask EXCEPT !.pc = "graph", !.job = task[w].job,
                                   !.kb = task[w].kb, !.oldKb = task[w].kb,
                                   !.oldGraph = task[w].oldGraph]
  OBVIOUS
<1>2. /\ j \in DOMAIN jobs /\ task[w] \in Task /\ p \in Papers /\ Paper(w) = p
      /\ task[w].pc = "save" /\ task[w].version \in Contents
  BY AtWork, JobHasPaper DEF Save, RInv, Paper
<1>3. WorkerStep /\ SameJobs /\ UNCHANGED <<versions, graphRecords, external>>
  BY SaveStep DEF Save, WorkerStep
<1>4. Grow
  BY <1>3 DEF Grow, SameJobs, external
<1>5. TrueOf(task[w])
  BY DEF SInv
<1>6. GraphsRecorded'
  BY <1>3, <1>4, GraphsStay DEF SInv
<1>7. RecordsTrue'
  <2>1. \/ records' = records
        \/ /\ task[w].document # None
           /\ records' = [records EXCEPT ![p] =
                            [document |-> task[w].document, hash |-> task[w].version]]
    BY <1>2 DEF Save, RecordedContent
  <2>2. CASE records' = records
    BY <1>4, <2>2, RecordsStay DEF SInv
  <2>3. CASE /\ task[w].document # None
             /\ records' = [records EXCEPT ![p] =
                              [document |-> task[w].document, hash |-> task[w].version]]
    <3>1. remote[task[w].document] # None /\ task[w].version \in sentDify[p]
      BY <1>2, <1>5, <2>3 DEF TrueOf
    <3>2. records \in [Papers -> Record \cup {None}]
      BY DEF RInv, TypeOK
    <3>3. ASSUME NEW q \in Papers, records'[q] # None
          PROVE  remote[records'[q].document] # None /\ records'[q].hash \in sentDify[q]
      BY <2>3, <3>1, <3>2, <3>3 DEF SInv, RecordsTrue
    <3> QED
      BY <1>3, <3>3 DEF RecordsTrue, external
  <2> QED
    BY <2>1, <2>2, <2>3
<1>k. PICK kb : kb = SavedKb(w)
  OBVIOUS
<1>8. ASSUME NEW i \in DOMAIN jobs PROVE JobTrue(i)'
  <2>1. jobs' = [jobs EXCEPT ![j].kb = kb]
    BY <1>k DEF Save
  <2>2. jobs'[i].graph = jobs[i].graph /\ (i # j => jobs'[i].kb = jobs[i].kb)
    BY <1>2, <2>1 DEF RInv, TypeOK, RegistryTypeOK
  <2>0. jobs[j] \in Job /\ jobs'[j] = [jobs[j] EXCEPT !.kb = kb]
    BY <1>2, <2>1 DEF RInv, TypeOK, RegistryTypeOK
  <2>3. i = j => jobs'[i].kb = kb
    BY <2>0 DEF Job
  <2>4. kb = jobs[j].kb \/ (kb = "completed" => SinceJob(j) \cap sentDify[p] # {})
    BY <1>k, <1>2, <1>5 DEF SavedKb, Column, TrueOf
  <2> QED
    BY <1>4, <2>2, <2>3, <2>4, JobWritten DEF SInv
<1>9. task' = [task EXCEPT ![w] = t]
  BY <1>1 DEF Save, ThirdTransaction
<1>10. t \in Task /\ t.pc = "graph" /\ t.job = j /\ t.record = None /\ t.document = None
       /\ t.kb = task[w].kb /\ t.graph = "pending"
  BY <1>1, <1>2 DEF IdleTask, Task, SyncStatuses
<1>11. TrueOf(t)
  BY <1>2, <1>5, <1>10 DEF TrueOf
<1>12. TrueOf(t)'
  BY <1>2, <1>4, <1>10, <1>11, TruthStays
<1> QED
  BY <1>3, <1>4, <1>6, <1>7, <1>8, <1>9, <1>12, WorkerKeepsSInv

\* A task whose record was refused knows that it has failed, and nothing else.
LEMMA SaveConflictsTrue ==
    ASSUME RInv, SInv, NEW w \in Workers, SaveConflicts(w)
    PROVE  SInv'
<1>0. PICK graph : graph = jobs[task[w].job].graph
  OBVIOUS
<1>1. PICK t : t = [IdleTask EXCEPT !.pc = "graph", !.job = task[w].job, !.kb = "failed",
                                   !.oldKb = None, !.oldGraph = graph]
  OBVIOUS
<1>2. /\ task[w] \in Task /\ task[w].job \in DOMAIN jobs
      /\ graph \in SyncStatuses
  BY <1>0, AtWork DEF SaveConflicts, Job
<1>3. WorkerStep /\ UNCHANGED <<jobs, tables, external>>
  BY SaveConflictsStep DEF SaveConflicts, registry
<1>4. task' = [task EXCEPT ![w] = t]
  BY <1>0, <1>1 DEF SaveConflicts, ThirdTransaction
<1>5. /\ t \in Task /\ t.pc = "graph" /\ t.job = task[w].job /\ t.record = None
      /\ t.document = None /\ t.kb = "failed" /\ t.graph = "pending"
  BY <1>1, <1>2 DEF IdleTask, Task, SyncStatuses
<1>6. TrueOf(t)
  BY <1>5 DEF TrueOf
<1> QED
  BY <1>2, <1>3, <1>4, <1>5, <1>6, QuietTask

\* No graph to write.
LEMMA SkipGraphTrue ==
    ASSUME RInv, SInv, NEW w \in Workers, SkipGraph(w)
    PROVE  SInv'
<1> DEFINE j == task[w].job
           p == jobs[j].paper
           v == LatestVersion(p).hash
<1>a. PICK k \in {"skipped", "disabled"} :
        task' = [task EXCEPT ![w].pc = "saveGraph", ![w].version = v, ![w].graph = k]
  BY DEF SkipGraph, Paper
<1>b. PICK t : t = [task[w] EXCEPT !.pc = "saveGraph", !.version = v, !.graph = k]
  OBVIOUS
<1>1. /\ t = [task[w] EXCEPT !.pc = "saveGraph", !.version = v, !.graph = k]
      /\ task' = [task EXCEPT ![w].pc = "saveGraph", ![w].version = v, ![w].graph = k]
  BY <1>a, <1>b
<1>2. /\ j \in DOMAIN jobs /\ task[w] \in Task /\ v \in Contents /\ task[w].pc = "graph"
  BY AtWork, TaskReadsContent DEF SkipGraph, Paper
<1>3. WorkerStep /\ UNCHANGED <<jobs, tables, external>>
  BY SkipGraphStep DEF SkipGraph, registry
<1>4. task' = [task EXCEPT ![w] = t]
  BY <1>1, <1>2 DEF RInv, TypeOK
<1>5. /\ t \in Task /\ t.pc = "saveGraph" /\ t.job = j /\ t.version = v
      /\ t.record = task[w].record /\ t.document = task[w].document
      /\ t.kb = task[w].kb /\ t.graph = k
  BY <1>1, <1>2 DEF Task, SyncStatuses
<1>6. v \in SinceJob(j)
  BY <1>2, LatestSince
<1>7. TrueOf(task[w])
  BY DEF SInv
<1>8. TrueOf(t)
  BY <1>2, <1>5, <1>6, <1>7 DEF TrueOf
<1> QED
  BY <1>2, <1>3, <1>4, <1>5, <1>8, QuietTask

\* What a write to Neo4j does, whether it is answered or not.
LEMMA WriteGrows ==
    ASSUME RInv, SInv, NEW w \in Workers, task[w].pc = "graph", WorkerStep,
           UNCHANGED <<tables, remote, sentDify, jobs>>,
           graphs' \in {graphs, [graphs EXCEPT ![Paper(w)] =
                                    @ \cup {LatestVersion(Paper(w)).hash}]}
    PROVE  Grow /\ RecordsTrue' /\ GraphsRecorded' /\ \A j \in DOMAIN jobs : JobTrue(j)'
<1>1. graphs \in [Papers -> SUBSET Contents] /\ Paper(w) \in Papers
  BY TaskReadsContent DEF RInv, TypeOK
<1>2. \A p \in Papers : graphs[p] \subseteq graphs'[p]
  BY <1>1
<1>3. SameJobs
  BY DEF WorkerStep
<1>4. Grow
  BY <1>2 DEF Grow, WorkerStep, SameJobs, tables
<1>5. RecordsTrue' /\ GraphsRecorded'
  BY <1>4, RecordsStay, GraphsStay DEF SInv, tables
<1>6. \A j \in DOMAIN jobs : JobTrue(j)'
  BY <1>3, <1>4, JobsStay
<1> QED
  BY <1>4, <1>5, <1>6

\* A graph that was written is there.
LEMMA WriteGraphTrue ==
    ASSUME RInv, SInv, NEW w \in Workers, WriteGraph(w)
    PROVE  SInv'
<1>a. PICK j : j = task[w].job
  OBVIOUS
<1>b. PICK p : p = jobs[j].paper
  OBVIOUS
<1>c. PICK v : v = LatestVersion(p).hash
  OBVIOUS
<1>1. j = task[w].job /\ p = jobs[j].paper /\ v = LatestVersion(p).hash
  BY <1>a, <1>b, <1>c
<1>2. PICK t : t = [task[w] EXCEPT !.pc = "lookup", !.version = v, !.graph = "completed"]
  OBVIOUS
<1>3. /\ j \in DOMAIN jobs /\ task[w] \in Task /\ v \in Contents /\ task[w].pc = "graph"
      /\ Paper(w) = p /\ p \in Papers
  BY <1>1, AtWork, TaskReadsContent DEF WriteGraph, Paper
<1>4. WorkerStep /\ SameJobs /\ UNCHANGED <<jobs, tables, remote, sentDify>>
  BY WriteGraphStep DEF WriteGraph, registry, WorkerStep
<1>5. graphs' = [graphs EXCEPT ![p] = @ \cup {v}]
  BY <1>1, <1>3 DEF WriteGraph
<1>6. Grow /\ RecordsTrue' /\ GraphsRecorded' /\ \A i \in DOMAIN jobs : JobTrue(i)'
  BY <1>3, <1>4, WriteGrows DEF WriteGraph
<1>7. task' = [task EXCEPT ![w] = t]
  BY <1>1, <1>2, <1>3 DEF WriteGraph, RInv, TypeOK
<1>8. /\ t.pc = "lookup" /\ t.job = j /\ t.version = v
      /\ t.record = task[w].record /\ t.document = task[w].document
      /\ t.kb = task[w].kb /\ t.graph = "completed"
  BY <1>1, <1>2, <1>3 DEF Task
<1>9. v \in SinceJob(j) /\ SinceJob(j) \subseteq SinceJob(j)'
  BY <1>1, <1>3, <1>6, LatestSince, SinceGrows
<1>10. v \in graphs'[p]
  BY <1>3, <1>5 DEF RInv, TypeOK
<1>11. TrueOf(task[w])
  BY DEF SInv
<1>12. jobs'[j].paper = p
  BY <1>1, <1>4
<1>13. UNCHANGED <<remote, sentDify>>
  BY <1>4
<1>14. TrueOf(t)'
  BY <1>1, <1>3, <1>8, <1>9, <1>10, <1>11, <1>12, <1>13 DEF TrueOf
<1> QED
  BY <1>4, <1>6, <1>7, <1>14, WorkerKeepsSInv

\* A failed write promises nothing.
LEMMA GraphFailsTrue ==
    ASSUME RInv, SInv, NEW w \in Workers, GraphFails(w)
    PROVE  SInv'
<1>a. PICK j : j = task[w].job
  OBVIOUS
<1>b. PICK p : p = jobs[j].paper
  OBVIOUS
<1>c. PICK v : v = LatestVersion(p).hash
  OBVIOUS
<1>1. j = task[w].job /\ p = jobs[j].paper /\ v = LatestVersion(p).hash
  BY <1>a, <1>b, <1>c
<1>2. PICK t : t = [task[w] EXCEPT !.pc = "lookup", !.version = v, !.graph = "failed"]
  OBVIOUS
<1>3. /\ j \in DOMAIN jobs /\ task[w] \in Task /\ v \in Contents /\ task[w].pc = "graph"
      /\ Paper(w) = p
  BY <1>1, AtWork, TaskReadsContent DEF GraphFails, Paper
<1>4. WorkerStep /\ SameJobs /\ UNCHANGED <<jobs, tables, remote, sentDify>>
  BY GraphFailsStep DEF GraphFails, registry, WorkerStep
<1>6. Grow /\ RecordsTrue' /\ GraphsRecorded' /\ \A i \in DOMAIN jobs : JobTrue(i)'
  BY <1>3, <1>4, WriteGrows DEF GraphFails
<1>7. task' = [task EXCEPT ![w] = t]
  BY <1>1, <1>2, <1>3 DEF GraphFails, RInv, TypeOK
<1>8. /\ t \in Task /\ t.pc = "lookup" /\ t.job = j /\ t.version = v
      /\ t.record = task[w].record /\ t.document = task[w].document
      /\ t.kb = task[w].kb /\ t.graph = "failed"
  BY <1>1, <1>2, <1>3 DEF Task, SyncStatuses
<1>9. v \in SinceJob(j)
  BY <1>1, <1>3, LatestSince
<1>11. TrueOf(task[w])
  BY DEF SInv
<1>12. TrueOf(t)
  BY <1>1, <1>3, <1>8, <1>9, <1>11 DEF TrueOf
<1>13. TrueOf(t)'
  BY <1>3, <1>6, <1>8, <1>12, TruthStays
<1> QED
  BY <1>4, <1>6, <1>7, <1>13, WorkerKeepsSInv

\* Looking a record up changes nothing that is told.
LEMMA LookupGraphRecordTrue ==
    ASSUME RInv, SInv, NEW w \in Workers, LookupGraphRecord(w)
    PROVE  SInv'
<1>1. PICK b \in BOOLEAN : b = (GraphRecord(w) # None)
  OBVIOUS
<1>2. PICK t : t = [task[w] EXCEPT !.pc = "saveGraph", !.found = b]
  OBVIOUS
<1>3. task[w] \in Task /\ task[w].job \in DOMAIN jobs /\ task[w].pc = "lookup"
  BY AtWork DEF LookupGraphRecord
<1>4. WorkerStep /\ UNCHANGED <<jobs, tables, external>>
  BY LookupGraphRecordStep DEF LookupGraphRecord, registry
<1>5. task' = [task EXCEPT ![w] = t]
  BY <1>1, <1>2, <1>3 DEF LookupGraphRecord, RInv, TypeOK
<1>6. /\ t \in Task /\ t.pc = "saveGraph" /\ t.job = task[w].job
      /\ t.version = task[w].version /\ t.record = task[w].record
      /\ t.document = task[w].document /\ t.kb = task[w].kb /\ t.graph = task[w].graph
  BY <1>2, <1>3 DEF Task
<1>7. TrueOf(task[w])
  BY DEF SInv
<1>8. TrueOf(t)
  BY <1>3, <1>6, <1>7 DEF TrueOf
<1> QED
  BY <1>3, <1>4, <1>5, <1>6, <1>8, QuietTask

\* The record that is written tells what the job is going to tell, of a version
\* that is the job's own or a later one.
LEMMA SaveGraphTrue ==
    ASSUME RInv, SInv, NEW w \in Workers, SaveGraph(w)
    PROVE  SInv'
<1>a. PICK j : j = task[w].job
  OBVIOUS
<1>b. PICK p : p = jobs[j].paper
  OBVIOUS
<1>c. PICK v : v = task[w].version
  OBVIOUS
<1>d. PICK g : g = task[w].graph
  OBVIOUS
<1>e. PICK kb : kb = SavedKb(w)
  OBVIOUS
<1>f. PICK graph : graph = SavedGraph(w)
  OBVIOUS
<1>1. PICK t : t = [IdleTask EXCEPT !.pc = "finish", !.job = task[w].job,
                                   !.kb = task[w].kb, !.graph = task[w].graph]
  OBVIOUS
<1>2. /\ j \in DOMAIN jobs /\ task[w] \in Task /\ p \in Papers /\ Paper(w) = p
      /\ task[w].pc = "saveGraph" /\ v \in Contents
  BY <1>a, <1>b, <1>c, AtWork, JobHasPaper DEF SaveGraph, RInv, Paper
<1>3. WorkerStep /\ SameJobs /\ UNCHANGED <<versions, records, external>>
  BY SaveGraphStep DEF SaveGraph, WorkerStep
<1>4. /\ TrueOf(task[w]) /\ v \in SinceJob(j)
      /\ g = "completed" => v \in graphs[p] /\ SinceJob(j) \cap graphs[p] # {}
  BY <1>a, <1>b, <1>c, <1>d, <1>2 DEF SInv, TrueOf
<1>5. graphRecords \in [Papers -> [Contents -> {None, "completed", "failed"}]]
  BY DEF RInv, TypeOK
<1>6. \/ graphRecords' = graphRecords /\ g \notin {"completed", "failed"}
      \/ /\ g \in {"completed", "failed"}
         /\ graphRecords' = [graphRecords EXCEPT ![p][v] = g]
  BY <1>c, <1>d, <1>2 DEF SaveGraph, WritesGraphRecord
<1>7. \A q \in Papers, h \in Contents :
        \/ graphRecords'[q][h] = graphRecords[q][h]
        \/ q = p /\ h = v /\ graphRecords'[q][h] = g /\ g \in {"completed", "failed"}
  BY <1>2, <1>5, <1>6
<1>8. Grow
  BY <1>3, <1>7, SyncAssumption DEF Grow, SameJobs, external, SyncStatuses
<1>9. RecordsTrue'
  BY <1>3, <1>8, RecordsStay DEF SInv
<1>10. GraphsRecorded'
  BY <1>3, <1>4, <1>7 DEF SInv, GraphsRecorded, external
<1>11. ASSUME NEW i \in DOMAIN jobs PROVE JobTrue(i)'
  <2>1. jobs' = [jobs EXCEPT ![j].kb = kb, ![j].graph = graph]
    BY <1>a, <1>e, <1>f DEF SaveGraph
  <2>2. i # j => jobs'[i].kb = jobs[i].kb /\ jobs'[i].graph = jobs[i].graph
    BY <1>2, <2>1 DEF RInv, TypeOK, RegistryTypeOK
  <2>0. jobs[j] \in Job /\ jobs'[j] = [jobs[j] EXCEPT !.kb = kb, !.graph = graph]
    BY <1>2, <2>1 DEF RInv, TypeOK, RegistryTypeOK
  <2>3. i = j => jobs'[i].kb = kb /\ jobs'[i].graph = graph
    BY <2>0 DEF Job
  <2>4. kb = jobs[j].kb \/ (kb = "completed" => SinceJob(j) \cap sentDify[p] # {})
    BY <1>a, <1>b, <1>e, <1>2, <1>4 DEF SavedKb, Column, TrueOf
  <2>5. graph = jobs[j].graph \/ graph = g
    BY <1>a, <1>d, <1>f DEF SavedGraph, Column
  <2>6. g \in {"completed", "failed"} => graphRecords'[p][v] # None
    BY <1>2, <1>5, <1>6, SyncAssumption DEF SyncStatuses
  <2>7. CASE i # j
    BY <1>8, <2>2, <2>7, JobWritten DEF SInv
  <2>8. CASE i = j
    BY <1>b, <1>4, <1>8, <2>3, <2>4, <2>5, <2>6, <2>8, JobWritten DEF SInv
  <2> QED
    BY <2>7, <2>8
<1>12. task' = [task EXCEPT ![w] = t]
  BY <1>1 DEF SaveGraph
<1>13. /\ t \in Task /\ t.pc = "finish" /\ t.job = task[w].job
       /\ t.record = None /\ t.document = None
       /\ t.kb = task[w].kb /\ t.graph = task[w].graph
  BY <1>1, <1>2 DEF Task, IdleTask
<1>14. TrueOf(t)
  BY <1>2, <1>4, <1>13 DEF TrueOf
<1>15. TrueOf(t)'
  BY <1>a, <1>2, <1>8, <1>13, <1>14, TruthStays
<1> QED
  BY <1>3, <1>8, <1>9, <1>10, <1>11, <1>12, <1>15, WorkerKeepsSInv

\* A worker that ends, fails or dies knows nothing any more.
LEMMA EndTrue ==
    ASSUME RInv, SInv, NEW w \in Workers, Finish(w) \/ Raise(w) \/ Die(w)
    PROVE  SInv'
<1>1. WorkerStep
  BY FinishStep, RaiseStep, DieStep
<1>2. UNCHANGED <<tables, external>> /\ task' = [task EXCEPT ![w] = IdleTask]
  BY DEF Finish, Raise, Die
<1>3. jobs' = jobs \/ SaveStatus(w)
  BY DEF Finish, Raise, Die
<1>4. \A j \in DOMAIN jobs : jobs'[j].kb = jobs[j].kb /\ jobs'[j].graph = jobs[j].graph
  <2>1. CASE jobs' = jobs
    BY <2>1
  <2>2. CASE SaveStatus(w)
    <3>1. PICK i, s : i = task[w].job /\ s = FinalStatus(task[w].kb, task[w].graph)
      OBVIOUS
    <3>2. jobs' = [jobs EXCEPT ![i].status = s]
      BY <2>2, <3>1 DEF SaveStatus
    <3> QED
      BY <3>2 DEF RInv, TypeOK, RegistryTypeOK
  <2> QED
    BY <1>3, <2>1, <2>2
<1>5. IdleTask \in Task /\ TrueOf(IdleTask)
  BY IdleTyped DEF TrueOf
<1> QED
  BY <1>1, <1>2, <1>4, <1>5, IdleTyped, QuietTask

-----------------------------------------------------------------------------
(* The steps of requests.                                                  *)

\* A step that adds neither a version nor a job.
LEMMA NothingCommitted ==
    ASSUME SInv, UNCHANGED <<versions, jobs, task, tables, external>>
    PROVE  SInv'
<1>1. \A j \in DOMAIN jobs : SinceJob(j)' = SinceJob(j)
  BY DEF SinceJob, VersionsOf
<1>2. RecordsTrue' /\ GraphsRecorded'
  BY DEF SInv, RecordsTrue, GraphsRecorded, tables, external
<1>3. \A j \in DOMAIN jobs' : JobTrue(j)'
  BY <1>1 DEF SInv, JobTrue, tables, external
<1>4. \A j : SinceJob(j)' = SinceJob(j)
  BY DEF SinceJob, VersionsOf
<1>5. \A w \in Workers : TrueOf(task[w])'
  BY <1>4 DEF SInv, TrueOf, external
<1> QED
  BY <1>2, <1>3, <1>5 DEF SInv

\* A step that adds a job, and perhaps a version: what is left to be shown of it.
LEMMA CommitTrue ==
    ASSUME RInv, SInv, NEW e \in Job, jobs' = Append(jobs, e),
           versions \subseteq versions', UNCHANGED <<task, tables, external>>,
           NEW n, n = Len(jobs'), JobTrue(n)'
    PROVE  SInv'
<1>1. /\ DOMAIN jobs' = DOMAIN jobs \cup {n}
      /\ \A j \in DOMAIN jobs : jobs'[j] = jobs[j]
  BY Appended DEF RInv, TypeOK, RegistryTypeOK
<1>2. Grow
  BY <1>1 DEF Grow, tables, external
<1>3. RecordsTrue' /\ GraphsRecorded'
  BY <1>2, RecordsStay, GraphsStay DEF SInv, tables
<1>4. ASSUME NEW j \in DOMAIN jobs PROVE JobTrue(j)'
  BY <1>1, <1>2, JobStays DEF SInv
<1>5. \A j \in DOMAIN jobs' : JobTrue(j)'
  BY <1>1, <1>4
<1>6. ASSUME NEW w \in Workers, NEW u, u = task[w] PROVE TrueOf(u)'
  <2>1. u \in Task /\ TrueOf(u) /\ (u.pc # "idle" => u.job \in DOMAIN jobs)
    BY <1>6, AtWork DEF SInv
  <2> QED
    BY <1>2, <2>1, TruthStays
<1>7. \A w \in Workers : TrueOf(task[w])'
  BY <1>6 DEF TrueOf
<1> QED
  BY <1>3, <1>5, <1>7 DEF SInv

\* A job that begins tells nothing yet.
LEMMA CommitFreshTrue ==
    ASSUME RInv, SInv, NEW r \in Requests, CommitFresh(r),
           UNCHANGED <<task, tables, external>>
    PROVE  SInv'
<1>1. FreshJob(r) \in Job /\ jobs' = Append(jobs, FreshJob(r))
  BY FreshJobTyped DEF CommitFresh
<1>n. PICK n : n = Len(jobs')
  OBVIOUS
<1>e. PICK e : e = FreshJob(r)
  OBVIOUS
<1>2. jobs'[n] = e
  BY <1>n, <1>e, <1>1, Appended DEF RInv, TypeOK, RegistryTypeOK
<1>3. e.kb \notin {"completed", "failed"} /\ e.graph \notin {"completed", "failed"}
  BY <1>e DEF FreshJob
<1>4. JobTrue(n)'
  BY <1>2, <1>3 DEF JobTrue
<1>5. versions \subseteq versions'
  BY DEF CommitFresh
<1> QED
  BY <1>n, <1>1, <1>4, <1>5, CommitTrue

\* The job of a content that is there tells what another has told of it.
LEMMA CommitExistingTrue ==
    ASSUME RInv, SInv, NEW r \in Requests, CommitExisting(r),
           UNCHANGED <<task, tables, external>>
    PROVE  SInv'
<1>0. PICK e : e = RepeatedJob(r)
  OBVIOUS
<1>n. PICK n : n = Len(jobs')
  OBVIOUS
<1>1. /\ e \in Job /\ e.paper = req[r].paper /\ e.hash = req[r].hash
      /\ e.dedup = "existing" /\ jobs' = Append(jobs, e)
  BY <1>0, RepeatedJobTyped DEF CommitExisting
<1>2. jobs'[n] = e
  BY <1>n, <1>1, Appended DEF RInv, TypeOK, RegistryTypeOK
<1>3. UNCHANGED <<versions, sentDify, graphs>>
  BY DEF CommitExisting, external
<1>4. \/ e.kb = "skipped" /\ e.graph = "skipped"
      \/ \E l \in JobsFor(e.paper, e.hash) : e.kb = jobs[l].kb /\ e.graph = jobs[l].graph
  <2> DEFINE prior == JobsFor(req[r].paper, req[r].hash)
             last == CHOOSE j \in prior : \A k \in prior : k <= j
  <2>1. CASE prior = {}
    BY <1>0, <2>1 DEF RepeatedJob
  <2>2. CASE prior # {}
    <3>1. req[r].paper \in Papers /\ req[r].hash \in Contents
      BY DEF RInv, Begun, CommitExisting
    <3>2. \E j \in prior : \A k \in prior : k <= j
      BY <2>2, <3>1 DEF RInv, LastKnown
    <3>3. last \in prior
      BY <3>2
    <3>4. e.kb = jobs[last].kb /\ e.graph = jobs[last].graph
      BY <1>0, <2>2 DEF RepeatedJob
    <3> QED
      BY <1>1, <3>3, <3>4
  <2> QED
    BY <2>1, <2>2
<1>5. JobTrue(n)'
  <2>1. CASE e.kb = "skipped" /\ e.graph = "skipped"
    BY <1>2, <2>1 DEF JobTrue
  <2>2. CASE \E l \in JobsFor(e.paper, e.hash) : e.kb = jobs[l].kb /\ e.graph = jobs[l].graph
    <3>1. PICK l \in DOMAIN jobs :
            /\ jobs[l].paper = e.paper /\ jobs[l].hash = e.hash
            /\ e.kb = jobs[l].kb /\ e.graph = jobs[l].graph
      BY <2>2 DEF JobsFor
    <3>2. SinceJob(n)' = SinceJob(l)
      BY <1>2, <1>3, <3>1 DEF SinceJob, VersionsOf
    <3>3. JobTrue(l)
      BY DEF SInv
    <3> QED
      BY <1>1, <1>2, <1>3, <3>1, <3>2, <3>3 DEF JobTrue
  <2> QED
    BY <1>4, <2>1, <2>2
<1> QED
  BY <1>n, <1>1, <1>3, <1>5, CommitTrue

-----------------------------------------------------------------------------
(* The invariant and what it shows.                                        *)

LEMMA SInitially == SyncInit => SInv
<1> SUFFICES ASSUME SyncInit PROVE SInv
  OBVIOUS
<1>1. \A w \in Workers : task[w] = IdleTask
  BY DEF SyncInit
<1>2. \A w \in Workers : TrueOf(task[w])
  BY <1>1, IdleTyped DEF TrueOf
<1>3. RecordsTrue
  BY DEF SyncInit, RecordsTrue
<1>4. GraphsRecorded
  BY SyncAssumption DEF SyncInit, GraphsRecorded, SyncStatuses
<1>5. DOMAIN jobs = {}
  BY DEF SyncInit, Init
<1> QED
  BY <1>2, <1>3, <1>4, <1>5 DEF SInv

LEMMA SStep == RInv /\ SInv /\ [Next]_vars => SInv'
<1> SUFFICES ASSUME RInv, SInv, [Next]_vars PROVE SInv'
  OBVIOUS
<1>1. CASE RegistryNext /\ UNCHANGED <<task, tables, external, bounds>>
  <2>1. PICK r \in Requests :
          (\E p \in Papers, h \in Contents : Submit(r, p, h)) \/ Handle(r)
    BY <1>1 DEF RegistryNext
  <2>2. CASE CommitFresh(r)
    BY <1>1, <2>2, CommitFreshTrue
  <2>3. CASE CommitExisting(r)
    BY <1>1, <2>3, CommitExistingTrue
  <2>4. CASE ~CommitFresh(r) /\ ~CommitExisting(r)
    <3>1. UNCHANGED <<versions, jobs>>
      BY <2>1, <2>4 DEF Handle, Submit, Register, Conflict, Dispatch, DispatchFails
    <3> QED
      BY <1>1, <3>1, NothingCommitted
  <2> QED
    BY <2>2, <2>3, <2>4
<1>2. ASSUME NEW w \in Workers, Work(w) \/ Die(w) PROVE SInv'
  BY <1>2, TakeTrue, ReadVersionTrue, SkipDifyTrue, CallDifyTrue, DifyFailsTrue,
     SaveTrue, SaveConflictsTrue, SkipGraphTrue, WriteGraphTrue, GraphFailsTrue,
     LookupGraphRecordTrue, SaveGraphTrue, EndTrue
  DEF Work
<1>4. ASSUME NEW w \in Workers, Redeliver(w) PROVE SInv'
  BY <1>4, NothingCommitted DEF Redeliver
<1>3. CASE UNCHANGED vars
  BY <1>3, NothingCommitted DEF vars, registry, tables, external
<1> QED
  BY <1>1, <1>2, <1>3, <1>4 DEF Next, Retry, Quiescent

\* What tasks are going to write is true, and so is what they have written.
THEOREM SynchronisationInvariant == Spec => []SInv
<1>1. SyncInit => SInv
  BY SInitially
<1>2. RInv /\ SInv /\ [Next]_vars => SInv'
  BY SStep
<1> QED
  BY <1>1, <1>2, RegistrationInvariant, PTL DEF Spec

\* Documents and graphs that a job calls completed are in, in its own version or
\* a later one.
THEOREM CompletedWasSent == Spec => []CompletedMeansSent
<1>1. SInv => CompletedMeansSent
  BY DEF SInv, JobTrue, CompletedMeansSent
<1> QED
  BY <1>1, SynchronisationInvariant, PTL

\* A record names a document that is in Dify, and a content that was sent.
THEOREM RecordsAreTrue == Spec => []RecordsTrue
<1>1. SInv => RecordsTrue
  BY DEF SInv
<1> QED
  BY <1>1, SynchronisationInvariant, PTL

\* "completed" in graph_sync_records is true of Neo4j, and no job whose graph
\* was tried is without a record.
THEOREM GraphRecordsAreTrue == Spec => []GraphRecordsTrue
<1>1. SInv => GraphRecordsTrue
  BY DEF SInv, JobTrue, GraphsRecorded, GraphRecordsTrue
<1> QED
  BY <1>1, SynchronisationInvariant, PTL

-----------------------------------------------------------------------------
(* The status of a job sums up what became of its documents and its graph. *)
(* A task writes the columns that differ from what its session knows: the  *)
(* row comes to hold its results, because the session knows the row as it  *)
(* is, or writes whatever is there.  That holds while no other task is at  *)
(* work on the job: a job is overlapped once two tasks have been.          *)

\* Two tasks that are at work on one job have overlapped.
Apart ==
    \A w, x \in Workers :
        task[w].pc # "idle" /\ task[x].pc # "idle" /\ task[w].job = task[x].job
            => w = x \/ task[w].job \in overlapped

Results == SyncStatuses \ {"pending"}

\* The session of a task t knows the row of its job, and the row holds the
\* results that t has saved.
HeldBy(t) ==
    t.pc # "idle" /\ t.job \notin overlapped =>
        /\ jobs[t.job].status = "syncing"
        /\ t.pc # "finish" => /\ t.oldKb \in {None, jobs[t.job].kb}
                              /\ t.oldGraph \in {None, jobs[t.job].graph}
        /\ t.pc \in {"save", "graph", "lookup", "saveGraph", "finish"} => t.kb \in Results
        /\ t.pc \in {"lookup", "saveGraph", "finish"} => t.graph \in Results
        /\ t.pc = "finish" => jobs[t.job].kb = t.kb /\ jobs[t.job].graph = t.graph

\* The status of a job j that is done.
Honest(j) ==
    /\ jobs[j].status \in {"completed", "partial_success", "failed"}
    /\ jobs[j].dedup # "existing"
    /\ j \notin overlapped
    => SumsUp(j)

HInv ==
    /\ Apart
    /\ \A w \in Workers : HeldBy(task[w])
    /\ \A j \in DOMAIN jobs : Honest(j)

-----------------------------------------------------------------------------
(* The steps of workers.                                                   *)

\* Other jobs than a task's own, and what other tasks hold, are as before.
LEMMA OthersHold ==
    ASSUME RInv, HInv, NEW w \in Workers, task[w].pc # "idle",
           \A i \in DOMAIN jobs : i # task[w].job => jobs'[i] = jobs[i],
           \A x \in Workers \ {w} : task'[x] = task[x], overlapped' = overlapped
    PROVE  \A x \in Workers \ {w} : HeldBy(task[x])'
<1> SUFFICES ASSUME NEW x \in Workers \ {w}, task[x].pc # "idle",
                    task[x].job \notin overlapped
             PROVE  HeldBy(task[x])'
  BY DEF HeldBy
<1>1. task[x].job \in DOMAIN jobs /\ task[x].job # task[w].job
  BY AtWork DEF HInv, Apart
<1>2. jobs'[task[x].job] = jobs[task[x].job] /\ HeldBy(task[x]) /\ task'[x] = task[x]
  BY <1>1 DEF HInv
<1> QED
  BY <1>2 DEF HeldBy

\* A step of a task that goes on with its job.
LEMMA GoesOn ==
    ASSUME RInv, HInv, NEW w \in Workers, task[w].pc # "idle", NEW t,
           task' = [task EXCEPT ![w] = t], t.pc # "idle", t.job = task[w].job,
           overlapped' = overlapped, DOMAIN jobs' = DOMAIN jobs,
           \A i \in DOMAIN jobs : i # task[w].job => jobs'[i] = jobs[i],
           HeldBy(t)'
    PROVE  HInv'
<1>1. task'[w] = t /\ \A x \in Workers \ {w} : task'[x] = task[x]
  BY DEF RInv, TypeOK
<1>2. \A x \in Workers : task'[x].job = task[x].job /\ (task'[x].pc # "idle" <=> task[x].pc # "idle")
  BY <1>1
<1>3. Apart'
  BY <1>2 DEF HInv, Apart
<1>4. \A x \in Workers : HeldBy(task[x])'
  BY <1>1, OthersHold DEF HeldBy
<1>5. ASSUME NEW i \in DOMAIN jobs PROVE Honest(i)'
  <2>1. CASE i = task[w].job
    BY <2>1 DEF Honest, HeldBy
  <2>2. CASE i # task[w].job
    <3>1. jobs'[i] = jobs[i] /\ Honest(i)
      BY <2>2 DEF HInv
    <3> QED
      BY <3>1 DEF Honest, SumsUp
  <2> QED
    BY <2>1, <2>2
<1> QED
  BY <1>3, <1>4, <1>5 DEF HInv

\* A step that writes nothing to the job.
LEMMA GoesOnQuietly ==
    ASSUME RInv, HInv, NEW w \in Workers, task[w].pc # "idle", NEW t,
           task' = [task EXCEPT ![w] = t], t.pc # "idle", t.job = task[w].job,
           UNCHANGED <<jobs, overlapped>>, HeldBy(t)
    PROVE  HInv'
<1>1. HeldBy(t)'
  BY DEF HeldBy
<1> QED
  BY <1>1, GoesOn

\* A step that no task and no job takes part in.
LEMMA NothingHappens ==
    ASSUME HInv, UNCHANGED <<jobs, task, overlapped>>
    PROVE  HInv'
BY DEF HInv, Apart, HeldBy, Honest, SumsUp

\* A job that leaves the queue is "syncing", and overlapped when another task is
\* at work on it.
LEMMA TakeHolds ==
    ASSUME RInv, HInv, NEW w \in Workers, Take(w)
    PROVE  HInv'
<1>1. PICK j \in queue :
        /\ jobs' = [jobs EXCEPT ![j].status = "syncing"]
        /\ task' = [task EXCEPT ![w] = [IdleTask EXCEPT !.pc = "read", !.job = j,
                                                        !.oldKb = jobs[j].kb,
                                                        !.oldGraph = jobs[j].graph]]
        /\ overlapped' = IF \E v \in Workers : task[v].pc # "idle" /\ task[v].job = j
                         THEN overlapped \cup {j} ELSE overlapped
  BY DEF Take
<1>2. PICK t : t = [IdleTask EXCEPT !.pc = "read", !.job = j, !.oldKb = jobs[j].kb,
                                   !.oldGraph = jobs[j].graph]
  OBVIOUS
<1>3. /\ t.pc = "read" /\ t.job = j /\ t.oldKb = jobs[j].kb
      /\ t.oldGraph = jobs[j].graph
  BY <1>2 DEF IdleTask
<1>4. task'[w] = t /\ \A x \in Workers \ {w} : task'[x] = task[x]
  BY <1>1, <1>2 DEF RInv, TypeOK
<1>5. j \in DOMAIN jobs /\ jobs[j] \in Job
  BY DEF RInv, TypeOK, RegistryTypeOK
<1>6. /\ DOMAIN jobs' = DOMAIN jobs
      /\ \A i \in DOMAIN jobs : i # j => jobs'[i] = jobs[i]
      /\ jobs'[j] = [jobs[j] EXCEPT !.status = "syncing"]
  BY <1>1, <1>5 DEF RInv, TypeOK, RegistryTypeOK
<1>7. /\ jobs'[j].status = "syncing" /\ jobs'[j].kb = jobs[j].kb
      /\ jobs'[j].graph = jobs[j].graph
  BY <1>5, <1>6 DEF Job
<1>8. overlapped \subseteq overlapped'
  BY <1>1
<1>9. \A x \in Workers \ {w} :
        task[x].pc # "idle" /\ task[x].job = j => j \in overlapped'
  BY <1>1
<1>10. Apart'
  BY <1>3, <1>4, <1>8, <1>9 DEF HInv, Apart
<1>11. ASSUME NEW x \in Workers, task'[x].pc # "idle", task'[x].job \notin overlapped'
       PROVE  HeldBy(task[x])'
  <2>1. CASE x = w
    BY <1>3, <1>4, <1>7, <2>1 DEF HeldBy
  <2>2. CASE x # w
    <3>1. task'[x] = task[x] /\ task[x].job # j /\ task[x].job \in DOMAIN jobs
      BY <1>4, <1>9, <1>11, <2>2, AtWork
    <3>2. /\ jobs'[task[x].job] = jobs[task[x].job] /\ HeldBy(task[x])
          /\ task[x].job \notin overlapped
      BY <1>6, <1>8, <1>11, <3>1 DEF HInv
    <3> QED
      BY <3>1, <3>2 DEF HeldBy
  <2> QED
    BY <2>1, <2>2
<1>12. \A x \in Workers : HeldBy(task[x])'
  BY <1>11 DEF HeldBy
<1>13. ASSUME NEW i \in DOMAIN jobs PROVE Honest(i)'
  <2>1. CASE i = j
    BY <1>7, <2>1 DEF Honest
  <2>2. CASE i # j
    <3>1. jobs'[i] = jobs[i] /\ Honest(i)
      BY <1>6, <2>2 DEF HInv
    <3> QED
      BY <1>8, <3>1 DEF Honest, SumsUp
  <2> QED
    BY <2>1, <2>2
<1> QED
  BY <1>6, <1>10, <1>12, <1>13 DEF HInv

\* Steps before the results of Dify are saved.
LEMMA DifyHolds ==
    ASSUME RInv, HInv, NEW w \in Workers,
           ReadVersion(w) \/ SkipDify(w) \/ CallDify(w) \/ DifyFails(w)
    PROVE  HInv'
<1>1. task[w] \in Task /\ task[w].pc \in {"read", "dify"} /\ HeldBy(task[w])
  BY AtWork DEF ReadVersion, SkipDify, CallDify, DifyFails, HInv
<1>2. UNCHANGED <<jobs, overlapped>>
  BY DEF ReadVersion, SkipDify, CallDify, DifyFails, registry, bounds
<1>3. task \in [Workers -> Task]
  BY DEF RInv, TypeOK
<1>4. CASE ReadVersion(w)
  <2>1. PICK t : t = [task[w] EXCEPT !.pc = "dify", !.version = LatestVersion(Paper(w)).hash,
                                     !.record = records[Paper(w)]]
    OBVIOUS
  <2>2. task' = [task EXCEPT ![w] = t]
    BY <1>3, <1>4, <2>1 DEF ReadVersion
  <2>3. /\ t.pc = "dify" /\ t.job = task[w].job
        /\ t.oldKb = task[w].oldKb /\ t.oldGraph = task[w].oldGraph
    BY <1>1, <2>1 DEF Task
  <2>4. HeldBy(t)
    BY <1>1, <2>3 DEF HeldBy
  <2> QED
    BY <1>1, <1>2, <2>2, <2>3, <2>4, GoesOnQuietly
<1>5. CASE SkipDify(w) \/ CallDify(w) \/ DifyFails(w)
  <2>1. PICK k, d :
          /\ k \in Results
          /\ task' = [task EXCEPT ![w].pc = "save", ![w].document = d, ![w].kb = k]
    <3>1. CASE SkipDify(w)
      <4>0. PICK k : k = IF ~EnableDify THEN "disabled"
                         ELSE IF task[w].version \notin WithDocuments
                              THEN "skipped" ELSE "completed"
        OBVIOUS
      <4>1. k \in Results /\ task' = [task EXCEPT ![w].pc = "save", ![w].kb = k]
        BY <3>1, <4>0 DEF SkipDify, Results, SyncStatuses
      <4>2. task' = [task EXCEPT ![w].pc = "save", ![w].document = task[w].document, ![w].kb = k]
        BY <1>1, <1>3, <4>1 DEF Task
      <4> QED
        BY <4>1, <4>2
    <3>2. CASE CallDify(w)
      BY <3>2 DEF CallDify, Results, SyncStatuses
    <3>3. CASE DifyFails(w)
      <4>1. task' = [task EXCEPT ![w].pc = "save", ![w].kb = "failed"]
        BY <3>3 DEF DifyFails
      <4>2. task' = [task EXCEPT ![w].pc = "save", ![w].document = task[w].document,
                                 ![w].kb = "failed"]
        BY <1>1, <1>3, <4>1 DEF Task
      <4> QED
        BY <4>2 DEF Results, SyncStatuses
    <3> QED
      BY <1>5, <3>1, <3>2, <3>3
  <2>2. PICK t : t = [task[w] EXCEPT !.pc = "save", !.document = d, !.kb = k]
    OBVIOUS
  <2>3. task' = [task EXCEPT ![w] = t]
    BY <1>3, <2>1, <2>2
  <2>4. /\ t.pc = "save" /\ t.job = task[w].job /\ t.kb = k
        /\ t.oldKb = task[w].oldKb /\ t.oldGraph = task[w].oldGraph
    BY <1>1, <2>2 DEF Task
  <2>5. HeldBy(t)
    BY <1>1, <2>1, <2>4 DEF HeldBy
  <2> QED
    BY <1>1, <1>2, <2>3, <2>4, <2>5, GoesOnQuietly
<1> QED
  BY <1>4, <1>5

\* What a task writes is its result, when its session knows the row.
LEMMA ResultsAreWritten ==
    ASSUME NEW w \in Workers, HeldBy(task[w]), task[w].pc \in {"save", "saveGraph"},
           task[w].job \notin overlapped
    PROVE  /\ SavedKb(w) = task[w].kb
           /\ task[w].pc = "saveGraph" => SavedGraph(w) = task[w].graph
BY SyncAssumption DEF HeldBy, SavedKb, SavedGraph, Column, Results

\* The job tells what the task found of its documents.
LEMMA SaveHolds ==
    ASSUME RInv, HInv, NEW w \in Workers, Save(w)
    PROVE  HInv'
<1>1. PICK j : j = task[w].job
  OBVIOUS
<1>2. PICK k, s : k = task[w].kb /\ s = SavedKb(w)
  OBVIOUS
<1>3. PICK t : t = [IdleTask EXCEPT !.pc = "graph", !.job = j, !.kb = k, !.oldKb = k,
                                   !.oldGraph = task[w].oldGraph]
  OBVIOUS
<1>4. task[w].pc = "save" /\ j \in DOMAIN jobs /\ jobs[j] \in Job /\ HeldBy(task[w])
  BY <1>1, AtWork DEF Save, HInv
<1>5. jobs' = [jobs EXCEPT ![j].kb = s] /\ UNCHANGED overlapped
  BY <1>1, <1>2 DEF Save, bounds
<1>6. task' = [task EXCEPT ![w] = t]
  BY <1>1, <1>2, <1>3 DEF Save, ThirdTransaction
<1>7. t.pc = "graph" /\ t.job = j /\ t.kb = k /\ t.oldKb = k /\ t.oldGraph = task[w].oldGraph
  BY <1>3 DEF IdleTask
<1>8. /\ DOMAIN jobs' = DOMAIN jobs
      /\ \A i \in DOMAIN jobs : i # j => jobs'[i] = jobs[i]
      /\ jobs'[j] = [jobs[j] EXCEPT !.kb = s]
  BY <1>4, <1>5 DEF RInv, TypeOK, RegistryTypeOK
<1>9. jobs'[j].kb = s /\ jobs'[j].status = jobs[j].status /\ jobs'[j].graph = jobs[j].graph
  BY <1>4, <1>8 DEF Job
<1>10. ASSUME j \notin overlapped
       PROVE  /\ jobs[j].status = "syncing" /\ k \in Results /\ s = k
              /\ task[w].oldGraph \in {None, jobs[j].graph}
  BY <1>1, <1>2, <1>4, <1>10, ResultsAreWritten DEF HeldBy
<1>11. HeldBy(t)'
  BY <1>5, <1>7, <1>9, <1>10 DEF HeldBy
<1> QED
  BY <1>1, <1>4, <1>5, <1>6, <1>7, <1>8, <1>11, GoesOn

\* A task whose record was refused is going to write "failed" whatever is there.
LEMMA SaveConflictsHolds ==
    ASSUME RInv, HInv, NEW w \in Workers, SaveConflicts(w)
    PROVE  HInv'
<1>1. PICK t : t = [IdleTask EXCEPT !.pc = "graph", !.job = task[w].job, !.kb = "failed",
                                   !.oldKb = None, !.oldGraph = jobs[task[w].job].graph]
  OBVIOUS
<1>2. task[w].pc = "save" /\ HeldBy(task[w])
  BY DEF SaveConflicts, HInv
<1>3. task' = [task EXCEPT ![w] = t] /\ UNCHANGED <<jobs, overlapped>>
  BY <1>1 DEF SaveConflicts, ThirdTransaction, registry, bounds
<1>4. /\ t.pc = "graph" /\ t.job = task[w].job /\ t.kb = "failed" /\ t.oldKb = None
      /\ t.oldGraph = jobs[task[w].job].graph
  BY <1>1 DEF IdleTask
<1>5. HeldBy(t)
  BY <1>2, <1>4 DEF HeldBy, Results, SyncStatuses
<1> QED
  BY <1>2, <1>3, <1>4, <1>5, GoesOnQuietly

\* Steps before the result of Neo4j is saved.
LEMMA GraphHolds ==
    ASSUME RInv, HInv, NEW w \in Workers,
           SkipGraph(w) \/ WriteGraph(w) \/ GraphFails(w) \/ LookupGraphRecord(w)
    PROVE  HInv'
<1>1. task[w] \in Task /\ task[w].pc \in {"graph", "lookup"} /\ HeldBy(task[w])
  BY AtWork DEF SkipGraph, WriteGraph, GraphFails, LookupGraphRecord, HInv
<1>2. UNCHANGED <<jobs, overlapped>>
  BY DEF SkipGraph, WriteGraph, GraphFails, LookupGraphRecord, registry, bounds
<1>3. task \in [Workers -> Task]
  BY DEF RInv, TypeOK
<1>4. CASE LookupGraphRecord(w)
  <2>0. PICK b : b = (GraphRecord(w) # None)
    OBVIOUS
  <2>1. PICK t : t = [task[w] EXCEPT !.pc = "saveGraph", !.found = b]
    OBVIOUS
  <2>2. task' = [task EXCEPT ![w] = t]
    BY <1>3, <1>4, <2>0, <2>1 DEF LookupGraphRecord
  <2>3. /\ t.pc = "saveGraph" /\ t.job = task[w].job /\ t.kb = task[w].kb
        /\ t.graph = task[w].graph /\ t.oldKb = task[w].oldKb
        /\ t.oldGraph = task[w].oldGraph
    BY <1>1, <2>1 DEF Task
  <2>4. HeldBy(t)
    BY <1>1, <1>4, <2>3 DEF HeldBy, LookupGraphRecord
  <2> QED
    BY <1>1, <1>2, <2>2, <2>3, <2>4, GoesOnQuietly
<1>5. CASE SkipGraph(w) \/ WriteGraph(w) \/ GraphFails(w)
  <2>0. PICK v : v = LatestVersion(Paper(w)).hash
    OBVIOUS
  <2>1. PICK g \in Results, l \in {"lookup", "saveGraph"} :
          task' = [task EXCEPT ![w].pc = l, ![w].version = v, ![w].graph = g]
    <3>1. CASE SkipGraph(w)
      <4>1. PICK g \in {"skipped", "disabled"} :
              task' = [task EXCEPT ![w].pc = "saveGraph", ![w].version = v, ![w].graph = g]
        BY <2>0, <3>1 DEF SkipGraph
      <4> QED
        BY <4>1 DEF Results, SyncStatuses
    <3>2. CASE WriteGraph(w)
      <4>1. task' = [task EXCEPT ![w].pc = "lookup", ![w].version = v, ![w].graph = "completed"]
        BY <2>0, <3>2 DEF WriteGraph
      <4> QED
        BY <4>1 DEF Results, SyncStatuses
    <3>3. CASE GraphFails(w)
      <4>1. task' = [task EXCEPT ![w].pc = "lookup", ![w].version = v, ![w].graph = "failed"]
        BY <2>0, <3>3 DEF GraphFails
      <4> QED
        BY <4>1 DEF Results, SyncStatuses
    <3> QED
      BY <1>5, <3>1, <3>2, <3>3
  <2>2. PICK t : t = [task[w] EXCEPT !.pc = l, !.version = v, !.graph = g]
    OBVIOUS
  <2>3. task' = [task EXCEPT ![w] = t]
    BY <1>3, <2>1, <2>2
  <2>4. /\ t.pc = l /\ t.job = task[w].job /\ t.kb = task[w].kb /\ t.graph = g
        /\ t.oldKb = task[w].oldKb /\ t.oldGraph = task[w].oldGraph
    BY <1>1, <2>2 DEF Task
  <2>5. task[w].pc = "graph"
    BY <1>5 DEF SkipGraph, WriteGraph, GraphFails
  <2>6. HeldBy(t)
    BY <1>1, <2>1, <2>4, <2>5 DEF HeldBy
  <2>7. t.pc # "idle"
    BY <2>4
  <2> QED
    BY <1>1, <1>2, <2>3, <2>4, <2>6, <2>7, GoesOnQuietly
<1> QED
  BY <1>4, <1>5

\* The job tells what became of its graph, and of its documents if it did not yet.
LEMMA SaveGraphHolds ==
    ASSUME RInv, HInv, NEW w \in Workers, SaveGraph(w)
    PROVE  HInv'
<1>1. PICK j : j = task[w].job
  OBVIOUS
<1>2. PICK k, s, g, r :
        k = task[w].kb /\ s = SavedKb(w) /\ g = task[w].graph /\ r = SavedGraph(w)
  OBVIOUS
<1>3. PICK t : t = [IdleTask EXCEPT !.pc = "finish", !.job = j, !.kb = k, !.graph = g]
  OBVIOUS
<1>4. /\ task[w].pc = "saveGraph" /\ j \in DOMAIN jobs
      /\ jobs[j] \in Job /\ HeldBy(task[w])
  BY <1>1, AtWork DEF SaveGraph, HInv
<1>5. jobs' = [jobs EXCEPT ![j].kb = s, ![j].graph = r] /\ UNCHANGED overlapped
  BY <1>1, <1>2 DEF SaveGraph, bounds
<1>6. task' = [task EXCEPT ![w] = t]
  BY <1>1, <1>2, <1>3 DEF SaveGraph
<1>7. t.pc = "finish" /\ t.job = j /\ t.kb = k /\ t.graph = g
  BY <1>3 DEF IdleTask
<1>8. /\ DOMAIN jobs' = DOMAIN jobs
      /\ \A i \in DOMAIN jobs : i # j => jobs'[i] = jobs[i]
      /\ jobs'[j] = [jobs[j] EXCEPT !.kb = s, !.graph = r]
  BY <1>4, <1>5 DEF RInv, TypeOK, RegistryTypeOK
<1>9. jobs'[j].graph = r /\ jobs'[j].kb = s /\ jobs'[j].status = jobs[j].status
  BY <1>4, <1>8 DEF Job
<1>10. ASSUME j \notin overlapped
       PROVE  /\ jobs[j].status = "syncing" /\ g \in Results /\ k \in Results
              /\ s = k /\ r = g
  BY <1>1, <1>2, <1>4, <1>10, ResultsAreWritten DEF HeldBy
<1>11. HeldBy(t)'
  BY <1>5, <1>7, <1>9, <1>10 DEF HeldBy
<1> QED
  BY <1>1, <1>4, <1>5, <1>6, <1>7, <1>8, <1>11, GoesOn

\* The status sums up the two results.
LEMMA StatusSums ==
    ASSUME NEW k \in Results, NEW g \in Results
    PROVE  /\ FinalStatus(k, g) = "completed" <=> "failed" \notin {k, g}
           /\ FinalStatus(k, g) = "failed" <=> {k, g} = {"failed"}
<1>1. CASE k = "failed" /\ g = "failed"
  BY <1>1 DEF FinalStatus
<1>2. CASE k = "failed" /\ g # "failed"
  BY <1>2 DEF FinalStatus, Results, SyncStatuses
<1>3. CASE k # "failed" /\ g = "failed"
  BY <1>3 DEF FinalStatus, Results, SyncStatuses
<1>4. CASE k # "failed" /\ g # "failed"
  BY <1>4 DEF FinalStatus, Results, SyncStatuses
<1> QED
  BY <1>1, <1>2, <1>3, <1>4

\* A worker leaves its job, to the queue or to nobody, with its status written
\* when all results were in, or still "syncing".
LEMMA EndHolds ==
    ASSUME RInv, HInv, NEW w \in Workers, Finish(w) \/ Raise(w) \/ Die(w)
    PROVE  HInv'
<1>1. PICK j : j = task[w].job
  OBVIOUS
<1>2. PICK s : s = FinalStatus(task[w].kb, task[w].graph)
  OBVIOUS
<1>3. task[w].pc # "idle" /\ task' = [task EXCEPT ![w] = IdleTask] /\ UNCHANGED overlapped
  BY DEF Finish, Raise, Die, bounds
<1>5. \/ jobs' = jobs
      \/ task[w].pc = "finish" /\ jobs' = [jobs EXCEPT ![j].status = s]
  <2>1. \/ jobs' = jobs
        \/ task[w].pc = "finish" /\ SaveStatus(w)
    BY DEF Finish, Raise, Die
  <2>2. SaveStatus(w) => jobs' = [jobs EXCEPT ![j].status = s]
    BY <1>1, <1>2 DEF SaveStatus
  <2> QED
    BY <2>1, <2>2
<1>6. task'[w].pc = "idle" /\ \A x \in Workers \ {w} : task'[x] = task[x]
  BY <1>3, IdleTyped DEF RInv, TypeOK
<1>7. j \in DOMAIN jobs /\ jobs[j] \in Job /\ HeldBy(task[w])
  BY <1>1, <1>3, AtWork DEF HInv
<1>8. Apart'
  BY <1>3, <1>6 DEF HInv, Apart
<1>9. /\ DOMAIN jobs' = DOMAIN jobs
      /\ \A i \in DOMAIN jobs : i # j => jobs'[i] = jobs[i]
      /\ jobs' = jobs \/ jobs'[j] = [jobs[j] EXCEPT !.status = s]
  BY <1>5, <1>7 DEF RInv, TypeOK, RegistryTypeOK
<1>10. \A x \in Workers : HeldBy(task[x])'
  BY <1>1, <1>3, <1>6, <1>9, OthersHold DEF HeldBy
<1>11. Honest(j)'
  <2>1. CASE jobs' = jobs
    BY <1>3, <1>7, <2>1 DEF HInv, Honest, SumsUp
  <2>2. CASE jobs' # jobs /\ j \notin overlapped
    <3>1. task[w].pc = "finish" /\ jobs'[j] = [jobs[j] EXCEPT !.status = s]
      BY <1>5, <1>9, <2>2
    <3>2. jobs'[j].status = s /\ jobs'[j].kb = jobs[j].kb /\ jobs'[j].graph = jobs[j].graph
      BY <1>7, <3>1 DEF Job
    <3>3. /\ task[w].kb \in Results /\ task[w].graph \in Results
          /\ jobs[j].kb = task[w].kb /\ jobs[j].graph = task[w].graph
      BY <1>1, <1>7, <2>2, <3>1 DEF HeldBy
    <3>4. /\ s = "completed" <=> "failed" \notin {jobs[j].kb, jobs[j].graph}
          /\ s = "failed" <=> {jobs[j].kb, jobs[j].graph} = {"failed"}
      BY <1>2, <3>3, StatusSums
    <3> QED
      BY <3>2, <3>4 DEF Honest, SumsUp
  <2>3. CASE j \in overlapped
    BY <1>3, <2>3 DEF Honest
  <2> QED
    BY <2>1, <2>2, <2>3
<1>12. ASSUME NEW i \in DOMAIN jobs, i # j PROVE Honest(i)'
  <2>1. jobs'[i] = jobs[i] /\ Honest(i)
    BY <1>9, <1>12 DEF HInv
  <2> QED
    BY <1>3, <2>1 DEF Honest, SumsUp
<1>13. \A i \in DOMAIN jobs' : Honest(i)'
  BY <1>9, <1>11, <1>12
<1> QED
  BY <1>8, <1>10, <1>13 DEF HInv

-----------------------------------------------------------------------------
(* The steps of requests.                                                  *)

\* A step that adds a job, which no task is at work on.
LEMMA CommitHolds ==
    ASSUME RInv, HInv, NEW e \in Job, jobs' = Append(jobs, e),
           NEW n, n = Len(jobs'), Honest(n)', UNCHANGED <<task, overlapped>>
    PROVE  HInv'
<1>1. /\ DOMAIN jobs' = DOMAIN jobs \cup {n} /\ n \notin DOMAIN jobs
      /\ \A j \in DOMAIN jobs : jobs'[j] = jobs[j]
  BY Appended DEF RInv, TypeOK, RegistryTypeOK
<1>2. Apart'
  BY DEF HInv, Apart
<1>3. ASSUME NEW w \in Workers, task[w].pc # "idle" PROVE HeldBy(task[w])'
  <2>1. jobs'[task[w].job] = jobs[task[w].job] /\ HeldBy(task[w])
    BY <1>1, <1>3, AtWork DEF HInv
  <2> QED
    BY <2>1 DEF HeldBy
<1>4. \A w \in Workers : HeldBy(task[w])'
  BY <1>3 DEF HeldBy
<1>5. ASSUME NEW j \in DOMAIN jobs PROVE Honest(j)'
  <2>1. jobs'[j] = jobs[j] /\ Honest(j)
    BY <1>1 DEF HInv
  <2> QED
    BY <2>1 DEF Honest, SumsUp
<1>6. \A j \in DOMAIN jobs' : Honest(j)'
  BY <1>1, <1>5
<1> QED
  BY <1>2, <1>4, <1>6 DEF HInv

\* Registration adds jobs that are not done, or are only there to be answered.
LEMMA RegistryHolds ==
    ASSUME RInv, HInv, RegistryNext, UNCHANGED <<task, tables, external, bounds>>
    PROVE  HInv'
<1>1. PICK r \in Requests :
        (\E p \in Papers, h \in Contents : Submit(r, p, h)) \/ Handle(r)
  BY DEF RegistryNext
<1>2. UNCHANGED <<task, overlapped>>
  BY DEF bounds
<1>3. CASE CommitFresh(r)
  <2>1. PICK n : n = Len(jobs')
    OBVIOUS
  <2>2. PICK e : e = FreshJob(r)
    OBVIOUS
  <2>3. e \in Job /\ jobs' = Append(jobs, e)
    BY <1>3, <2>2, FreshJobTyped DEF CommitFresh
  <2>4. jobs'[n] = e
    BY <2>1, <2>3, Appended DEF RInv, TypeOK, RegistryTypeOK
  <2>5. e.status = "received"
    BY <2>2 DEF FreshJob
  <2>6. Honest(n)'
    BY <2>4, <2>5 DEF Honest
  <2> QED
    BY <1>2, <2>1, <2>3, <2>6, CommitHolds
<1>4. CASE CommitExisting(r)
  <2>1. PICK n : n = Len(jobs')
    OBVIOUS
  <2>2. PICK e : e = RepeatedJob(r)
    OBVIOUS
  <2>3. e \in Job /\ e.dedup = "existing" /\ jobs' = Append(jobs, e)
    BY <1>4, <2>2, RepeatedJobTyped DEF CommitExisting
  <2>4. jobs'[n] = e
    BY <2>1, <2>3, Appended DEF RInv, TypeOK, RegistryTypeOK
  <2>5. Honest(n)'
    BY <2>3, <2>4 DEF Honest
  <2> QED
    BY <1>2, <2>1, <2>3, <2>5, CommitHolds
<1>5. CASE ~CommitFresh(r) /\ ~CommitExisting(r)
  <2>1. UNCHANGED jobs
    BY <1>1, <1>5 DEF Handle, Submit, Register, Conflict, Dispatch, DispatchFails
  <2> QED
    BY <1>2, <2>1, NothingHappens
<1> QED
  BY <1>3, <1>4, <1>5

-----------------------------------------------------------------------------
(* The invariant and what it shows.                                        *)

LEMMA HInitially == SyncInit => HInv
<1> SUFFICES ASSUME SyncInit PROVE HInv
  OBVIOUS
<1>1. \A w \in Workers : task[w].pc = "idle"
  BY IdleTyped DEF SyncInit
<1>2. DOMAIN jobs = {}
  BY DEF SyncInit, Init
<1> QED
  BY <1>1, <1>2 DEF HInv, Apart, HeldBy

LEMMA HStep == RInv /\ HInv /\ [Next]_vars => HInv'
<1> SUFFICES ASSUME RInv, HInv, [Next]_vars PROVE HInv'
  OBVIOUS
<1>1. CASE RegistryNext /\ UNCHANGED <<task, tables, external, bounds>>
  BY <1>1, RegistryHolds
<1>2. ASSUME NEW w \in Workers, Work(w) \/ Die(w) PROVE HInv'
  BY <1>2, TakeHolds, DifyHolds, SaveHolds, SaveConflictsHolds, GraphHolds,
     SaveGraphHolds, EndHolds
  DEF Work
<1>3. ASSUME NEW w \in Workers, Redeliver(w) PROVE HInv'
  BY <1>3, NothingHappens DEF Redeliver
<1>4. CASE UNCHANGED vars
  BY <1>4, NothingHappens DEF vars, registry, bounds
<1> QED
  BY <1>1, <1>2, <1>3, <1>4 DEF Next, Retry, Quiescent

\* Whatever calls fail, records conflict, workers die and messages are delivered
\* again, the row of a job follows the one task that is at work on it; of a job
\* that two tasks have been working on at once nothing is claimed.
THEOREM RowsFollowTasks == Spec => []HInv
<1>1. SyncInit => HInv
  BY HInitially
<1>2. RInv /\ HInv /\ [Next]_vars => HInv'
  BY HStep
<1> QED
  BY <1>1, <1>2, RegistrationInvariant, PTL DEF Spec

\* A job that is over is completed only if nothing failed, failed only if nothing
\* succeeded, and partial_success otherwise, unless two tasks have been working
\* on it at once.
THEOREM StatusesAreHonest == Spec => []StatusHonest
<1>1. HInv => StatusHonest
  BY DEF HInv, Honest, StatusHonest, Over
<1> QED
  BY <1>1, RowsFollowTasks, PTL

-----------------------------------------------------------------------------
(* No job is forgotten.                                                    *)

\* A 202 names a job that is there.
Answered == \A r \in Requests : req[r].answer = "202" => req[r].job \in DOMAIN jobs

NInv == Answered /\ NoneForgotten

\* Tasks that are at work go on with their jobs.
GoOn ==
    \A x \in Workers :
        task[x].pc # "idle" => task'[x].pc # "idle" /\ task'[x].job = task[x].job

\* A step that answers nobody, and leaves a job on its way, over or as it was.
LEMMA NobodyForgotten ==
    ASSUME NInv, UNCHANGED req, DOMAIN jobs' = DOMAIN jobs, deaths' = 0 => deaths = 0,
           \A j \in DOMAIN jobs :
               \/ jobs'[j].status \notin {"received", "syncing"}
               \/ Underway(j)'
               \/ jobs'[j].status = jobs[j].status /\ ~Underway(j)
    PROVE  NInv'
BY DEF NInv, Answered, NoneForgotten

\* Such as one of a worker that goes on, or a message that comes again.
LEMMA OnTheirWay ==
    ASSUME NInv, UNCHANGED <<req, deaths>>, DOMAIN jobs' = DOMAIN jobs, GoOn,
           queue \subseteq queue',
           \A j \in DOMAIN jobs : jobs'[j].status = jobs[j].status
    PROVE  NInv'
<1>1. \A j \in DOMAIN jobs : Underway(j) => Underway(j)'
  BY DEF Underway, GoOn
<1> QED
  BY <1>1, NobodyForgotten

\* The job that leaves the queue has a task.
LEMMA TakeForgetsNone ==
    ASSUME RInv, NInv, NEW w \in Workers, Take(w)
    PROVE  NInv'
<1>1. PICK j \in queue :
        /\ queue' = queue \ {j}
        /\ jobs' = [jobs EXCEPT ![j].status = "syncing"]
        /\ task' = [task EXCEPT ![w] = [IdleTask EXCEPT !.pc = "read", !.job = j,
                                                        !.oldKb = jobs[j].kb,
                                                        !.oldGraph = jobs[j].graph]]
  BY DEF Take
<1>2. task'[w].pc = "read" /\ task'[w].job = j
  BY <1>1 DEF IdleTask, RInv, TypeOK
<1>3. \A x \in Workers \ {w} : task'[x] = task[x]
  BY <1>1 DEF RInv, TypeOK
<1>4. task[w].pc = "idle" /\ UNCHANGED <<req, deaths>>
  BY DEF Take
<1>5. Underway(j)'
  BY <1>2 DEF Underway
<1>6. DOMAIN jobs' = DOMAIN jobs /\ \A i \in DOMAIN jobs : i # j => jobs'[i] = jobs[i]
  BY <1>1 DEF RInv, TypeOK, RegistryTypeOK
<1>7. ASSUME NEW i \in DOMAIN jobs, i # j, Underway(i) PROVE Underway(i)'
  BY <1>1, <1>3, <1>4, <1>7 DEF Underway
<1> QED
  BY <1>4, <1>5, <1>6, <1>7, NobodyForgotten

\* A task that goes on keeps its job.
LEMMA StepsForgetNone ==
    ASSUME RInv, NInv, NEW w \in Workers,
           \/ ReadVersion(w) \/ SkipDify(w) \/ CallDify(w) \/ DifyFails(w)
           \/ Save(w) \/ SaveConflicts(w) \/ SkipGraph(w) \/ WriteGraph(w)
           \/ GraphFails(w) \/ LookupGraphRecord(w) \/ SaveGraph(w)
    PROVE  NInv'
<1>1. task \in [Workers -> Task] /\ task[w] \in Task
  BY DEF RInv, TypeOK
<1>2. UNCHANGED <<req, queue, deaths>>
  BY DEF ReadVersion, SkipDify, CallDify, DifyFails, Save, SaveConflicts, SkipGraph,
         WriteGraph, GraphFails, LookupGraphRecord, SaveGraph, registry, bounds
<1>3. /\ \A x \in Workers \ {w} : task'[x] = task[x]
      /\ task[w].pc # "idle"
      /\ task'[w].pc # "idle" /\ task'[w].job = task[w].job
  <2>1. CASE ReadVersion(w)
    <3>1. PICK v, x : v = LatestVersion(Paper(w)).hash /\ x = records[Paper(w)]
      OBVIOUS
    <3>2. task' = [task EXCEPT ![w].pc = "dify", ![w].version = v, ![w].record = x]
      BY <2>1, <3>1 DEF ReadVersion
    <3> QED
      BY <1>1, <2>1, <3>2 DEF ReadVersion, Task
  <2>2. CASE SkipDify(w)
    <3>1. PICK k : task' = [task EXCEPT ![w].pc = "save", ![w].kb = k]
      BY <2>2 DEF SkipDify
    <3> QED
      BY <1>1, <2>2, <3>1 DEF SkipDify, Task
  <2>3. CASE CallDify(w)
    <3>1. PICK d : task' = [task EXCEPT ![w].pc = "save", ![w].document = d,
                                        ![w].kb = "completed"]
      BY <2>3 DEF CallDify
    <3> QED
      BY <1>1, <2>3, <3>1 DEF CallDify, Task
  <2>4. CASE DifyFails(w)
    BY <1>1, <2>4 DEF DifyFails, Task
  <2>5. CASE Save(w) \/ SaveConflicts(w)
    <3>1. PICK result, committed : ThirdTransaction(w, result, committed)
      BY <2>5 DEF Save, SaveConflicts
    <3>2. PICK k, g :
            task' = [task EXCEPT ![w] =
                       [IdleTask EXCEPT !.pc = "graph", !.job = task[w].job,
                                        !.kb = result, !.oldKb = k, !.oldGraph = g]]
      BY <3>1 DEF ThirdTransaction
    <3>3. PICK t : t = [IdleTask EXCEPT !.pc = "graph", !.job = task[w].job,
                                        !.kb = result, !.oldKb = k, !.oldGraph = g]
      OBVIOUS
    <3>4. /\ task' = [task EXCEPT ![w] = t]
          /\ t.pc = "graph" /\ t.job = task[w].job
      BY <3>2, <3>3 DEF IdleTask
    <3> QED
      BY <1>1, <2>5, <3>4 DEF Save, SaveConflicts
  <2>6. CASE SkipGraph(w) \/ WriteGraph(w) \/ GraphFails(w) \/ LookupGraphRecord(w)
    BY <1>1, <2>6 DEF SkipGraph, WriteGraph, GraphFails, LookupGraphRecord, Task
  <2>7. CASE SaveGraph(w)
    BY <1>1, <2>7 DEF SaveGraph, IdleTask
  <2> QED
    BY <2>1, <2>2, <2>5, <2>6, <2>7, <2>3, <2>4
<1>4. /\ DOMAIN jobs' = DOMAIN jobs
      /\ \A j \in DOMAIN jobs : jobs'[j].status = jobs[j].status
  <2>1. jobs \in Seq(Job) /\ \A j \in DOMAIN jobs : jobs[j] \in Job
    BY DEF RInv, TypeOK, RegistryTypeOK
  <2>2. CASE Save(w)
    <3>1. PICK s : s = SavedKb(w)
      OBVIOUS
    <3>2. jobs' = [jobs EXCEPT ![task[w].job].kb = s]
      BY <2>2, <3>1 DEF Save
    <3> QED
      BY <2>1, <3>2 DEF Job
  <2>3. CASE SaveGraph(w)
    <3>1. PICK s, g : s = SavedKb(w) /\ g = SavedGraph(w)
      OBVIOUS
    <3>2. jobs' = [jobs EXCEPT ![task[w].job].kb = s, ![task[w].job].graph = g]
      BY <2>3, <3>1 DEF SaveGraph
    <3> QED
      BY <2>1, <3>2 DEF Job
  <2>4. CASE ~Save(w) /\ ~SaveGraph(w)
    <3>1. UNCHANGED jobs
      BY <2>4 DEF ReadVersion, SkipDify, CallDify, DifyFails, SaveConflicts, SkipGraph,
                  WriteGraph, GraphFails, LookupGraphRecord, registry
    <3> QED
      BY <3>1
  <2> QED
    BY <2>2, <2>3, <2>4
<1>5. GoOn
  BY <1>3 DEF GoOn
<1> QED
  BY <1>2, <1>4, <1>5, OnTheirWay

\* A task that ends has written a final status, or has its message back.
LEMMA EndForgetsNone ==
    ASSUME RInv, NInv, NEW w \in Workers, Finish(w) \/ Raise(w)
    PROVE  NInv'
<1>1. PICK j, s : j = task[w].job /\ s = FinalStatus(task[w].kb, task[w].graph)
  OBVIOUS
<1>2. /\ task[w].pc # "idle" /\ task' = [task EXCEPT ![w] = IdleTask]
      /\ UNCHANGED <<req, deaths>> /\ queue \subseteq queue'
  BY DEF Finish, Raise, bounds
<1>3. \A x \in Workers \ {w} : task'[x] = task[x]
  BY <1>2 DEF RInv, TypeOK
<1>4. j \in DOMAIN jobs
  BY <1>1, <1>2, AtWork
<1>5. \/ jobs' = jobs /\ j \in queue'
      \/ jobs' = [jobs EXCEPT ![j].status = s]
  BY <1>1 DEF Finish, Raise, SaveStatus
<1>6. s \notin {"received", "syncing"}
  BY <1>1 DEF FinalStatus
<1>7. /\ DOMAIN jobs' = DOMAIN jobs
      /\ \A i \in DOMAIN jobs : i # j => jobs'[i] = jobs[i]
      /\ jobs'[j].status = s \/ j \in queue'
  <2>1. jobs \in Seq(Job) /\ jobs[j] \in Job
    BY <1>4 DEF RInv, TypeOK, RegistryTypeOK
  <2>2. CASE jobs' = jobs /\ j \in queue'
    BY <2>2
  <2>3. CASE jobs' = [jobs EXCEPT ![j].status = s]
    BY <1>4, <2>1, <2>3 DEF Job
  <2> QED
    BY <1>5, <2>2, <2>3
<1>8. ASSUME NEW i \in DOMAIN jobs, i # j, Underway(i) PROVE Underway(i)'
  BY <1>1, <1>2, <1>3, <1>8 DEF Underway
<1>9. j \in queue' => Underway(j)'
  BY DEF Underway
<1> QED
  BY <1>2, <1>6, <1>7, <1>8, <1>9, NobodyForgotten

\* A death is not spoken of.
LEMMA DeathsForgive ==
    ASSUME RInv, NInv, NEW w \in Workers, Die(w)
    PROVE  NInv'
<1>1. deaths \in Nat /\ deaths' = deaths + 1 /\ UNCHANGED req
  BY DEF Die, RInv, TypeOK
<1>2. SameJobs
  BY DieStep DEF WorkerStep
<1>3. deaths' # 0
  BY <1>1
<1> QED
  BY <1>1, <1>2, <1>3 DEF NInv, Answered, NoneForgotten, SameJobs

\* A new job that was not answered yet, or only repeats another, is nobody's.
LEMMA CommitForgetsNone ==
    ASSUME RInv, NInv, NEW r \in Requests, CommitFresh(r) \/ CommitExisting(r),
           UNCHANGED <<task, deaths>>
    PROVE  NInv'
<1>1. PICK n : n = Len(jobs')
  OBVIOUS
<1>2. PICK e \in Job :
        /\ jobs' = Append(jobs, e)
        /\ \/ e.status = "received" /\ CommitFresh(r)
           \/ e.status = "completed"
  <2>1. CASE CommitFresh(r)
    BY <2>1, FreshJobTyped DEF CommitFresh, FreshJob
  <2>2. CASE CommitExisting(r)
    BY <2>2, RepeatedJobTyped DEF CommitExisting, RepeatedJob
  <2> QED
    BY <2>1, <2>2
<1>3. /\ DOMAIN jobs' = DOMAIN jobs \cup {n} /\ n \notin DOMAIN jobs
      /\ jobs'[n] = e /\ \A j \in DOMAIN jobs : jobs'[j] = jobs[j]
  BY <1>1, <1>2, Appended DEF RInv, TypeOK, RegistryTypeOK
<1>4. req[r].pc = "commit" /\ req[r].answer = "none" /\ UNCHANGED queue
  BY DEF CommitFresh, CommitExisting, RInv, Begun
<1>5. /\ \A s \in Requests \ {r} : req'[s] = req[s]
      /\ req'[r].job = n
      /\ CommitFresh(r) => req'[r].answer = "none"
  <2>1. req \in [Requests -> Request] /\ req[r] \in Request
    BY DEF RInv, TypeOK, RegistryTypeOK
  <2>2. CASE CommitFresh(r)
    BY <1>1, <1>4, <2>1, <2>2 DEF CommitFresh, Request
  <2>3. CASE CommitExisting(r)
    BY <1>1, <1>4, <2>1, <2>3 DEF CommitExisting, CommitFresh, Request
  <2> QED
    BY <2>2, <2>3
<1>6. \A j : Underway(j) => Underway(j)'
  BY <1>4 DEF Underway
<1>7. Answered'
  BY <1>3, <1>5 DEF NInv, Answered
<1>8. e.status = "received" => \A s \in Requests : req'[s].answer = "202" => req'[s].job # n
  BY <1>2, <1>3, <1>5 DEF NInv, Answered
<1>9. ASSUME deaths' = 0, NEW j \in DOMAIN jobs',
             \/ jobs'[j].status = "syncing"
             \/ jobs'[j].status = "received"
                /\ \E s \in Requests : req'[s].job = j /\ req'[s].answer = "202"
      PROVE  Underway(j)'
  <2>1. j # n
    BY <1>2, <1>3, <1>8, <1>9
  <2>2. j \in DOMAIN jobs /\ jobs'[j] = jobs[j]
    BY <1>3, <2>1
  <2>3. \A s \in Requests : req'[s].job = j => req'[s] = req[s]
    BY <1>5, <2>1
  <2> QED
    BY <1>6, <1>9, <2>2, <2>3 DEF NInv, NoneForgotten
<1> QED
  BY <1>7, <1>9 DEF NInv, NoneForgotten

\* The job of a 202 waits in the queue; other steps of requests answer otherwise.
LEMMA AnswersForgetNone ==
    ASSUME RInv, NInv, NEW r \in Requests, UNCHANGED <<task, deaths>>,
           \/ \E p \in Papers, h \in Contents : Submit(r, p, h)
           \/ Register(r) \/ Conflict(r) \/ Dispatch(r) \/ DispatchFails(r)
    PROVE  NInv'
<1>1. /\ req \in [Requests -> Request] /\ req[r] \in Request
      /\ req[r].pc # "done" => req[r].answer = "none"
      /\ req[r].pc = "dispatch" => req[r].job \in DOMAIN jobs
  BY DEF RInv, TypeOK, RegistryTypeOK, Begun
<1>2. UNCHANGED jobs /\ queue \subseteq queue' /\ \A s \in Requests \ {r} : req'[s] = req[s]
  BY <1>1 DEF Submit, Register, Conflict, Dispatch, DispatchFails
<1>3. req'[r].answer = "202" => req'[r].job \in DOMAIN jobs /\ req'[r].job \in queue'
  <2>1. CASE \E p \in Papers, h \in Contents : Submit(r, p, h)
    <3>1. PICK p \in Papers, h \in Contents : Submit(r, p, h)
      BY <2>1
    <3> QED
      BY <1>1, <3>1 DEF Submit, Request
  <2>2. CASE Register(r)
    BY <1>1, <2>2 DEF Register, Request
  <2>3. CASE Conflict(r)
    BY <1>1, <2>3 DEF Conflict, Request
  <2>4. CASE Dispatch(r)
    BY <1>1, <2>4 DEF Dispatch, Request
  <2>5. CASE DispatchFails(r)
    BY <1>1, <2>5 DEF DispatchFails, Request
  <2> QED
    BY <2>1, <2>2, <2>3, <2>4, <2>5
<1>4. \A j : Underway(j) => Underway(j)'
  BY <1>2 DEF Underway
<1>5. Answered'
  BY <1>2, <1>3 DEF NInv, Answered
<1>6. ASSUME deaths' = 0, NEW j \in DOMAIN jobs',
             \/ jobs'[j].status = "syncing"
             \/ jobs'[j].status = "received"
                /\ \E s \in Requests : req'[s].job = j /\ req'[s].answer = "202"
      PROVE  Underway(j)'
  <2>1. CASE j \in queue'
    BY <2>1 DEF Underway
  <2>2. CASE j \notin queue'
    BY <1>2, <1>3, <1>4, <1>6, <2>2 DEF NInv, NoneForgotten
  <2> QED
    BY <2>1, <2>2
<1> QED
  BY <1>5, <1>6 DEF NInv, NoneForgotten

LEMMA NStep == RInv /\ NInv /\ [Next]_vars => NInv'
<1> SUFFICES ASSUME RInv, NInv, [Next]_vars PROVE NInv'
  OBVIOUS
<1>1. CASE RegistryNext /\ UNCHANGED <<task, tables, external, bounds>>
  <2>1. UNCHANGED <<task, deaths>>
    BY <1>1 DEF bounds
  <2> QED
    BY <1>1, <2>1, CommitForgetsNone, AnswersForgetNone DEF RegistryNext, Handle
<1>2. ASSUME NEW w \in Workers, Work(w) PROVE NInv'
  BY <1>2, TakeForgetsNone, StepsForgetNone, EndForgetsNone DEF Work
<1>3. ASSUME NEW w \in Workers, Die(w) PROVE NInv'
  BY <1>3, DeathsForgive
<1>4. ASSUME NEW w \in Workers, Redeliver(w) PROVE NInv'
  <2>1. UNCHANGED <<req, deaths, jobs, task>> /\ queue \subseteq queue'
    BY <1>4 DEF Redeliver
  <2> QED
    BY <2>1, OnTheirWay DEF GoOn
<1>5. CASE UNCHANGED vars
  <2>1. UNCHANGED <<req, deaths, jobs, task, queue>>
    BY <1>5 DEF vars, registry, bounds
  <2> QED
    BY <2>1, OnTheirWay DEF GoOn
<1> QED
  BY <1>1, <1>2, <1>3, <1>4, <1>5 DEF Next, Retry, Quiescent

\* While no worker has died, a job that a client was told of by a 202, or that is
\* "syncing", is over, waits in the queue or has a task: whatever calls fail,
\* records conflict and messages are delivered twice.
THEOREM NoJobIsForgotten == Spec => []NoneForgotten
<1>1. SyncInit => NInv
  BY DEF SyncInit, Init, NewRequest, NInv, Answered, NoneForgotten
<1>2. RInv /\ NInv /\ [Next]_vars => NInv'
  BY NStep
<1>3. NInv => NoneForgotten
  BY DEF NInv
<1> QED
  BY <1>1, <1>2, <1>3, RegistrationInvariant, PTL DEF Spec
=============================================================================
