------------------------ MODULE WorkflowRunnerProofs ------------------------
(***************************************************************************)
(* What holds of WorkflowRunner for any number of jobs, workers, cancel    *)
(* requests, runs and attempts: first the types, then what no interleaving *)
(* of sessions can disturb, then what holds of one worker that no cancel   *)
(* request disturbs, up to the refinement of JobLifecycle.                 *)
(***************************************************************************)
EXTENDS WorkflowRunnerAlone, TLAPS

-----------------------------------------------------------------------------
(***************************************************************************)
(* Type correctness of WorkflowRunner, for any number of jobs, workers,    *)
(* cancel requests, runs and attempts.  TypeOK alone is not inductive: an  *)
(* action edits the job in work, so the session must have loaded it, which *)
(* is what Ready says of every label.                                      *)
(***************************************************************************)

\* workflow_finished makes a job a finished job, whatever the outcome.
LEMMA FinishedTyped ==
    ASSUME NEW job \in WorkflowJob, NEW run \in Runs, NEW outcome \in DifyStates
    PROVE  /\ ApplyFinished(job, run, outcome) \in WorkflowJob
           /\ IsFinal(ApplyFinished(job, run, outcome))
  BY DEF ApplyFinished, Succeed, MarkFailed, MarkCancelled, IsFinal, WorkflowJob,
         FinalStatuses, ErrorCodes, Manifests, DifyStates, DifyFinal

\* What an event or a run detail makes of a job is again a job, and a job that
\* an event leaves unfinished still knows a run.
LEMMA ApplyTyped ==
    ASSUME NEW job \in WorkflowJob, NEW name \in EventNames,
           NEW run \in Runs, NEW outcome \in DifyStates
    PROVE  /\ ApplyEvent(job, name, run, outcome) \in WorkflowJob
           /\ ~IsFinal(ApplyEvent(job, name, run, outcome)) =>
                 ApplyEvent(job, name, run, outcome).run = run
           /\ ApplyRunDetail(job, run, outcome) \in WorkflowJob
           /\ ApplyRunDetail(job, run, outcome).run = job.run
<1> DEFINE counted == [job EXCEPT !.seen = TRUE]
<1>1. counted \in WorkflowJob
  BY DEF WorkflowJob
<1>2. /\ ApplyRunDetail(job, run, outcome) \in WorkflowJob
      /\ ApplyRunDetail(job, run, outcome).run = job.run
  BY DEF ApplyRunDetail, Succeed, MarkFailed, MarkCancelled, IsFinal,
         WorkflowJob, ActiveStatuses, FinalStatuses, ErrorCodes, Manifests,
         DifyStates, DifyFinal
<1>3. CASE name = "workflow_started"
  <2>1. ApplyEvent(job, name, run, outcome)
           = [counted EXCEPT !.status = "running", !.run = run]
    BY <1>3 DEF ApplyEvent
  <2> QED
    BY <1>1, <1>2, <2>1 DEF WorkflowJob, ActiveStatuses
<1>4. CASE name = "workflow_finished"
  <2>1. ApplyEvent(job, name, run, outcome) = ApplyFinished(counted, run, outcome)
    BY <1>4 DEF ApplyEvent
  <2> HIDE DEF counted
  <2> QED
    BY <1>1, <1>2, <2>1, FinishedTyped
<1>5. CASE name = "error"
  <2>1. ApplyEvent(job, name, run, outcome) = MarkFailed(counted, "workflow_failed")
    BY <1>5 DEF ApplyEvent
  <2> HIDE DEF counted
  <2> QED
    BY <1>1, <1>2, <2>1
       DEF MarkFailed, IsFinal, WorkflowJob, FinalStatuses, ErrorCodes, Manifests
<1> QED
  BY <1>3, <1>4, <1>5 DEF EventNames

\* So is what the other steps make of it.
LEMMA MarkTyped ==
    ASSUME NEW job \in WorkflowJob
    PROVE  /\ \A code \in ErrorCodes : MarkFailed(job, code) \in WorkflowJob
           /\ RuntimeErrorCode(job) \in ErrorCodes
           /\ MarkCancelled(job) \in WorkflowJob
           /\ \A status \in ActiveStatuses :
                 [job EXCEPT !.status = status] \in WorkflowJob
           /\ [job EXCEPT !.manifest = "uploaded", !.inputs = TRUE]
                 \in WorkflowJob
  BY ZenonT(30) DEF MarkFailed, MarkCancelled, RuntimeErrorCode, WorkflowJob,
         ActiveStatuses, FinalStatuses, ErrorCodes, Manifests

\* A flush of typed copies writes a typed row.
LEMMA FlushTyped ==
    ASSUME NEW row \in WorkflowJob, NEW loaded \in WorkflowJob,
           NEW object \in WorkflowJob
    PROVE  Flush(row, loaded, object) \in WorkflowJob
  BY DEF Flush, Column, WorkflowJob

\* The object a session sees of a job is a job.
LEMMA ObjectTyped ==
    ASSUME TypeInv, NEW s \in Sessions, NEW j \in Jobs
    PROVE  Object(s, j) \in WorkflowJob
  BY DEF TypeInv, TypeOK, Object

\* At a label that needs it, the job in work is loaded; with a run, if needed.
LEMMA CurTyped ==
    ASSUME TypeInv, NEW s \in Sessions, ctl[s].pc \in InWork
    PROVE  /\ ctl[s].cur \in Jobs
           /\ mem[s][ctl[s].cur] # None
           /\ Cur(s) = mem[s][ctl[s].cur]
           /\ Cur(s) = Object(s, ctl[s].cur)
           /\ Cur(s) \in WorkflowJob
           /\ Cur(s).run # None => Cur(s).run \in Runs
           /\ ctl[s].pc \in WithRun => Cur(s).run \in Runs
           /\ ctl[s].pc = "stream" => ctl[s].stream \in Runs
<1>1. ctl[s] \in Control /\ mem[s] \in [Jobs -> WorkflowJob \cup {None}]
  BY DEF TypeInv, TypeOK
<1>2. Ready(ctl[s].pc, ctl[s], mem[s])
  BY DEF TypeInv, SessionsOK, SessionOK
<1>3. /\ ctl[s].cur \in Jobs
      /\ mem[s][ctl[s].cur] \in WorkflowJob
      /\ mem[s][ctl[s].cur] # None
  BY <1>1, <1>2 DEF Ready, Control
<1>4. ctl[s].pc \in WithRun => mem[s][ctl[s].cur].run # None
  BY <1>2 DEF Ready
<1>5. ctl[s].pc = "stream" => ctl[s].stream \in Runs
  BY <1>1, <1>2 DEF Ready, Control
<1>6. mem[s][ctl[s].cur].run \in Runs \cup {None}
  BY <1>3 DEF WorkflowJob
<1> QED
  BY <1>3, <1>4, <1>5, <1>6 DEF Cur, Object

-----------------------------------------------------------------------------
\* A step of one session leaves the others as they are.
OnlySession(s) ==
    /\ ctl' = [ctl EXCEPT ![s] = ctl'[s]]
    /\ mem' = [mem EXCEPT ![s] = mem'[s]]
    /\ base' = [base EXCEPT ![s] = base'[s]]

\* The rest of the state keeps its types.
SharedTyped ==
    /\ db \in [Jobs -> WorkflowJob]
    /\ onDisk \in [Jobs -> BOOLEAN]
    /\ dify \in [Runs -> DifyRun]
    /\ queue \in [Messages -> Nat]
    /\ hasKey \in BOOLEAN
    /\ crashes \in Nat
    /\ redeliveries \in Nat

\* To keep TypeInv, a step of a session must leave that session in order.
LEMMA SessionStep ==
    ASSUME TypeInv, NEW s \in Sessions, OnlySession(s), SharedTyped',
           ctl'[s] \in Control,
           mem'[s] \in [Jobs -> WorkflowJob \cup {None}],
           base'[s] \in [Jobs -> WorkflowJob \cup {None}],
           SessionOK(ctl'[s], mem'[s], base'[s])
    PROVE  TypeInv'
<1>1. TypeOK'
  BY DEF TypeInv, TypeOK, OnlySession, SharedTyped
<1>2. SessionsOK'
  <2> SUFFICES ASSUME NEW t \in Sessions
               PROVE  SessionOK(ctl'[t], mem'[t], base'[t])
    BY DEF SessionsOK
  <2>1. CASE t = s
    BY <2>1
  <2>2. CASE t # s
    <3>1. ctl'[t] = ctl[t] /\ mem'[t] = mem[t] /\ base'[t] = base[t]
      BY <2>2 DEF OnlySession, TypeInv, TypeOK
    <3> QED
      BY <3>1 DEF TypeInv, SessionsOK
  <2> QED
    BY <2>1, <2>2
<1> QED
  BY <1>1, <1>2 DEF TypeInv

\* An edit gives the session a typed object for j and leaves the others.
LEMMA EditTyped ==
    ASSUME TypeInv, NEW s \in Sessions, NEW j \in Jobs,
           NEW object \in WorkflowJob, Edit(s, j, object)
    PROVE  /\ mem' = [mem EXCEPT ![s] = mem'[s]]
           /\ base' = [base EXCEPT ![s] = base'[s]]
           /\ mem'[s] \in [Jobs -> WorkflowJob \cup {None}]
           /\ base'[s] \in [Jobs -> WorkflowJob \cup {None}]
           /\ mem'[s][j] = object
           /\ \A k \in Jobs : mem'[s][k] = None <=> base'[s][k] = None
           /\ onDisk' \in [Jobs -> BOOLEAN]
<1>1. /\ mem \in [Sessions -> [Jobs -> WorkflowJob \cup {None}]]
      /\ base \in [Sessions -> [Jobs -> WorkflowJob \cup {None}]]
      /\ db \in [Jobs -> WorkflowJob]
      /\ onDisk \in [Jobs -> BOOLEAN]
  BY DEF TypeInv, TypeOK
<1>2. mem' = [mem EXCEPT ![s][j] = object]
  BY DEF Edit
<1>3. base' = [base EXCEPT ![s][j] = IF mem[s][j] = None THEN db[j] ELSE @]
  BY DEF Edit
<1>4. \A k \in Jobs : mem[s][k] = None <=> base[s][k] = None
  BY DEF TypeInv, SessionsOK, SessionOK
<1>5. None \notin WorkflowJob
  BY RunnerAssumption
<1>6. onDisk' \in [Jobs -> BOOLEAN]
  BY <1>1 DEF Edit, CleanupFiles
<1> QED
  BY <1>1, <1>2, <1>3, <1>4, <1>5, <1>6

\* A step that edits one object and moves on, and one that only moves on.
LEMMA EditStep ==
    ASSUME TypeInv, NEW s \in Sessions, NEW j \in Jobs,
           NEW object \in WorkflowJob, Edit(s, j, object),
           NEW k \in Control, ctl' = [ctl EXCEPT ![s] = k],
           k.pc \in {"next", "commit"},
           k.after \in InWork => k.cur = j,
           k.after \in WithRun => object.run # None,
           k.after = "stream" => k.stream # None,
           UNCHANGED <<db, queue, env>>, dify' \in [Runs -> DifyRun]
    PROVE  TypeInv'
<1>1. /\ mem' = [mem EXCEPT ![s] = mem'[s]]
      /\ base' = [base EXCEPT ![s] = base'[s]]
      /\ mem'[s] \in [Jobs -> WorkflowJob \cup {None}]
      /\ base'[s] \in [Jobs -> WorkflowJob \cup {None}]
      /\ mem'[s][j] = object
      /\ \A i \in Jobs : mem'[s][i] = None <=> base'[s][i] = None
      /\ onDisk' \in [Jobs -> BOOLEAN]
  BY EditTyped
<1>2. ctl'[s] = k
  BY DEF TypeInv, TypeOK
<1>3. OnlySession(s)
  BY <1>1, <1>2 DEF OnlySession
<1>4. SharedTyped'
  BY <1>1 DEF SharedTyped, TypeInv, TypeOK, env
<1>5. None \notin WorkflowJob
  BY RunnerAssumption
<1>6. None \notin Jobs
  BY RunnerAssumption
<1>7. SessionOK(ctl'[s], mem'[s], base'[s])
  BY <1>1, <1>2, <1>5, <1>6 DEF SessionOK, Ready, InWork, WithRun
<1> QED
  BY <1>1, <1>2, <1>3, <1>4, <1>7, SessionStep

\* A step that leaves the objects alone.
LEMMA MoveStep ==
    ASSUME TypeInv, NEW s \in Sessions,
           NEW k \in Control, ctl' = [ctl EXCEPT ![s] = k],
           UNCHANGED <<db, onDisk, mem, base>>, SharedTyped',
           Ready(k.pc, k, mem[s]),
           k.pc # "commit"
    PROVE  TypeInv'
<1>1. ctl'[s] = k
  BY DEF TypeInv, TypeOK
<1>2. OnlySession(s)
  BY <1>1 DEF OnlySession, TypeInv, TypeOK
<1>3. SessionOK(ctl'[s], mem'[s], base'[s])
  BY <1>1 DEF TypeInv, SessionsOK, SessionOK
<1> QED
  BY <1>1, <1>2, <1>3, SessionStep DEF TypeInv, TypeOK

\* A session that closes, or opens, holds typed objects or none.
LEMMA OpenStep ==
    ASSUME TypeInv, NEW s \in Sessions,
           NEW k \in Control, ctl' = [ctl EXCEPT ![s] = k],
           k.pc \in {"idle", "next", "done"},
           NEW m \in [Jobs -> WorkflowJob \cup {None}],
           mem' = [mem EXCEPT ![s] = m],
           base' = [base EXCEPT ![s] = m],
           SharedTyped'
    PROVE  TypeInv'
<1>1. ctl'[s] = k /\ mem'[s] = m /\ base'[s] = m
  BY DEF TypeInv, TypeOK
<1>2. OnlySession(s)
  BY <1>1 DEF OnlySession
<1>3. SessionOK(ctl'[s], mem'[s], base'[s])
  BY <1>1 DEF SessionOK, Ready, InWork, WithRun
<1> QED
  BY <1>1, <1>2, <1>3, SessionStep

\* The same for the two shapes that most actions have.
LEMMA SaveStep ==
    ASSUME TypeInv, NEW s \in Sessions, ctl[s].pc \in InWork,
           NEW object \in WorkflowJob, NEW l \in PCs,
           Save(s, ctl[s].cur, object, l),
           l \in WithRun => object.run # None,
           l = "stream" => ctl[s].stream # None,
           UNCHANGED <<db, queue, env>>, dify' \in [Runs -> DifyRun]
    PROVE  TypeInv'
<1> DEFINE k == [ctl[s] EXCEPT !.pc = "commit", !.after = l]
<1>1. ctl[s] \in Control /\ ctl \in [Sessions -> Control]
  BY DEF TypeInv, TypeOK
<1>2. ctl[s].cur \in Jobs
  BY CurTyped
<1>3. k \in Control /\ k.pc = "commit" /\ k.after = l
      /\ k.cur = ctl[s].cur /\ k.stream = ctl[s].stream
  BY <1>1 DEF Control, PCs
<1>4. ctl' = [ctl EXCEPT ![s] = k]
  BY <1>1 DEF Save, Control
<1>5. Edit(s, ctl[s].cur, object)
  BY DEF Save
<1> HIDE DEF k
<1> QED
  BY <1>2, <1>3, <1>4, <1>5, EditStep

\* The shape of an action that only moves on.
LEMMA GotoStep ==
    ASSUME TypeInv, NEW s \in Sessions, ctl[s].pc \in InWork,
           NEW l \in {"next", "handler"}, Goto(s, l),
           UNCHANGED <<db, onDisk, queue, mem, base, env>>,
           dify' \in [Runs -> DifyRun]
    PROVE  TypeInv'
<1> DEFINE k == [ctl[s] EXCEPT !.pc = l]
<1>1. ctl[s] \in Control /\ ctl \in [Sessions -> Control]
  BY DEF TypeInv, TypeOK
<1>2. k \in Control /\ k.pc = l /\ k.cur = ctl[s].cur
  BY <1>1 DEF Control, PCs
<1>3. ctl' = [ctl EXCEPT ![s] = k]
  BY <1>1 DEF Goto
<1>4. Ready(k.pc, k, mem[s])
  BY <1>2, CurTyped, RunnerAssumption DEF Ready, InWork, WithRun
<1>5. SharedTyped'
  BY DEF SharedTyped, TypeInv, TypeOK, env
<1>6. k.pc # "commit"
  BY <1>2
<1> HIDE DEF k
<1> QED
  BY <1>2, <1>3, <1>4, <1>5, <1>6, MoveStep

-----------------------------------------------------------------------------
\* A commit writes the objects of its session.
LEMMA CommitTyped ==
    ASSUME TypeInv, NEW s \in Sessions, Commit(s)
    PROVE  TypeInv'
<1> DEFINE k == [ctl[s] EXCEPT !.pc = ctl[s].after]
<1>1. /\ ctl[s] \in Control /\ ctl \in [Sessions -> Control]
      /\ mem \in [Sessions -> [Jobs -> WorkflowJob \cup {None}]]
      /\ base \in [Sessions -> [Jobs -> WorkflowJob \cup {None}]]
      /\ db \in [Jobs -> WorkflowJob]
  BY DEF TypeInv, TypeOK
<1>2. /\ ctl[s].pc = "commit"
      /\ Ready(ctl[s].after, ctl[s], mem[s])
      /\ \A j \in Jobs : mem[s][j] = None <=> base[s][j] = None
  BY DEF Commit, TypeInv, SessionsOK, SessionOK
<1>3. /\ k \in Control /\ k.pc = ctl[s].after /\ k.after = ctl[s].after
      /\ k.cur = ctl[s].cur /\ k.stream = ctl[s].stream
  BY <1>1 DEF Control
<1>4. ctl' = [ctl EXCEPT ![s] = k]
  BY <1>1 DEF Commit, Goto
<1>5. ASSUME NEW j \in Jobs
      PROVE  (IF mem[s][j] = None THEN db[j]
              ELSE Flush(db[j], base[s][j], mem[s][j])) \in WorkflowJob
  BY <1>1, <1>2, FlushTyped
<1>6. db' \in [Jobs -> WorkflowJob]
  BY <1>5 DEF Commit
<1>7. SharedTyped'
  BY <1>6 DEF SharedTyped, TypeInv, TypeOK, Commit, env
<1>8. ctl'[s] = k /\ mem'[s] = mem[s] /\ base'[s] = mem[s]
  BY <1>1, <1>4 DEF Commit
<1>9. OnlySession(s)
  BY <1>1, <1>4, <1>8 DEF OnlySession, Commit
<1>10. SessionOK(ctl'[s], mem'[s], base'[s])
  BY <1>2, <1>3, <1>8 DEF SessionOK, Ready
<1> HIDE DEF k
<1> QED
  BY <1>1, <1>3, <1>7, <1>8, <1>9, <1>10, SessionStep

\* The control of a session that is not at work.
LEMMA IdleTyped == Idle \in Control
<1>1. <<>> \in Seq(EventNames)
  OBVIOUS
<1> QED
  BY <1>1 DEF Idle, Control, PCs

\* The control of a worker that takes job j up from the control c.
Started(c, j, l, n) == [Idle EXCEPT !.pc = l, !.after = n, !.cur = j,
                                    !.msg = c.msg, !.todo = c.todo \ {j}]

LEMMA StartedTyped ==
    ASSUME NEW c \in Control, NEW j \in Jobs, NEW l \in PCs, NEW n \in PCs
    PROVE  /\ Started(c, j, l, n) \in Control
           /\ Started(c, j, l, n).pc = l
           /\ Started(c, j, l, n).after = n
           /\ Started(c, j, l, n).cur = j
<1>1. c.msg \in Messages \cup {None} /\ c.todo \ {j} \in SUBSET Jobs
  BY DEF Control
<1> QED
  BY <1>1, IdleTyped DEF Started, Control

\* Taking a message, running a job of it, and ending the task.
LEMMA TakeTyped ==
    ASSUME TypeInv, NEW w \in Workers
    PROVE  /\ \A j \in Jobs : TakeJob(w, j) => TypeInv'
           /\ TakeSweep(w) => TypeInv'
           /\ EndTask(w) => TypeInv'
<1>0. /\ w \in Sessions /\ Sweep \in Messages /\ Jobs \subseteq Messages
      /\ ctl \in [Sessions -> Control] /\ db \in [Jobs -> WorkflowJob]
      /\ queue \in [Messages -> Nat]
  BY DEF Sessions, Messages, TypeInv, TypeOK
<1>1. ASSUME NEW m \in Messages, NEW jobs \in SUBSET Jobs,
             NEW objects \in [Jobs -> WorkflowJob \cup {None}],
             TakeMessage(w, m, jobs, objects)
      PROVE  TypeInv'
  <2> DEFINE k == [Idle EXCEPT !.pc = "next", !.msg = m, !.todo = jobs]
  <2>1. k \in Control /\ k.pc = "next"
    BY <1>1, IdleTyped DEF Control, PCs
  <2>2. queue' \in [Messages -> Nat]
    BY <1>0, <1>1 DEF TakeMessage
  <2>3. SharedTyped'
    BY <1>1, <2>2 DEF TakeMessage, SharedTyped, TypeInv, TypeOK, data, env
  <2>4. /\ ctl' = [ctl EXCEPT ![w] = k]
        /\ mem' = [mem EXCEPT ![w] = objects]
        /\ base' = [base EXCEPT ![w] = objects]
    BY <1>1 DEF TakeMessage
  <2> HIDE DEF k
  <2> QED
    BY <1>0, <2>1, <2>3, <2>4, OpenStep
<1>2. Nothing \in [Jobs -> WorkflowJob \cup {None}]
  BY DEF Nothing
<1>3. ASSUME NEW j \in Jobs, TakeJob(w, j) PROVE TypeInv'
  BY <1>0, <1>1, <1>2, <1>3 DEF TakeJob
<1>4. ASSUME TakeSweep(w) PROVE TypeInv'
  <2> DEFINE active == {j \in Jobs : db[j].status \in ActiveStatuses}
             objects == [j \in Jobs |-> IF j \in active THEN db[j] ELSE None]
  <2>1. active \in SUBSET Jobs /\ objects \in [Jobs -> WorkflowJob \cup {None}]
    BY <1>0
  <2>2. TakeMessage(w, Sweep, active, objects)
    BY <1>4 DEF TakeSweep
  <2> HIDE DEF active, objects
  <2> QED
    BY <1>0, <1>1, <2>1, <2>2
<1>5. ASSUME EndTask(w) PROVE TypeInv'
  <2>1. Idle \in Control /\ Idle.pc = "idle"
    BY IdleTyped DEF Idle
  <2>2. SharedTyped'
    BY <1>5 DEF EndTask, SharedTyped, TypeInv, TypeOK, data, env
  <2> QED
    BY <1>0, <1>2, <1>5, <2>1, <2>2, OpenStep DEF EndTask, Close
<1> QED
  BY <1>3, <1>4, <1>5

\* run(job_id): every branch it may take.
LEMMA RunTyped ==
    ASSUME TypeInv, NEW w \in Workers, NEW j \in Jobs,
           \/ RunFinal(w, j) \/ RunCancelRequested(w, j) \/ RunRecover(w, j)
           \/ RunMissingKey(w, j) \/ RunUpload(w, j) \/ RunStart(w, j)
    PROVE  TypeInv'
<1> DEFINE object == Object(w, j)
<1>0. /\ w \in Sessions /\ object \in WorkflowJob
      /\ ctl \in [Sessions -> Control] /\ ctl[w] \in Control
      /\ dify \in [Runs -> DifyRun]
  BY ObjectTyped DEF Sessions, TypeInv, TypeOK
<1>1. ASSUME NEW l \in {"next", "commit"}, NEW n \in PCs,
             NEW edited \in WorkflowJob, RunJob(w, j, l, n),
             Edit(w, j, edited),
             n \in WithRun => edited.run # None, n # "stream"
      PROVE  TypeInv'
  <2> DEFINE k == Started(ctl[w], j, l, n)
  <2>0. l \in PCs
    BY DEF PCs
  <2>1. k \in Control /\ k.pc = l /\ k.after = n /\ k.cur = j
    BY <1>0, <2>0, StartedTyped
  <2>2. ctl' = [ctl EXCEPT ![w] = k] /\ UNCHANGED <<db, queue, dify, env>>
    BY <1>1 DEF RunJob, Started
  <2> HIDE DEF k
  <2> QED
    BY <1>0, <1>1, <2>1, <2>2, EditStep
<1>2. CASE RunFinal(w, j)
  <2> DEFINE k == Started(ctl[w], j, "next", "next")
  <2>0. "next" \in PCs
    BY DEF PCs
  <2>1. k \in Control /\ k.pc = "next"
    BY <1>0, <2>0, StartedTyped
  <2>2. /\ ctl' = [ctl EXCEPT ![w] = k]
        /\ UNCHANGED <<db, dify, queue, env, onDisk, mem, base>>
    BY <1>2 DEF RunFinal, RunJob, Started
  <2>3. Ready(k.pc, k, mem[w])
    BY <2>1 DEF Ready, InWork, WithRun
  <2>4. SharedTyped'
    BY <2>2 DEF SharedTyped, TypeInv, TypeOK, env
  <2> HIDE DEF k
  <2> QED
    BY <1>0, <2>1, <2>2, <2>3, <2>4, MoveStep
<1>3. CASE RunCancelRequested(w, j)
  <2>1. MarkCancelled(object) \in WorkflowJob
    BY <1>0, MarkTyped
  <2> QED
    BY <1>1, <1>3, <2>1 DEF RunCancelRequested, PCs, WithRun
<1>4. CASE RunRecover(w, j)
  <2>1. /\ [object EXCEPT !.status = "reconnecting"] \in WorkflowJob
        /\ [object EXCEPT !.status = "reconnecting"].run = object.run
    BY <1>0, MarkTyped DEF ActiveStatuses, WorkflowJob
  <2> QED
    BY <1>1, <1>4, <2>1 DEF RunRecover, PCs, WithRun
<1>5. CASE RunMissingKey(w, j)
  <2>1. MarkFailed(object, "missing_dify_workflow_api_key") \in WorkflowJob
    BY <1>0, MarkTyped DEF ErrorCodes
  <2> QED
    BY <1>1, <1>5, <2>1 DEF RunMissingKey, PCs, WithRun
<1>6. CASE RunUpload(w, j)
  <2>1. [object EXCEPT !.status = "uploading"] \in WorkflowJob
    BY <1>0, MarkTyped DEF ActiveStatuses
  <2> QED
    BY <1>1, <1>6, <2>1 DEF RunUpload, PCs, WithRun
<1>7. CASE RunStart(w, j)
  <2>1. [object EXCEPT !.status = "starting"] \in WorkflowJob
    BY <1>0, MarkTyped DEF ActiveStatuses
  <2> QED
    BY <1>1, <1>7, <2>1 DEF RunStart, PCs, WithRun
<1> QED
  BY <1>2, <1>3, <1>4, <1>5, <1>6, <1>7

-----------------------------------------------------------------------------
LEMMA CreateRunTyped ==
    ASSUME TypeInv, NEW w \in Workers, ctl[w].pc \in InWork, CreateRun(w)
    PROVE  /\ dify' \in [Runs -> DifyRun]
           /\ (CHOOSE r \in FreeRuns : TRUE) \in Runs
<1>1. FreeRuns # {} /\ FreeRuns \subseteq Runs
  BY DEF CreateRun, FreeRuns
<1>2. (CHOOSE r \in FreeRuns : TRUE) \in Runs
  BY <1>1
<1>3. ctl[w].cur \in Jobs /\ Cur(w) \in WorkflowJob
  BY CurTyped DEF Sessions
<1>4. [state |-> "running", job |-> ctl[w].cur, file |-> Cur(w).inputs]
        \in DifyRun
  BY <1>3 DEF DifyRun, DifyStates, DifyFinal, WorkflowJob
<1> QED
  BY <1>2, <1>4 DEF CreateRun, TypeInv, TypeOK

\* An exception in the retry loop goes to another attempt or to the handler.
LEMMA StartExceptionTyped ==
    ASSUME TypeInv, NEW w \in Workers, ctl[w].pc \in InWork, StartException(w),
           UNCHANGED <<db, queue, env>>, dify' \in [Runs -> DifyRun]
    PROVE  TypeInv'
<1>0. w \in Sessions
  BY DEF Sessions
<1>1. CASE Goto(w, "handler") /\ UNCHANGED <<onDisk, mem, base>>
  BY <1>0, <1>1, GotoStep
<1>2. CASE /\ Edit(w, ctl[w].cur, [Cur(w) EXCEPT !.status = "starting"])
           /\ ctl' = [ctl EXCEPT ![w].pc = "commit", ![w].after = "post",
                                 ![w].stream = None, ![w].attempt = @ + 1]
  <2> DEFINE k == [ctl[w] EXCEPT !.pc = "commit", !.after = "post",
                                 !.stream = None, !.attempt = @ + 1]
  <2>1. ctl[w] \in Control /\ ctl \in [Sessions -> Control]
    BY <1>0 DEF TypeInv, TypeOK
  <2>2. ctl[w].cur \in Jobs /\ Cur(w) \in WorkflowJob
    BY <1>0, CurTyped
  <2>3. k \in Control /\ k.pc = "commit" /\ k.after = "post"
        /\ k.cur = ctl[w].cur
    <3>1. ctl[w].attempt + 1 \in Nat
      BY <2>1 DEF Control
    <3> QED
      BY <2>1, <3>1 DEF Control, PCs
  <2>4. ctl' = [ctl EXCEPT ![w] = k]
    BY <1>0, <1>2, <2>1 DEF Control
  <2>5. [Cur(w) EXCEPT !.status = "starting"] \in WorkflowJob
    BY <2>2, MarkTyped DEF ActiveStatuses
  <2> HIDE DEF k
  <2> QED
    BY <1>0, <1>2, <2>2, <2>3, <2>4, <2>5, EditStep DEF WithRun
<1> QED
  BY <1>1, <1>2 DEF StartException

\* Upload, start and post.
LEMMA StartTyped ==
    ASSUME TypeInv, NEW w \in Workers,
           \/ Upload(w) \/ UploadFails(w) \/ StartRun(w)
           \/ PostRun(w) \/ PostFails(w)
    PROVE  TypeInv'
<1>0. w \in Sessions /\ dify \in [Runs -> DifyRun]
  BY DEF Sessions, TypeInv, TypeOK
<1>1. CASE Upload(w)
  <2>1. ctl[w].pc \in InWork
    BY <1>1 DEF Upload, InWork
  <2>2. [Cur(w) EXCEPT !.manifest = "uploaded", !.inputs = TRUE] \in WorkflowJob
    BY <1>0, <2>1, CurTyped, MarkTyped
  <2> QED
    BY <1>0, <1>1, <2>1, <2>2, SaveStep DEF Upload, Proceed, PCs, WithRun
<1>2. CASE UploadFails(w)
  <2>1. ctl[w].pc \in InWork
    BY <1>2 DEF UploadFails, InWork
  <2> QED
    BY <1>0, <1>2, <2>1, GotoStep DEF UploadFails, data
<1>3. CASE StartRun(w)
  <2>1. ctl[w].pc \in InWork
    BY <1>3 DEF StartRun, InWork
  <2>2. [Cur(w) EXCEPT !.status = "starting"] \in WorkflowJob
    BY <1>0, <2>1, CurTyped, MarkTyped DEF ActiveStatuses
  <2> QED
    BY <1>0, <1>3, <2>1, <2>2, SaveStep DEF StartRun, Proceed, PCs, WithRun
<1>4. CASE PostRun(w)
  <2> DEFINE r == CHOOSE r \in FreeRuns : TRUE
  <2>1. ctl[w].pc \in InWork /\ CreateRun(w)
    BY <1>4 DEF PostRun, InWork
  <2>2. dify' \in [Runs -> DifyRun] /\ r \in Runs
    BY <2>1, CreateRunTyped
  <2>10. ctl' = [ctl EXCEPT ![w].pc = "stream", ![w].stream = r]
    BY <1>4 DEF PostRun
  <2> HIDE DEF r
  <2> DEFINE k == [ctl[w] EXCEPT !.pc = "stream", !.stream = r]
  <2>3. ctl[w] \in Control /\ ctl \in [Sessions -> Control]
    BY <1>0 DEF TypeInv, TypeOK
  <2>4. k \in Control /\ k.pc = "stream" /\ k.cur = ctl[w].cur /\ k.stream = r
    BY <2>2, <2>3 DEF Control, PCs
  <2>5. ctl' = [ctl EXCEPT ![w] = k]
    BY <1>0, <2>3, <2>10 DEF Control
  <2>6. Ready(k.pc, k, mem[w])
    BY <1>0, <2>1, <2>2, <2>4, CurTyped, RunnerAssumption DEF Ready, WithRun
  <2>7. SharedTyped'
    BY <1>4, <2>2 DEF PostRun, SharedTyped, TypeInv, TypeOK, env
  <2>8. k.pc # "commit"
    BY <2>4
  <2>9. UNCHANGED <<db, onDisk, mem, base>>
    BY <1>4 DEF PostRun
  <2> HIDE DEF k
  <2> QED
    BY <1>0, <2>4, <2>5, <2>6, <2>7, <2>8, <2>9, MoveStep
<1>5. CASE PostFails(w)
  <2>1. ctl[w].pc \in InWork
    BY <1>5 DEF PostFails, InWork
  <2>2. dify' \in [Runs -> DifyRun]
    BY <1>0, <1>5, <2>1, CreateRunTyped DEF PostFails
  <2> QED
    BY <1>5, <2>1, <2>2, StartExceptionTyped DEF PostFails
<1> QED
  BY <1>1, <1>2, <1>3, <1>4, <1>5

\* The stream.
LEMMA StreamTyped ==
    ASSUME TypeInv, NEW w \in Workers,
           \/ StreamStarted(w) \/ StreamFinished(w) \/ StreamError(w)
           \/ StreamEnds(w) \/ StreamBreaks(w) \/ RuntimeExceeded(w)
    PROVE  TypeInv'
<1>0. w \in Sessions /\ dify \in [Runs -> DifyRun]
  BY DEF Sessions, TypeInv, TypeOK
<1>1. ASSUME NEW name \in EventNames, ctl[w].pc = "stream", Receive(w, name)
      PROVE  TypeInv'
  <2> DEFINE r == ctl[w].stream
             job == ApplyEvent(Cur(w), name, r, dify[r].state)
  <2>1. ctl[w].pc \in InWork
    BY <1>1 DEF InWork
  <2>2. r \in Runs /\ Cur(w) \in WorkflowJob
    BY <1>0, <1>1, <2>1, CurTyped
  <2>3. dify[r].state \in DifyStates
    BY <1>0, <2>2 DEF DifyRun
  <2>4. job \in WorkflowJob
    BY <2>2, <2>3, ApplyTyped
  <2>5. Save(w, ctl[w].cur, job, IF IsFinal(job) THEN "next" ELSE "stream")
    BY <1>1 DEF Receive
  <2>6. ctl[w].stream # None
    BY <2>2, RunnerAssumption
  <2>7. UNCHANGED <<db, queue, env>> /\ dify' \in [Runs -> DifyRun]
    BY <1>0, <1>1 DEF Receive, Proceed
  <2> HIDE DEF job
  <2> QED
    BY <1>0, <2>1, <2>4, <2>5, <2>6, <2>7, SaveStep DEF PCs, WithRun
<1>2. CASE StreamStarted(w)
  BY <1>1, <1>2 DEF StreamStarted, EventNames
<1>3. CASE StreamFinished(w)
  BY <1>1, <1>3 DEF StreamFinished, EventNames
<1>4. CASE StreamError(w)
  BY <1>1, <1>4 DEF StreamError, EventNames
<1>5. CASE StreamEnds(w)
  <2>1. ctl[w].pc \in InWork
    BY <1>5 DEF StreamEnds, InWork
  <2> QED
    BY <1>0, <1>5, <2>1, GotoStep DEF StreamEnds, data
<1>6. CASE StreamBreaks(w)
  <2>1. ctl[w].pc \in InWork
    BY <1>6 DEF StreamBreaks, InWork
  <2> QED
    BY <1>0, <1>6, <2>1, StartExceptionTyped DEF StreamBreaks, Proceed
<1>7. CASE RuntimeExceeded(w)
  <2>1. ctl[w].pc \in InWork
    BY <1>7 DEF RuntimeExceeded, InWork
  <2> QED
    BY <1>0, <1>7, <2>1, GotoStep DEF RuntimeExceeded, data
<1> QED
  BY <1>2, <1>3, <1>4, <1>5, <1>6, <1>7

\* The handler and the recovery.
LEMMA RecoverTyped ==
    ASSUME TypeInv, NEW w \in Workers,
           \/ Reconnect(w) \/ GiveUp(w) \/ GetEvents(w) \/ ApplyRecovered(w)
           \/ GetRunDetail(w) \/ RecoverFails(w)
    PROVE  TypeInv'
<1>0. /\ w \in Sessions /\ dify \in [Runs -> DifyRun]
      /\ ctl[w] \in Control /\ ctl \in [Sessions -> Control]
  BY DEF Sessions, TypeInv, TypeOK
<1>1. CASE Reconnect(w)
  <2> DEFINE k == [ctl[w] EXCEPT !.pc = "commit", !.after = "events",
                                 !.recon = @ + 1]
             object == [Cur(w) EXCEPT !.status = "reconnecting"]
  <2>1. ctl[w].pc \in InWork
    BY <1>1 DEF Reconnect, InWork
  <2>2. ctl[w].cur \in Jobs /\ Cur(w) \in WorkflowJob
    BY <1>0, <2>1, CurTyped
  <2>3. ctl[w].recon + 1 \in Nat
    BY <1>0 DEF Control
  <2>4. k \in Control /\ k.pc = "commit" /\ k.after = "events"
        /\ k.cur = ctl[w].cur
    BY <1>0, <2>3 DEF Control, PCs
  <2>5. ctl' = [ctl EXCEPT ![w] = k]
    BY <1>0, <1>1 DEF Reconnect, Control
  <2>6. object \in WorkflowJob /\ object.run = Cur(w).run
    BY <2>2, MarkTyped DEF ActiveStatuses, WorkflowJob
  <2>7. /\ Edit(w, ctl[w].cur, object) /\ Cur(w).run # None
        /\ UNCHANGED <<db, queue, env>> /\ dify' \in [Runs -> DifyRun]
    BY <1>0, <1>1 DEF Reconnect, Proceed
  <2> HIDE DEF k, object
  <2> QED
    BY <1>0, <2>2, <2>4, <2>5, <2>6, <2>7, EditStep
<1>2. CASE GiveUp(w)
  <2>1. ctl[w].pc \in InWork
    BY <1>2 DEF GiveUp, InWork
  <2>2. MarkFailed(Cur(w), RuntimeErrorCode(Cur(w))) \in WorkflowJob
    BY <1>0, <2>1, CurTyped, MarkTyped
  <2> QED
    BY <1>0, <1>2, <2>1, <2>2, SaveStep DEF GiveUp, Proceed, PCs, WithRun
<1>3. CASE GetEvents(w)
  <2>1. ctl[w].pc \in InWork /\ ctl[w].pc \in WithRun
    BY <1>3 DEF GetEvents, InWork, WithRun
  <2>2. /\ Cur(w).run \in Runs /\ Cur(w) = mem[w][ctl[w].cur]
        /\ ctl[w].cur \in Jobs /\ mem[w][ctl[w].cur] # None
    BY <1>0, <2>1, CurTyped
  <2>3. Snapshots(Cur(w).run) \subseteq Seq(EventNames)
    <3>1. /\ <<>> \in Seq(EventNames)
          /\ <<"workflow_started">> \in Seq(EventNames)
          /\ <<"workflow_finished">> \in Seq(EventNames)
          /\ <<"workflow_started", "workflow_finished">> \in Seq(EventNames)
      BY DEF EventNames
    <3> QED
      BY <3>1 DEF Snapshots
  <2>4. PICK evs \in Snapshots(Cur(w).run) :
            ctl' = [ctl EXCEPT ![w].pc = "event", ![w].evs = evs]
    BY <1>3 DEF GetEvents
  <2> DEFINE k == [ctl[w] EXCEPT !.pc = "event", !.evs = evs]
  <2>5. evs \in Seq(EventNames)
    BY <2>3
  <2>6. k \in Control /\ k.pc = "event" /\ k.cur = ctl[w].cur
    BY <1>0, <2>5 DEF Control, PCs
  <2>7. ctl' = [ctl EXCEPT ![w] = k]
    BY <1>0, <2>4 DEF Control
  <2>8. Ready(k.pc, k, mem[w])
    BY <2>2, <2>6, RunnerAssumption DEF Ready
  <2>9. SharedTyped' /\ UNCHANGED <<db, onDisk, mem, base>>
    BY <1>3 DEF GetEvents, SharedTyped, TypeInv, TypeOK, data, env
  <2>10. k.pc # "commit"
    BY <2>6
  <2> HIDE DEF k
  <2> QED
    BY <1>0, <2>6, <2>7, <2>8, <2>9, <2>10, MoveStep
<1>4. CASE ApplyRecovered(w)
  <2> DEFINE r == Cur(w).run
             job == ApplyEvent(Cur(w), Head(ctl[w].evs), r, dify[r].state)
             k == [ctl[w] EXCEPT
                     !.pc = "commit",
                     !.after = IF IsFinal(job) THEN "next" ELSE "event",
                     !.evs = IF IsFinal(job) THEN <<>> ELSE Tail(@)]
  <2>1. ctl[w].pc \in InWork /\ ctl[w].pc \in WithRun
    BY <1>4 DEF ApplyRecovered, InWork, WithRun
  <2>2. r \in Runs /\ Cur(w) \in WorkflowJob /\ ctl[w].cur \in Jobs
    BY <1>0, <2>1, CurTyped
  <2>3. ctl[w].evs \in Seq(EventNames) /\ ctl[w].evs # <<>>
    BY <1>0, <1>4 DEF Control, ApplyRecovered
  <2>4. Head(ctl[w].evs) \in EventNames /\ Tail(ctl[w].evs) \in Seq(EventNames)
    BY <2>3
  <2>5. dify[r].state \in DifyStates
    BY <1>0, <2>2 DEF DifyRun
  <2>6. job \in WorkflowJob /\ (~IsFinal(job) => job.run = r)
    BY <2>2, <2>4, <2>5, ApplyTyped
  <2>7. /\ Edit(w, ctl[w].cur, job)
        /\ ctl' = [ctl EXCEPT ![w].pc = "commit",
                     ![w].after = IF IsFinal(job) THEN "next" ELSE "event",
                     ![w].evs = IF IsFinal(job) THEN <<>> ELSE Tail(@)]
    BY <1>4 DEF ApplyRecovered
  <2>8. UNCHANGED <<db, queue, env>> /\ dify' \in [Runs -> DifyRun]
    BY <1>0, <1>4 DEF ApplyRecovered, Proceed
  <2> HIDE DEF job
  <2>9. /\ k \in Control /\ k.pc = "commit" /\ k.cur = ctl[w].cur
        /\ k.after = IF IsFinal(job) THEN "next" ELSE "event"
    <3>1. (IF IsFinal(job) THEN <<>> ELSE Tail(ctl[w].evs)) \in Seq(EventNames)
      BY <2>4
    <3> QED
      BY <1>0, <3>1 DEF Control, PCs
  <2>10. ctl' = [ctl EXCEPT ![w] = k]
    BY <1>0, <2>7 DEF Control
  <2>11. r # None
    BY <2>2, RunnerAssumption
  <2> HIDE DEF k, r
  <2>12. /\ k.pc \in {"next", "commit"}
         /\ k.after \in InWork => k.cur = ctl[w].cur
         /\ k.after \in WithRun => job.run # None
         /\ k.after = "stream" => k.stream # None
    BY <2>6, <2>9, <2>11 DEF InWork, WithRun
  <2>13. /\ w \in Sessions /\ ctl[w].cur \in Jobs /\ job \in WorkflowJob
         /\ k \in Control /\ Edit(w, ctl[w].cur, job)
    BY <1>0, <2>2, <2>6, <2>7, <2>9
  <2> QED
    BY <2>8, <2>10, <2>12, <2>13, EditStep
<1>5. CASE GetRunDetail(w)
  <2> DEFINE r == Cur(w).run
             job == ApplyRunDetail(Cur(w), r, dify[r].state)
             l == IF IsFinal(job) \/ ctl[w].recon = 0
                  THEN "next" ELSE "handler"
  <2>1. ctl[w].pc \in InWork /\ ctl[w].pc \in WithRun
    BY <1>5 DEF GetRunDetail, InWork, WithRun
  <2>2. r \in Runs /\ Cur(w) \in WorkflowJob
    BY <1>0, <2>1, CurTyped
  <2>3. dify[r].state \in DifyStates
    BY <1>0, <2>2 DEF DifyRun
  <2>4. job \in WorkflowJob
    BY <2>2, <2>3, ApplyTyped DEF EventNames
  <2>5. Save(w, ctl[w].cur, job, l)
    BY <1>5 DEF GetRunDetail
  <2>6. UNCHANGED <<db, queue, env>> /\ dify' \in [Runs -> DifyRun]
    BY <1>0, <1>5 DEF GetRunDetail, Proceed
  <2>7. l \in PCs /\ l \notin WithRun /\ l # "stream"
    BY DEF PCs, WithRun
  <2> HIDE DEF job, l
  <2> QED
    BY <1>0, <2>1, <2>4, <2>5, <2>6, <2>7, SaveStep
<1>6. CASE RecoverFails(w)
  <2>1. ctl[w].pc \in InWork
    BY <1>6 DEF RecoverFails, InWork
  <2> QED
    BY <1>0, <1>6, <2>1, GotoStep DEF RecoverFails, data
<1> QED
  BY <1>1, <1>2, <1>3, <1>4, <1>5, <1>6

-----------------------------------------------------------------------------
\* The control of a cancel request for job j.
Asking(j, l, n) == [Idle EXCEPT !.pc = l, !.after = n, !.cur = j]

LEMMA AskingTyped ==
    ASSUME NEW j \in Jobs, NEW l \in PCs, NEW n \in PCs
    PROVE  /\ Asking(j, l, n) \in Control
           /\ Asking(j, l, n).pc = l
           /\ Asking(j, l, n).after = n
           /\ Asking(j, l, n).cur = j
<1>1. <<>> \in Seq(EventNames)
  OBVIOUS
<1> QED
  BY <1>1 DEF Asking, Idle, Control

\* Cancel requests.
LEMMA CancelTyped ==
    ASSUME TypeInv, NEW c \in Cancels, CancelStep(c)
    PROVE  TypeInv'
<1>0. /\ c \in Sessions /\ dify \in [Runs -> DifyRun]
      /\ db \in [Jobs -> WorkflowJob]
      /\ ctl[c] \in Control /\ ctl \in [Sessions -> Control]
  BY DEF Sessions, TypeInv, TypeOK
<1>1. ASSUME NEW j \in Jobs, NEW l \in {"commit", "done"}, NEW n \in PCs,
             Request(c, j, l, n)
      PROVE  LET k == Asking(j, l, n) IN
             /\ k \in Control /\ ctl' = [ctl EXCEPT ![c] = k]
             /\ k.pc = l /\ k.after = n /\ k.cur = j
             /\ UNCHANGED <<db, dify, queue, env>>
  <2> DEFINE k == Asking(j, l, n)
  <2>1. l \in PCs
    BY DEF PCs
  <2>2. k \in Control /\ k.pc = l /\ k.after = n /\ k.cur = j
    BY <2>1, AskingTyped
  <2>3. ctl' = [ctl EXCEPT ![c] = k] /\ UNCHANGED <<db, dify, queue, env>>
    BY <1>1 DEF Request, Asking
  <2> QED
    BY <2>2, <2>3
<1>2. ASSUME NEW j \in Jobs, CancelFinal(c, j)
      PROVE  TypeInv'
  <2> DEFINE k == Asking(j, "done", "done")
  <2>1. /\ k \in Control /\ ctl' = [ctl EXCEPT ![c] = k] /\ k.pc = "done"
        /\ UNCHANGED <<db, dify, queue, env>>
    BY <1>1, <1>2 DEF CancelFinal, PCs
  <2>2. UNCHANGED <<onDisk, mem, base>>
    BY <1>2 DEF CancelFinal
  <2> HIDE DEF k
  <2>3. Ready(k.pc, k, mem[c]) /\ k.pc # "commit"
    BY <2>1 DEF Ready, InWork, WithRun
  <2>4. SharedTyped'
    BY <2>1, <2>2 DEF SharedTyped, TypeInv, TypeOK, env
  <2> QED
    BY <1>0, <2>1, <2>2, <2>3, <2>4, MoveStep
<1>3. ASSUME NEW j \in Jobs, NEW object \in WorkflowJob,
             NEW n \in {"stop", "replied"}, Request(c, j, "commit", n),
             Edit(c, j, object), n = "stop" => object.run # None
      PROVE  TypeInv'
  <2> DEFINE k == Asking(j, "commit", n)
  <2>1. /\ k \in Control /\ ctl' = [ctl EXCEPT ![c] = k]
        /\ k.pc = "commit" /\ k.after = n /\ k.cur = j
        /\ UNCHANGED <<db, dify, queue, env>>
    <3>1. "commit" \in {"commit", "done"} /\ n \in PCs
      BY DEF PCs
    <3> QED
      BY <1>1, <1>3, <3>1
  <2> HIDE DEF k
  <2>2. /\ k.pc \in {"next", "commit"}
        /\ k.after \in InWork => k.cur = j
        /\ k.after \in WithRun => object.run # None
        /\ k.after = "stream" => k.stream # None
    BY <1>3, <2>1 DEF WithRun
  <2> QED
    BY <1>0, <1>3, <2>1, <2>2, EditStep
<1>4. ASSUME NEW j \in Jobs, CancelStarted(c, j) PROVE TypeInv'
  <2> DEFINE job == Object(c, j)
  <2>1. job \in WorkflowJob
    BY <1>0, ObjectTyped
  <2> HIDE DEF job
  <2>2. /\ [job EXCEPT !.status = "cancel_requested"] \in WorkflowJob
        /\ [job EXCEPT !.status = "cancel_requested"].run = job.run
    BY <2>1, MarkTyped DEF ActiveStatuses, WorkflowJob
  <2> QED
    BY <1>3, <1>4, <2>2 DEF CancelStarted, job
<1>5. ASSUME NEW j \in Jobs, CancelNotStarted(c, j) PROVE TypeInv'
  <2>1. MarkCancelled(Object(c, j)) \in WorkflowJob
    BY <1>0, ObjectTyped, MarkTyped
  <2> QED
    BY <1>3, <1>5, <2>1 DEF CancelNotStarted
<1>6. ASSUME NEW r \in Runs, StopRun(r) PROVE dify' \in [Runs -> DifyRun]
  BY <1>0, <1>6 DEF StopRun, DifyRun, DifyStates, DifyFinal
<1>7. CASE StopTask(c)
  <2>1. ctl[c].pc \in InWork /\ ctl[c].pc \in WithRun
    BY <1>7 DEF StopTask, InWork, WithRun
  <2>2. Cur(c) \in WorkflowJob /\ Cur(c).run \in Runs
    BY <1>0, <2>1, CurTyped
  <2>3. MarkCancelled(Cur(c)) \in WorkflowJob
    BY <2>2, MarkTyped
  <2>4. dify' \in [Runs -> DifyRun]
    BY <1>6, <1>7, <2>2 DEF StopTask
  <2> QED
    BY <1>0, <1>7, <2>1, <2>3, <2>4, SaveStep DEF StopTask, PCs, WithRun
<1>8. CASE StopFails(c)
  <2>1. ctl[c].pc \in InWork /\ ctl[c].pc \in WithRun
    BY <1>8 DEF StopFails, InWork, WithRun
  <2>2. Cur(c).run \in Runs
    BY <1>0, <2>1, CurTyped
  <2>3. dify' \in [Runs -> DifyRun]
    BY <1>0, <1>6, <1>8, <2>2 DEF StopFails
  <2> DEFINE k == [Idle EXCEPT !.pc = "done"]
  <2>4. k \in Control /\ k.pc = "done"
    BY IdleTyped DEF Control, PCs
  <2>5. /\ ctl' = [ctl EXCEPT ![c] = k]
        /\ mem' = [mem EXCEPT ![c] = Nothing]
        /\ base' = [base EXCEPT ![c] = Nothing]
    BY <1>8 DEF StopFails, Close
  <2>6. Nothing \in [Jobs -> WorkflowJob \cup {None}]
    BY DEF Nothing
  <2>7. SharedTyped'
    BY <1>8, <2>3 DEF StopFails, SharedTyped, TypeInv, TypeOK, env
  <2> HIDE DEF k
  <2> QED
    BY <1>0, <2>4, <2>5, <2>6, <2>7, OpenStep
<1> QED
  BY <1>0, <1>2, <1>4, <1>5, <1>7, <1>8, CommitTyped DEF CancelStep

\* The environment.
LEMMA EnvironmentTyped ==
    ASSUME TypeInv,
           \/ \E s \in Sessions : Crash(s)
           \/ \E w \in Workers : Redeliver(w)
           \/ \E r \in Runs : DifyEnds(r)
           \/ ConfigureKey
    PROVE  TypeInv'
<1>0. /\ dify \in [Runs -> DifyRun] /\ ctl \in [Sessions -> Control]
      /\ queue \in [Messages -> Nat] /\ crashes \in Nat /\ redeliveries \in Nat
  BY DEF TypeInv, TypeOK
<1>1. ASSUME NEW s \in Sessions, Crash(s) PROVE TypeInv'
  <2> DEFINE k == IF s \in Workers THEN Idle ELSE [Idle EXCEPT !.pc = "done"]
  <2>1. k \in Control /\ k.pc \in {"idle", "next", "done"}
    BY IdleTyped DEF Idle, Control, PCs
  <2>2. /\ ctl' = [ctl EXCEPT ![s] = k]
        /\ mem' = [mem EXCEPT ![s] = Nothing]
        /\ base' = [base EXCEPT ![s] = Nothing]
    BY <1>1 DEF Crash, Close
  <2>3. Nothing \in [Jobs -> WorkflowJob \cup {None}]
    BY DEF Nothing
  <2>4. queue' \in [Messages -> Nat]
    BY <1>0, <1>1 DEF Crash, Control
  <2>5. SharedTyped'
    BY <1>0, <1>1, <2>4 DEF Crash, SharedTyped, TypeInv, TypeOK, data
  <2> HIDE DEF k
  <2> QED
    BY <2>1, <2>2, <2>3, <2>5, OpenStep
<1>2. ASSUME NEW w \in Workers, Redeliver(w) PROVE TypeInv'
  <2> DEFINE k == [ctl[w] EXCEPT !.msg = None]
  <2>1. w \in Sessions /\ ctl[w] \in Control
    BY <1>0 DEF Sessions
  <2>2. /\ k \in Control /\ k.pc = ctl[w].pc /\ k.after = ctl[w].after
        /\ k.cur = ctl[w].cur /\ k.stream = ctl[w].stream
    BY <2>1 DEF Control
  <2>3. ctl' = [ctl EXCEPT ![w] = k]
    BY <1>0, <1>2, <2>1 DEF Redeliver, Control
  <2>4. queue' \in [Messages -> Nat]
    BY <1>0, <1>2, <2>1 DEF Redeliver, Control
  <2>5. SharedTyped' /\ mem' = mem /\ base' = base
    BY <1>0, <1>2, <2>4 DEF Redeliver, SharedTyped, TypeInv, TypeOK, data
  <2>6. ctl'[w] = k
    BY <1>0, <2>1, <2>3
  <2>7. SessionOK(ctl[w], mem[w], base[w])
    BY <2>1 DEF TypeInv, SessionsOK
  <2> HIDE DEF k
  <2>8. SessionOK(ctl'[w], mem'[w], base'[w])
    BY <2>2, <2>5, <2>6, <2>7 DEF SessionOK, Ready
  <2>9. OnlySession(w)
    BY <2>1, <2>3, <2>5, <2>6 DEF OnlySession, TypeInv, TypeOK
  <2> QED
    BY <2>1, <2>2, <2>5, <2>6, <2>8, <2>9, SessionStep DEF TypeInv, TypeOK
<1>3. ASSUME NEW r \in Runs, DifyEnds(r) PROVE TypeInv'
  <2>1. Outcomes \subseteq DifyStates
    BY RunnerAssumption DEF DifyStates
  <2>2. dify' \in [Runs -> DifyRun]
    BY <1>0, <1>3, <2>1 DEF DifyEnds, DifyRun
  <2> QED
    BY <1>3, <2>2 DEF DifyEnds, TypeInv, TypeOK, SessionsOK, env
<1>4. ASSUME ConfigureKey PROVE TypeInv'
  BY <1>4 DEF ConfigureKey, TypeInv, TypeOK, SessionsOK, data
<1> QED
  BY <1>1, <1>2, <1>3, <1>4

-----------------------------------------------------------------------------
\* The two facts that make TypeInv an invariant.
LEMMA InitTyped == Init => TypeInv
<1> SUFFICES ASSUME Init PROVE TypeInv
  OBVIOUS
<1>1. \A j \in Jobs : NewJob(j \in Uploads) \in WorkflowJob
  BY DEF NewJob, WorkflowJob, ActiveStatuses, FinalStatuses, Manifests
<1>2. NoRun \in DifyRun
  BY DEF NoRun, DifyRun, DifyStates
<1>3. Nothing \in [Jobs -> WorkflowJob \cup {None}]
  BY DEF Nothing
<1>4. queue \in [Messages -> Nat]
  BY RunnerAssumption DEF Init
<1>5. hasKey \in BOOLEAN
  BY RunnerAssumption DEF Init
<1>6. TypeOK
  <2>1. db \in [Jobs -> WorkflowJob]
    BY <1>1 DEF Init
  <2>2. onDisk \in [Jobs -> BOOLEAN]
    BY DEF Init
  <2>3. mem \in [Sessions -> [Jobs -> WorkflowJob \cup {None}]]
    BY <1>3 DEF Init
  <2>4. base \in [Sessions -> [Jobs -> WorkflowJob \cup {None}]]
    BY <1>3 DEF Init
  <2> QED
    BY <1>2, <1>4, <1>5, <2>1, <2>2, <2>3, <2>4, IdleTyped DEF Init, TypeOK
<1>7. SessionsOK
  BY DEF Init, SessionsOK, SessionOK, Ready, Idle, InWork, WithRun
<1> QED
  BY <1>6, <1>7 DEF TypeInv

\* One step per kind of actor.
LEMMA NextTyped == TypeInv /\ [Next]_vars => TypeInv'
<1> SUFFICES ASSUME TypeInv, [Next]_vars PROVE TypeInv'
  OBVIOUS
<1>1. CASE \E w \in Workers : WorkerStep(w)
  <2> PICK w \in Workers : WorkerStep(w)
    BY <1>1
  <2>1. w \in Sessions
    BY DEF Sessions
  <2> QED
    BY <2>1, TakeTyped, RunTyped, StartTyped, StreamTyped, RecoverTyped,
       CommitTyped DEF WorkerStep
<1>2. CASE \E c \in Cancels : CancelStep(c)
  BY <1>2, CancelTyped
<1>3. CASE \/ \E s \in Sessions : Crash(s)
           \/ \E w \in Workers : Redeliver(w)
           \/ \E r \in Runs : DifyEnds(r)
           \/ ConfigureKey
  BY <1>3, EnvironmentTyped
<1>4. CASE UNCHANGED vars
  BY <1>4 DEF vars, TypeInv, TypeOK, SessionsOK
<1> QED
  BY <1>1, <1>2, <1>3, <1>4 DEF Next, Quiescent

\* Every copy of a job in the table or in a session is a job, and whatever
\* label a session is at, it has loaded what the code there reads.
THEOREM TypeInvariant == Spec => []TypeInv
  BY InitTyped, NextTyped, PTL DEF Spec

\* WorkflowRunner keeps its types, for all values of its constants.
THEOREM TypeCorrect == Spec => []TypeOK
<1>1. TypeInv => TypeOK
  BY DEF TypeInv
<1> QED
  BY <1>1, TypeInvariant, PTL

-----------------------------------------------------------------------------
(***************************************************************************)
(* The properties of WorkflowRunner that hold however many sessions        *)
(* interleave, however stale the copies they commit: a result that can be  *)
(* read is a result Dify gave for this job, a failure has its reason, and  *)
(* no file of a finished job stays on disk.                                *)
(*                                                                         *)
(* The argument: a step either edits one copy of one job (Allowed says     *)
(* what an edit may do), or flushes one session's copies, or changes       *)
(* neither; and Dify's runs and the files on disk only move one way        *)
(* (DifyGrows, Edit), which keeps every other copy sound.                  *)
(***************************************************************************)

\* Dify never forgets whose run it is, nor that it succeeded.
DifyGrows ==
    \A r \in Runs :
        /\ dify[r].job # None => dify'[r].job = dify[r].job
        /\ dify[r].state = "succeeded" => dify'[r].state = "succeeded"
        /\ dify'[r].state = "none" => dify'[r].job = None

\* Sound without the disk.
Recorded(runs, j, job) ==
    /\ job.run # None => runs[job.run].job = j
    /\ job.result # None => /\ runs[job.result].state = "succeeded"
                            /\ runs[job.result].job = j
    /\ job.status = "succeeded" => job.result # None
    /\ job.status = "failed" => job.error # None

\* What an edit may make of a job: it keeps result and error, and it clears
\* the manifest only where the files are deleted too.
Allowed(runs, j, old, new) ==
    /\ Recorded(runs, j, new)
    /\ Keeps(old, new)
    /\ new.manifest = "empty" => IsFinal(new) \/ old.manifest = "empty"

-----------------------------------------------------------------------------
(* The operators on a job.                                                 *)

\* What the handlers make of a job by themselves is allowed.
LEMMA MarkAllowed ==
    ASSUME NEW runs, NEW j, NEW job \in WorkflowJob, Recorded(runs, j, job)
    PROVE  /\ \A code \in ErrorCodes :
                 Allowed(runs, j, job, MarkFailed(job, code))
           /\ Allowed(runs, j, job, MarkCancelled(job))
           /\ \A status \in ActiveStatuses :
                 Allowed(runs, j, job, [job EXCEPT !.status = status])
           /\ Allowed(runs, j, job,
                      [job EXCEPT !.manifest = "uploaded", !.inputs = TRUE])
<1>1. ASSUME NEW code \in ErrorCodes
      PROVE  Allowed(runs, j, job, MarkFailed(job, code))
  <2>1. code # None
    BY RunnerAssumption
  <2> QED
    BY <2>1 DEF Allowed, Recorded, Keeps, MarkFailed, IsFinal, WorkflowJob,
                FinalStatuses
<1>2. Allowed(runs, j, job, MarkCancelled(job))
  BY DEF Allowed, Recorded, Keeps, MarkCancelled, IsFinal, WorkflowJob,
         FinalStatuses
<1>3. ASSUME NEW status \in ActiveStatuses
      PROVE  Allowed(runs, j, job, [job EXCEPT !.status = status])
  BY DEF Allowed, Recorded, Keeps, WorkflowJob, ActiveStatuses
<1>4. Allowed(runs, j, job,
              [job EXCEPT !.manifest = "uploaded", !.inputs = TRUE])
  BY DEF Allowed, Recorded, Keeps, WorkflowJob
<1> QED
  BY <1>1, <1>2, <1>3, <1>4

\* What an event or a run detail of a run of this job makes of it is allowed.
LEMMA ApplyAllowed ==
    ASSUME NEW runs, NEW j, NEW job \in WorkflowJob, Recorded(runs, j, job),
           NEW run \in Runs, runs[run].job = j, NEW name \in EventNames
    PROVE  /\ Allowed(runs, j, job,
                      ApplyEvent(job, name, run, runs[run].state))
           /\ Allowed(runs, j, job, ApplyRunDetail(job, run, runs[run].state))
<1>0. run # None /\ "workflow_failed" # None
  BY RunnerAssumption DEF ErrorCodes
<1> DEFINE outcome == runs[run].state
<1>1. ASSUME NEW old \in WorkflowJob, Recorded(runs, j, old)
      PROVE  /\ outcome = "succeeded" => Allowed(runs, j, old, Succeed(old, run))
             /\ Allowed(runs, j, old, MarkFailed(old, "workflow_failed"))
             /\ Allowed(runs, j, old, MarkCancelled(old))
  <2>1. outcome = "succeeded" => Allowed(runs, j, old, Succeed(old, run))
    BY <1>0, <1>1 DEF Allowed, Recorded, Keeps, Succeed, IsFinal, WorkflowJob,
                      FinalStatuses
  <2> QED
    BY <1>1, <2>1, MarkAllowed DEF ErrorCodes
<1> DEFINE counted == [job EXCEPT !.seen = TRUE]
<1>2. counted \in WorkflowJob /\ Recorded(runs, j, counted)
  BY DEF Recorded, WorkflowJob
<1>3. ASSUME NEW new, Allowed(runs, j, counted, new)
      PROVE  Allowed(runs, j, job, new)
  BY <1>3 DEF Allowed, Keeps, WorkflowJob
<1>4. Allowed(runs, j, counted,
              [counted EXCEPT !.status = "running", !.run = run])
  BY <1>0, <1>2 DEF Allowed, Recorded, Keeps, WorkflowJob
<1>5. Allowed(runs, j, counted, ApplyFinished(counted, run, outcome))
  BY <1>1, <1>2 DEF ApplyFinished
<1>6. Allowed(runs, j, counted, MarkFailed(counted, "workflow_failed"))
  BY <1>1, <1>2
<1>7. Allowed(runs, j, job, ApplyEvent(job, name, run, outcome))
  <2>1. CASE name = "workflow_started"
    BY <1>3, <1>4, <2>1 DEF ApplyEvent
  <2>2. CASE name = "workflow_finished"
    BY <1>3, <1>5, <2>2 DEF ApplyEvent
  <2>3. CASE name = "error"
    BY <1>3, <1>6, <2>3 DEF ApplyEvent
  <2> QED
    BY <2>1, <2>2, <2>3 DEF EventNames
<1>8. Allowed(runs, j, job, ApplyRunDetail(job, run, outcome))
  <2>1. Allowed(runs, j, job, [job EXCEPT !.status = "reconnecting"])
    BY MarkAllowed DEF ActiveStatuses
  <2> QED
    BY <1>1, <2>1 DEF ApplyRunDetail
<1> QED
  BY <1>7, <1>8

\* What a flush writes over a row is sound if the row and both copies are:
\* this is where a result or a reason could get lost between two sessions.
LEMMA FlushSound ==
    ASSUME NEW disk, NEW runs, NEW j,
           NEW row \in WorkflowJob, NEW loaded \in WorkflowJob,
           NEW object \in WorkflowJob,
           Sound(disk, runs, j, row), Sound(disk, runs, j, loaded),
           Sound(disk, runs, j, object),
           Keeps(loaded, object), Keeps(loaded, row)
    PROVE  /\ Sound(disk, runs, j, Flush(row, loaded, object))
           /\ Keeps(row, Flush(row, loaded, object))
           /\ Keeps(object, Flush(row, loaded, object))
  BY DEF Flush, Column, Sound, Keeps, IsFinal

\* A copy that nobody edits stays sound.
LEMMA SoundStays ==
    ASSUME TypeInv, NEW j \in Jobs, NEW job \in WorkflowJob,
           Sound(onDisk, dify, j, job), DifyGrows, onDisk'[j] => onDisk[j]
    PROVE  Sound(onDisk', dify', j, job)
<1>1. j # None
  BY RunnerAssumption
<1> QED
  BY <1>1 DEF Sound, DifyGrows, WorkflowJob

-----------------------------------------------------------------------------
(* The kinds of steps.                                                     *)

\* The clauses of CopiesSound about one session's copy of a job.
CopySound(disk, runs, j, row, loaded, object) ==
    /\ Sound(disk, runs, j, object)
    /\ Sound(disk, runs, j, loaded)
    /\ Keeps(loaded, object)
    /\ Keeps(loaded, row)

\* The clauses of IInv about one copy, in the form the steps below need.
LEMMA CopiesTyped ==
    ASSUME IInv, NEW s \in Sessions, NEW j \in Jobs
    PROVE  /\ db[j] \in WorkflowJob
           /\ Sound(onDisk, dify, j, db[j])
           /\ mem[s][j] # None =>
                 /\ mem[s][j] \in WorkflowJob /\ base[s][j] \in WorkflowJob
                 /\ CopySound(onDisk, dify, j, db[j], base[s][j], mem[s][j])
<1>1. /\ db[j] \in WorkflowJob
      /\ mem[s][j] \in WorkflowJob \cup {None}
      /\ base[s][j] \in WorkflowJob \cup {None}
      /\ mem[s][j] = None <=> base[s][j] = None
  BY DEF IInv, TypeInv, TypeOK, SessionsOK, SessionOK
<1> QED
  BY <1>1 DEF IInv, CopiesSound, CopySound

\* A step that changes no row, no file and no copy.
LEMMA QuietStep ==
    ASSUME IInv, UNCHANGED <<db, onDisk, mem, base>>, DifyGrows
    PROVE  CopiesSound'
<1>1. ASSUME NEW j \in Jobs PROVE Sound(onDisk', dify', j, db'[j])
  BY SoundStays DEF IInv, TypeInv, TypeOK, CopiesSound
<1>2. ASSUME NEW s \in Sessions, NEW j \in Jobs, mem'[s][j] # None
      PROVE  CopySound(onDisk', dify', j, db'[j], base'[s][j], mem'[s][j])
  <2>1. /\ mem[s][j] \in WorkflowJob /\ base[s][j] \in WorkflowJob
        /\ CopySound(onDisk, dify, j, db[j], base[s][j], mem[s][j])
    BY <1>2, CopiesTyped
  <2> QED
    BY <2>1, SoundStays DEF CopySound, IInv
<1> QED
  BY <1>1, <1>2 DEF CopiesSound, CopySound

\* A session opens with copies of rows, or closes.
LEMMA LoadStep ==
    ASSUME IInv, UNCHANGED <<db, onDisk>>, DifyGrows, NEW s \in Sessions,
           NEW m, \A j \in Jobs : m[j] = None \/ m[j] = db[j],
           mem' = [mem EXCEPT ![s] = m], base' = [base EXCEPT ![s] = m]
    PROVE  CopiesSound'
<1>1. ASSUME NEW j \in Jobs PROVE Sound(onDisk', dify', j, db'[j])
  BY SoundStays DEF IInv, TypeInv, TypeOK, CopiesSound
<1>2. ASSUME NEW t \in Sessions, NEW j \in Jobs, mem'[t][j] # None
      PROVE  CopySound(onDisk', dify', j, db'[j], base'[t][j], mem'[t][j])
  <2>0. mem \in [Sessions -> [Jobs -> WorkflowJob \cup {None}]]
        /\ base \in [Sessions -> [Jobs -> WorkflowJob \cup {None}]]
    BY DEF IInv, TypeInv, TypeOK
  <2>1. CASE t = s
    <3>1. mem'[t][j] = db[j] /\ base'[t][j] = db[j]
      BY <1>2, <2>0, <2>1
    <3> QED
      BY <1>1, <3>1 DEF CopySound, Keeps
  <2>2. CASE t # s
    <3>1. mem'[t] = mem[t] /\ base'[t] = base[t]
      BY <2>0, <2>2
    <3>2. /\ mem[t][j] \in WorkflowJob /\ base[t][j] \in WorkflowJob
          /\ CopySound(onDisk, dify, j, db[j], base[t][j], mem[t][j])
      BY <1>2, <3>1, CopiesTyped
    <3> QED
      BY <3>1, <3>2, SoundStays DEF CopySound, IInv
  <2> QED
    BY <2>1, <2>2
<1> QED
  BY <1>1, <1>2 DEF CopiesSound, CopySound

\* A session edits its copy of a job as Allowed says.
LEMMA EditSound ==
    ASSUME IInv, NEW s \in Sessions, NEW j \in Jobs, NEW object \in WorkflowJob,
           Edit(s, j, object), Allowed(dify', j, Object(s, j), object),
           db' = db, DifyGrows
    PROVE  CopiesSound'
<1> DEFINE old == Object(s, j)
<1>0. /\ mem \in [Sessions -> [Jobs -> WorkflowJob \cup {None}]]
      /\ base \in [Sessions -> [Jobs -> WorkflowJob \cup {None}]]
      /\ onDisk \in [Jobs -> BOOLEAN]
  BY DEF IInv, TypeInv, TypeOK
<1>1. old \in WorkflowJob /\ Sound(onDisk, dify, j, old)
  BY CopiesTyped DEF Object, CopySound
<1>2. /\ \A k \in Jobs : onDisk'[k] => onDisk[k]
      /\ onDisk'[j] /\ j \notin Undeletable =>
            ~IsFinal(object) /\ object.manifest # "empty"
  BY <1>0, <1>1 DEF Edit, CleanupFiles, Allowed, Sound
<1>3. Sound(onDisk', dify', j, object)
  BY <1>2 DEF Allowed, Recorded, Sound
<1>4. ASSUME NEW k \in Jobs PROVE Sound(onDisk', dify', k, db'[k])
  BY <1>2, SoundStays DEF IInv, TypeInv, TypeOK, CopiesSound
<1>5. ASSUME NEW t \in Sessions, NEW k \in Jobs, mem'[t][k] # None
      PROVE  CopySound(onDisk', dify', k, db'[k], base'[t][k], mem'[t][k])
  <2>1. CASE t = s /\ k = j
    <3>1. mem'[t][k] = object
      BY <1>0, <2>1 DEF Edit
    <3>2. base'[t][k] = IF mem[s][j] = None THEN db[j] ELSE base[s][j]
      BY <1>0, <2>1 DEF Edit
    <3>3. CASE mem[s][j] = None
      BY <1>3, <1>4, <2>1, <3>1, <3>2, <3>3 DEF CopySound, Allowed, Keeps, Object
    <3>4. CASE mem[s][j] # None
      <4>1. /\ base[s][j] \in WorkflowJob
            /\ CopySound(onDisk, dify, j, db[j], base[s][j], mem[s][j])
        BY <3>4, CopiesTyped
      <4>2. Sound(onDisk', dify', j, base[s][j])
        BY <1>2, <4>1, SoundStays DEF CopySound, IInv
      <4> QED
        BY <1>3, <2>1, <3>1, <3>2, <3>4, <4>1, <4>2
           DEF CopySound, Allowed, Keeps, Object
    <3> QED
      BY <3>3, <3>4
  <2>2. CASE t # s \/ k # j
    <3>1. mem'[t][k] = mem[t][k] /\ base'[t][k] = base[t][k]
      BY <1>0, <2>2 DEF Edit
    <3>2. /\ mem[t][k] \in WorkflowJob /\ base[t][k] \in WorkflowJob
          /\ CopySound(onDisk, dify, k, db[k], base[t][k], mem[t][k])
      BY <1>5, <3>1, CopiesTyped
    <3> QED
      BY <1>2, <3>1, <3>2, SoundStays DEF CopySound, IInv
  <2> QED
    BY <2>1, <2>2
<1> QED
  BY <1>4, <1>5 DEF CopiesSound, CopySound

\* A session commits.
LEMMA CommitSound ==
    ASSUME IInv, NEW s \in Sessions, Commit(s)
    PROVE  CopiesSound'
<1>0. /\ mem \in [Sessions -> [Jobs -> WorkflowJob \cup {None}]]
      /\ base \in [Sessions -> [Jobs -> WorkflowJob \cup {None}]]
      /\ mem' = mem /\ onDisk' = onDisk /\ dify' = dify
      /\ base' = [base EXCEPT ![s] = mem[s]]
  BY DEF IInv, TypeInv, TypeOK, Commit
<1>1. ASSUME NEW j \in Jobs
      PROVE  /\ Sound(onDisk, dify, j, db'[j])
             /\ Keeps(db[j], db'[j])
             /\ mem[s][j] # None => Keeps(mem[s][j], db'[j])
  <2>1. db'[j] = IF mem[s][j] = None THEN db[j]
                 ELSE Flush(db[j], base[s][j], mem[s][j])
    BY DEF Commit
  <2>2. CASE mem[s][j] = None
    BY <2>1, <2>2, CopiesTyped DEF Keeps
  <2>3. CASE mem[s][j] # None
    BY <2>1, <2>3, CopiesTyped, FlushSound DEF CopySound
  <2> QED
    BY <2>2, <2>3
<1>2. ASSUME NEW t \in Sessions, NEW j \in Jobs, mem'[t][j] # None
      PROVE  CopySound(onDisk', dify', j, db'[j], base'[t][j], mem'[t][j])
  <2>1. CopySound(onDisk, dify, j, db[j], base[t][j], mem[t][j])
    BY <1>0, <1>2, CopiesTyped
  <2>2. CASE t = s
    <3>1. base'[t][j] = mem[t][j]
      BY <1>0, <2>2
    <3> QED
      BY <1>0, <1>1, <1>2, <2>1, <2>2, <3>1 DEF CopySound, Keeps
  <2>3. CASE t # s
    <3>1. base'[t][j] = base[t][j]
      BY <1>0, <2>3
    <3> QED
      BY <1>0, <1>1, <2>1, <3>1 DEF CopySound, Keeps
  <2> QED
    BY <2>2, <2>3
<1> QED
  BY <1>0, <1>1, <1>2 DEF CopiesSound, CopySound

-----------------------------------------------------------------------------
(* Runs, and the streams that workers read.                                *)

\* A step that leaves Dify alone.
LEMMA DifySame ==
    ASSUME IInv, dify' = dify
    PROVE  DifyGrows
  BY DEF DifyGrows, IInv, RunsOwned

\* A step that leaves a session's stream alone, or drops it.
LEMMA StreamKept ==
    ASSUME IInv, DifyGrows, NEW s \in Sessions, NEW k,
           ctl' = [ctl EXCEPT ![s] = k],
           \/ k.stream = None
           \/ k.stream = ctl[s].stream /\ k.cur = ctl[s].cur
    PROVE  RunsOwned'
<1>0. ctl \in [Sessions -> Control]
  BY DEF IInv, TypeInv, TypeOK
<1>1. ASSUME NEW t \in Sessions, ctl'[t].stream # None
      PROVE  ctl'[t].cur # None /\ dify'[ctl'[t].stream].job = ctl'[t].cur
  <2>1. ctl'[t].stream = ctl[t].stream /\ ctl'[t].cur = ctl[t].cur
    BY <1>0, <1>1
  <2>2. ctl[t].stream \in Runs
    BY <1>0, <1>1, <2>1 DEF Control
  <2> QED
    BY <1>1, <2>1, <2>2 DEF IInv, RunsOwned, DifyGrows
<1> QED
  BY <1>1 DEF RunsOwned, DifyGrows

\* A sound copy is recorded in every later state of Dify.
LEMMA RecordedStays ==
    ASSUME IInv, NEW j \in Jobs, NEW job \in WorkflowJob,
           Sound(onDisk, dify, j, job), DifyGrows
    PROVE  Recorded(dify', j, job)
<1>1. j # None
  BY RunnerAssumption
<1> QED
  BY <1>1 DEF Sound, Recorded, DifyGrows, WorkflowJob

\* A new run is the run of the job in work, and no copy names it yet.
LEMMA CreateRunGrows ==
    ASSUME IInv, NEW w \in Workers, ctl[w].pc \in InWork, CreateRun(w)
    PROVE  /\ DifyGrows
           /\ dify'[CHOOSE r \in FreeRuns : TRUE].job = ctl[w].cur
<1> DEFINE new == CHOOSE r \in FreeRuns : TRUE
<1>1. FreeRuns # {}
  BY DEF CreateRun
<1>2. new \in FreeRuns
  BY <1>1
<1>3. dify' = [dify EXCEPT ![new] = [state |-> "running", job |-> ctl[w].cur,
                                     file |-> Cur(w).inputs]]
  BY DEF CreateRun
<1> HIDE DEF new
<1>4. new \in Runs /\ dify[new].state = "none" /\ dify[new].job = None
  BY <1>2 DEF FreeRuns, IInv, RunsOwned
<1>5. dify \in [Runs -> DifyRun]
  BY DEF IInv, TypeInv, TypeOK
<1>6. DifyGrows
  BY <1>3, <1>4, <1>5 DEF DifyGrows, IInv, RunsOwned
<1>7. dify'[new].job = ctl[w].cur
  BY <1>3, <1>4, <1>5
<1> QED
  BY <1>6, <1>7 DEF new

\* The shapes of a step that edits the job in work, or only moves on.
LEMMA SaveSound ==
    ASSUME IInv, NEW s \in Sessions, ctl[s].pc \in InWork,
           NEW object \in WorkflowJob, NEW l, Save(s, ctl[s].cur, object, l),
           Allowed(dify', ctl[s].cur, Cur(s), object), db' = db, DifyGrows
    PROVE  CopiesSound' /\ RunsOwned'
<1>1. ctl[s].cur \in Jobs /\ Cur(s) = Object(s, ctl[s].cur)
  BY CurTyped DEF IInv
<1>2. CopiesSound'
  BY <1>1, EditSound DEF Save
<1> DEFINE k == [ctl[s] EXCEPT !.pc = "commit", !.after = l]
<1>3. ctl \in [Sessions -> Control]
  BY DEF IInv, TypeInv, TypeOK
<1>4. ctl[s] \in Control
  BY <1>3
<1>5. ctl' = [ctl EXCEPT ![s] = k]
  BY <1>3, <1>4 DEF Save, Control
<1>6. k.stream = ctl[s].stream /\ k.cur = ctl[s].cur
  BY <1>4 DEF Control
<1> HIDE DEF k
<1> QED
  BY <1>2, <1>5, <1>6, StreamKept

\* A step that only moves on.
LEMMA GotoSound ==
    ASSUME IInv, NEW s \in Sessions, NEW l, Goto(s, l),
           UNCHANGED <<db, onDisk, mem, base>>, DifyGrows
    PROVE  CopiesSound' /\ RunsOwned'
<1> DEFINE k == [ctl[s] EXCEPT !.pc = l]
<1>1. ctl \in [Sessions -> Control]
  BY DEF IInv, TypeInv, TypeOK
<1>2. ctl[s] \in Control
  BY <1>1
<1>3. ctl' = [ctl EXCEPT ![s] = k]
  BY <1>1, <1>2 DEF Goto, Control
<1>4. k.stream = ctl[s].stream /\ k.cur = ctl[s].cur
  BY <1>2 DEF Control
<1> HIDE DEF k
<1> QED
  BY <1>3, <1>4, StreamKept, QuietStep

\* What CurTyped says, and that the job in work is soundly recorded.
LEMMA CurSound ==
    ASSUME IInv, NEW s \in Sessions, ctl[s].pc \in InWork, DifyGrows
    PROVE  /\ ctl[s].cur \in Jobs
           /\ Cur(s) \in WorkflowJob
           /\ Cur(s) = Object(s, ctl[s].cur)
           /\ Recorded(dify', ctl[s].cur, Cur(s))
           /\ ctl[s].pc \in WithRun => /\ Cur(s).run \in Runs
                                       /\ dify'[Cur(s).run].job = ctl[s].cur
           /\ ctl[s].pc = "stream" =>
                 /\ ctl[s].stream \in Runs
                 /\ dify'[ctl[s].stream].job = ctl[s].cur
<1>1. /\ ctl[s].cur \in Jobs
      /\ mem[s][ctl[s].cur] # None
      /\ Cur(s) = mem[s][ctl[s].cur]
      /\ Cur(s) \in WorkflowJob
      /\ Cur(s) = Object(s, ctl[s].cur)
      /\ ctl[s].pc \in WithRun => Cur(s).run \in Runs
      /\ ctl[s].pc = "stream" => ctl[s].stream \in Runs
  BY CurTyped DEF IInv
<1>2. Recorded(dify', ctl[s].cur, Cur(s))
  BY <1>1, CopiesTyped, RecordedStays DEF CopySound
<1>3. None \notin Runs /\ None \notin Jobs
  BY RunnerAssumption
<1>4. ctl[s].pc \in WithRun => dify'[Cur(s).run].job = ctl[s].cur
  BY <1>1, <1>2, <1>3 DEF Recorded
<1>5. ctl[s].pc = "stream" => dify'[ctl[s].stream].job = ctl[s].cur
  BY <1>1, <1>3 DEF IInv, RunsOwned, DifyGrows
<1> QED
  BY <1>1, <1>2, <1>4, <1>5

-----------------------------------------------------------------------------
(* The actions.                                                            *)

\* Taking a message and ending the task.
LEMMA TakeSound ==
    ASSUME IInv, NEW w \in Workers,
           (\E j \in Jobs : TakeJob(w, j)) \/ TakeSweep(w) \/ EndTask(w)
    PROVE  CopiesSound' /\ RunsOwned'
<1>0. w \in Sessions /\ \A j \in Jobs : Nothing[j] = None
  BY DEF Sessions, Nothing
<1>1. ASSUME NEW m, NEW jobs, NEW objects, TakeMessage(w, m, jobs, objects),
             \A j \in Jobs : objects[j] = None \/ objects[j] = db[j]
      PROVE  CopiesSound' /\ RunsOwned'
  <2> DEFINE k == [Idle EXCEPT !.pc = "next", !.msg = m, !.todo = jobs]
  <2>1. k.stream = None
    BY DEF Idle
  <2>2. /\ ctl' = [ctl EXCEPT ![w] = k]
        /\ mem' = [mem EXCEPT ![w] = objects]
        /\ base' = [base EXCEPT ![w] = objects]
        /\ UNCHANGED <<db, onDisk>> /\ dify' = dify
    BY <1>1 DEF TakeMessage, data
  <2> HIDE DEF k
  <2> QED
    BY <1>0, <1>1, <2>1, <2>2, DifySame, LoadStep, StreamKept
<1>2. ASSUME NEW j \in Jobs, TakeJob(w, j) PROVE CopiesSound' /\ RunsOwned'
  BY <1>0, <1>1, <1>2 DEF TakeJob
<1>3. ASSUME TakeSweep(w) PROVE CopiesSound' /\ RunsOwned'
  <2> DEFINE active == {j \in Jobs : db[j].status \in ActiveStatuses}
             objects == [j \in Jobs |-> IF j \in active THEN db[j] ELSE None]
  <2>1. \A j \in Jobs : objects[j] = None \/ objects[j] = db[j]
    OBVIOUS
  <2>2. TakeMessage(w, Sweep, active, objects)
    BY <1>3 DEF TakeSweep
  <2> HIDE DEF active, objects
  <2> QED
    BY <1>1, <2>1, <2>2
<1>4. ASSUME EndTask(w) PROVE CopiesSound' /\ RunsOwned'
  <2>1. Idle.stream = None
    BY DEF Idle
  <2>2. /\ ctl' = [ctl EXCEPT ![w] = Idle]
        /\ mem' = [mem EXCEPT ![w] = Nothing]
        /\ base' = [base EXCEPT ![w] = Nothing]
        /\ UNCHANGED <<db, onDisk>> /\ dify' = dify
    BY <1>4 DEF EndTask, Close, data
  <2> QED
    BY <1>0, <2>1, <2>2, DifySame, LoadStep, StreamKept
<1> QED
  BY <1>2, <1>3, <1>4

\* A session edits the object it selects and goes on with a fresh control.
LEMMA FreshSound ==
    ASSUME IInv, NEW s \in Sessions, NEW j \in Jobs, NEW object \in WorkflowJob,
           Edit(s, j, object), Allowed(dify, j, Object(s, j), object),
           NEW k, ctl' = [ctl EXCEPT ![s] = k], k.stream = None,
           UNCHANGED <<db, dify>>
    PROVE  CopiesSound' /\ RunsOwned'
  BY DifySame, EditSound, StreamKept

\* The objects that RunJob and Request edit.
LEMMA SelectedSound ==
    ASSUME IInv, NEW s \in Sessions, NEW j \in Jobs
    PROVE  /\ Object(s, j) \in WorkflowJob
           /\ Recorded(dify, j, Object(s, j))
           /\ db[j] \in WorkflowJob
           /\ Recorded(dify, j, db[j])
  BY CopiesTyped DEF Object, CopySound, Sound, Recorded

\* run(job_id): every branch it may take.
LEMMA RunSound ==
    ASSUME IInv, NEW w \in Workers, NEW j \in Jobs,
           \/ RunFinal(w, j) \/ RunCancelRequested(w, j) \/ RunRecover(w, j)
           \/ RunMissingKey(w, j) \/ RunUpload(w, j) \/ RunStart(w, j)
    PROVE  CopiesSound' /\ RunsOwned'
<1> DEFINE job == Object(w, j)
<1>0. /\ w \in Sessions /\ job \in WorkflowJob /\ Recorded(dify, j, job)
  BY SelectedSound DEF Sessions
<1>1. ASSUME NEW l, NEW n, RunJob(w, j, l, n)
      PROVE  LET k == [Idle EXCEPT !.pc = l, !.after = n, !.cur = j,
                            !.msg = ctl[w].msg, !.todo = ctl[w].todo \ {j}] IN
             /\ ctl' = [ctl EXCEPT ![w] = k]
             /\ k.stream = None
             /\ UNCHANGED <<db, dify>>
  BY <1>1 DEF RunJob, Idle
<1>2. ASSUME NEW l, NEW n, NEW object \in WorkflowJob, RunJob(w, j, l, n),
             Edit(w, j, object), Allowed(dify, j, job, object)
      PROVE  CopiesSound' /\ RunsOwned'
  BY <1>0, <1>1, <1>2, FreshSound
<1>3. \A status \in ActiveStatuses :
          /\ [job EXCEPT !.status = status] \in WorkflowJob
          /\ Allowed(dify, j, job, [job EXCEPT !.status = status])
  BY <1>0, MarkAllowed, MarkTyped
<1>4. ASSUME RunFinal(w, j) PROVE CopiesSound' /\ RunsOwned'
  <2>1. RunJob(w, j, "next", "next") /\ UNCHANGED <<onDisk, mem, base>>
    BY <1>4 DEF RunFinal
  <2> QED
    BY <1>0, <1>1, <2>1, DifySame, QuietStep, StreamKept
<1>5. ASSUME RunCancelRequested(w, j) PROVE CopiesSound' /\ RunsOwned'
  <2>1. /\ MarkCancelled(job) \in WorkflowJob
        /\ Allowed(dify, j, job, MarkCancelled(job))
    BY <1>0, MarkAllowed, MarkTyped
  <2> QED
    BY <1>2, <1>5, <2>1 DEF RunCancelRequested
<1>6. ASSUME RunMissingKey(w, j) PROVE CopiesSound' /\ RunsOwned'
  <2>1. LET code == "missing_dify_workflow_api_key" IN
        /\ MarkFailed(job, code) \in WorkflowJob
        /\ Allowed(dify, j, job, MarkFailed(job, code))
    BY <1>0, MarkAllowed, MarkTyped DEF ErrorCodes
  <2> QED
    BY <1>2, <1>6, <2>1 DEF RunMissingKey
<1>7. ASSUME RunRecover(w, j) \/ RunUpload(w, j) \/ RunStart(w, j)
      PROVE  CopiesSound' /\ RunsOwned'
  <2>1. PICK status \in ActiveStatuses : \E l, n :
            /\ RunJob(w, j, l, n)
            /\ Edit(w, j, [job EXCEPT !.status = status])
    BY <1>7 DEF RunRecover, RunUpload, RunStart, ActiveStatuses
  <2> QED
    BY <1>2, <1>3, <2>1
<1> QED
  BY <1>4, <1>5, <1>6, <1>7

\* The next attempt of the start loop, or the way out of it.
LEMMA StartExceptionSound ==
    ASSUME IInv, NEW w \in Workers, ctl[w].pc \in {"post", "stream"},
           StartException(w), db' = db, DifyGrows
    PROVE  CopiesSound' /\ RunsOwned'
<1>0. w \in Sessions /\ ctl[w].pc \in InWork
  BY DEF Sessions, InWork
<1>1. CASE Goto(w, "handler") /\ UNCHANGED <<onDisk, mem, base>>
  BY <1>0, <1>1, GotoSound
<1>2. CASE /\ Edit(w, ctl[w].cur, [Cur(w) EXCEPT !.status = "starting"])
           /\ ctl' = [ctl EXCEPT ![w].pc = "commit", ![w].after = "post",
                                 ![w].stream = None, ![w].attempt = @ + 1]
  <2> DEFINE object == [Cur(w) EXCEPT !.status = "starting"]
             k == [ctl[w] EXCEPT !.pc = "commit", !.after = "post",
                                 !.stream = None, !.attempt = @ + 1]
  <2>1. /\ ctl[w].cur \in Jobs /\ Cur(w) \in WorkflowJob
        /\ Cur(w) = Object(w, ctl[w].cur)
        /\ Recorded(dify', ctl[w].cur, Cur(w))
    BY <1>0, CurSound
  <2>2. object \in WorkflowJob /\ Allowed(dify', ctl[w].cur, Cur(w), object)
    BY <2>1, MarkAllowed, MarkTyped DEF ActiveStatuses
  <2>3. ctl \in [Sessions -> Control] /\ ctl[w] \in Control
    BY <1>0 DEF IInv, TypeInv, TypeOK
  <2>4. ctl' = [ctl EXCEPT ![w] = k] /\ k.stream = None
    BY <1>2, <2>3 DEF Control
  <2>5. Edit(w, ctl[w].cur, object)
    BY <1>2
  <2> HIDE DEF k, object
  <2> QED
    BY <1>0, <2>1, <2>2, <2>4, <2>5, EditSound, StreamKept
<1> QED
  BY <1>1, <1>2 DEF StartException

\* Upload, start and post.
LEMMA StartSound ==
    ASSUME IInv, NEW w \in Workers,
           \/ Upload(w) \/ UploadFails(w) \/ StartRun(w)
           \/ PostRun(w) \/ PostFails(w)
    PROVE  CopiesSound' /\ RunsOwned'
<1>0. w \in Sessions
  BY DEF Sessions
<1>1. CASE Upload(w)
  <2> DEFINE object == [Cur(w) EXCEPT !.manifest = "uploaded", !.inputs = TRUE]
  <2>1. /\ ctl[w].pc \in InWork /\ db' = db /\ DifyGrows
        /\ Save(w, ctl[w].cur, object, "starting")
    BY <1>1, DifySame DEF Upload, Proceed, InWork
  <2>2. object \in WorkflowJob /\ Allowed(dify', ctl[w].cur, Cur(w), object)
    BY <1>0, <2>1, CurSound, MarkAllowed, MarkTyped
  <2> HIDE DEF object
  <2> QED
    BY <1>0, <2>1, <2>2, SaveSound
<1>2. CASE UploadFails(w)
  BY <1>0, <1>2, DifySame, GotoSound DEF UploadFails, data
<1>3. CASE StartRun(w)
  <2> DEFINE object == [Cur(w) EXCEPT !.status = "starting"]
  <2>1. /\ ctl[w].pc \in InWork /\ db' = db /\ DifyGrows
        /\ Save(w, ctl[w].cur, object, "post")
    BY <1>3, DifySame DEF StartRun, Proceed, InWork
  <2>2. object \in WorkflowJob /\ Allowed(dify', ctl[w].cur, Cur(w), object)
    BY <1>0, <2>1, CurSound, MarkAllowed, MarkTyped DEF ActiveStatuses
  <2> HIDE DEF object
  <2> QED
    BY <1>0, <2>1, <2>2, SaveSound
<1>4. CASE PostRun(w)
  <2> DEFINE new == CHOOSE r \in FreeRuns : TRUE
  <2>1. /\ ctl[w].pc \in InWork /\ CreateRun(w)
        /\ ctl' = [ctl EXCEPT ![w].pc = "stream", ![w].stream = new]
        /\ UNCHANGED <<db, onDisk, mem, base>>
    BY <1>4 DEF PostRun, InWork
  <2>2. DifyGrows /\ dify'[new].job = ctl[w].cur
    BY <2>1, CreateRunGrows
  <2> HIDE DEF new
  <2>3. ctl[w].cur # None
    BY <1>0, <2>1, <2>2, CurSound, RunnerAssumption
  <2>4. ctl \in [Sessions -> Control]
    BY DEF IInv, TypeInv, TypeOK
  <2>5. ASSUME NEW t \in Sessions, ctl'[t].stream # None
        PROVE  ctl'[t].cur # None /\ dify'[ctl'[t].stream].job = ctl'[t].cur
    <3>1. CASE t = w
      <4>1. ctl'[t].stream = new /\ ctl'[t].cur = ctl[w].cur
        BY <2>1, <2>4, <3>1 DEF Control
      <4> QED
        BY <2>2, <2>3, <4>1
    <3>2. CASE t # w
      <4>1. ctl'[t] = ctl[t] /\ ctl[t] \in Control
        BY <2>1, <2>4, <3>2
      <4>2. ctl[t].stream \in Runs
        BY <2>5, <4>1 DEF Control
      <4> QED
        BY <2>2, <2>5, <4>1, <4>2 DEF IInv, RunsOwned, DifyGrows
    <3> QED
      BY <3>1, <3>2
  <2>6. RunsOwned'
    BY <2>2, <2>5 DEF RunsOwned, DifyGrows
  <2> QED
    BY <2>1, <2>2, <2>6, QuietStep
<1>5. CASE PostFails(w)
  <2>1. /\ ctl[w].pc \in InWork /\ ctl[w].pc \in {"post", "stream"}
        /\ dify' = dify \/ CreateRun(w)
        /\ StartException(w) /\ db' = db
    BY <1>5 DEF PostFails, InWork
  <2>2. DifyGrows
    BY <2>1, DifySame, CreateRunGrows
  <2> QED
    BY <2>1, <2>2, StartExceptionSound
<1> QED
  BY <1>1, <1>2, <1>3, <1>4, <1>5

\* The event stream.
LEMMA StreamSound ==
    ASSUME IInv, NEW w \in Workers,
           \/ StreamStarted(w) \/ StreamFinished(w) \/ StreamError(w)
           \/ StreamEnds(w) \/ StreamBreaks(w) \/ RuntimeExceeded(w)
    PROVE  CopiesSound' /\ RunsOwned'
<1>0. w \in Sessions
  BY DEF Sessions
<1>1. ASSUME NEW name \in EventNames, ctl[w].pc = "stream", Receive(w, name)
      PROVE  CopiesSound' /\ RunsOwned'
  <2> DEFINE run == ctl[w].stream
             object == ApplyEvent(Cur(w), name, run, dify[run].state)
             l == IF IsFinal(object) THEN "next" ELSE "stream"
  <2>1. /\ ctl[w].pc \in InWork /\ db' = db /\ dify' = dify
        /\ Save(w, ctl[w].cur, object, l)
    BY <1>1 DEF Receive, Proceed, InWork
  <2>2. /\ DifyGrows /\ ctl[w].cur \in Jobs /\ Cur(w) \in WorkflowJob
        /\ Recorded(dify, ctl[w].cur, Cur(w))
        /\ run \in Runs /\ dify[run].job = ctl[w].cur
    BY <1>0, <1>1, <2>1, DifySame, CurSound
  <2>3. dify[run].state \in DifyStates
    BY <2>2 DEF IInv, TypeInv, TypeOK, DifyRun
  <2>4. object \in WorkflowJob /\ Allowed(dify, ctl[w].cur, Cur(w), object)
    BY <2>2, <2>3, ApplyTyped, ApplyAllowed
  <2> HIDE DEF object, l
  <2> QED
    BY <1>0, <2>1, <2>2, <2>4, SaveSound
<1>2. ASSUME StreamStarted(w) \/ StreamFinished(w) \/ StreamError(w)
      PROVE  CopiesSound' /\ RunsOwned'
  <2>1. PICK name \in EventNames : ctl[w].pc = "stream" /\ Receive(w, name)
    BY <1>2 DEF StreamStarted, StreamFinished, StreamError, EventNames
  <2> QED
    BY <1>1, <2>1
<1>3. ASSUME StreamEnds(w) \/ RuntimeExceeded(w)
      PROVE  CopiesSound' /\ RunsOwned'
  BY <1>0, <1>3, DifySame, GotoSound DEF StreamEnds, RuntimeExceeded, data
<1>4. ASSUME StreamBreaks(w) PROVE CopiesSound' /\ RunsOwned'
  <2>1. ctl[w].pc \in {"post", "stream"} /\ StartException(w) /\ db' = db
        /\ dify' = dify
    BY <1>4 DEF StreamBreaks, Proceed
  <2> QED
    BY <2>1, DifySame, StartExceptionSound
<1> QED
  BY <1>2, <1>3, <1>4

\* The handler and the recovery.
LEMMA RecoverSound ==
    ASSUME IInv, NEW w \in Workers,
           \/ Reconnect(w) \/ GiveUp(w) \/ GetEvents(w) \/ ApplyRecovered(w)
           \/ GetRunDetail(w) \/ RecoverFails(w)
    PROVE  CopiesSound' /\ RunsOwned'
<1> DEFINE j == ctl[w].cur
           r == Cur(w).run
<1>0. /\ w \in Sessions /\ db' = db /\ dify' = dify /\ DifyGrows
      /\ ctl \in [Sessions -> Control] /\ ctl[w] \in Control
  BY DifySame DEF Sessions, Reconnect, GiveUp, GetEvents, ApplyRecovered,
                  GetRunDetail, RecoverFails, Proceed, data, IInv, TypeInv, TypeOK
<1>1. /\ ctl[w].pc \in InWork
      /\ Reconnect(w) \/ GiveUp(w) \/ ctl[w].pc \in WithRun
  BY DEF Reconnect, GiveUp, GetEvents, ApplyRecovered, GetRunDetail,
         RecoverFails, InWork, WithRun
<1>2. /\ j \in Jobs /\ Cur(w) \in WorkflowJob /\ Cur(w) = Object(w, j)
      /\ Recorded(dify, j, Cur(w))
      /\ ctl[w].pc \in WithRun => r \in Runs /\ dify[r].job = j
  BY <1>0, <1>1, CurSound
<1>3. r \in Runs => dify[r].state \in DifyStates
  BY DEF IInv, TypeInv, TypeOK, DifyRun
<1> HIDE DEF j, r
<1>4. ASSUME NEW object \in WorkflowJob, Allowed(dify, j, Cur(w), object),
             Edit(w, j, object),
             NEW k, ctl' = [ctl EXCEPT ![w] = k],
             k.stream = ctl[w].stream, k.cur = ctl[w].cur
      PROVE  CopiesSound' /\ RunsOwned'
  BY <1>0, <1>2, <1>4, EditSound, StreamKept
<1>5. CASE Reconnect(w)
  <2> DEFINE object == [Cur(w) EXCEPT !.status = "reconnecting"]
             k == [ctl[w] EXCEPT !.pc = "commit", !.after = "events",
                                 !.recon = @ + 1]
  <2>1. object \in WorkflowJob /\ Allowed(dify, j, Cur(w), object)
    BY <1>2, MarkAllowed, MarkTyped DEF ActiveStatuses
  <2>2. /\ Edit(w, j, object) /\ ctl' = [ctl EXCEPT ![w] = k]
        /\ k.stream = ctl[w].stream /\ k.cur = ctl[w].cur
    BY <1>0, <1>5 DEF Reconnect, Control, j
  <2> HIDE DEF object, k
  <2> QED
    BY <1>4, <2>1, <2>2
<1>6. CASE GiveUp(w)
  <2> DEFINE object == MarkFailed(Cur(w), RuntimeErrorCode(Cur(w)))
  <2>1. object \in WorkflowJob /\ Allowed(dify, j, Cur(w), object)
    BY <1>2, MarkAllowed, MarkTyped
  <2>2. Save(w, j, object, "next")
    BY <1>6 DEF GiveUp, j
  <2> HIDE DEF object
  <2> QED
    BY <1>0, <1>1, <2>1, <2>2, SaveSound DEF j
<1>7. CASE GetEvents(w)
  <2>1. PICK evs : ctl' = [ctl EXCEPT ![w].pc = "event", ![w].evs = evs]
    BY <1>7 DEF GetEvents
  <2> DEFINE k == [ctl[w] EXCEPT !.pc = "event", !.evs = evs]
  <2>2. /\ ctl' = [ctl EXCEPT ![w] = k]
        /\ k.stream = ctl[w].stream /\ k.cur = ctl[w].cur
    BY <1>0, <2>1 DEF Control
  <2>3. UNCHANGED <<db, onDisk, mem, base>>
    BY <1>7 DEF GetEvents, data
  <2> HIDE DEF k
  <2> QED
    BY <1>0, <2>2, <2>3, QuietStep, StreamKept
<1>8. CASE ApplyRecovered(w)
  <2> DEFINE object == ApplyEvent(Cur(w), Head(ctl[w].evs), r, dify[r].state)
             k == [ctl[w] EXCEPT
                     !.pc = "commit",
                     !.after = IF IsFinal(object) THEN "next" ELSE "event",
                     !.evs = IF IsFinal(object) THEN <<>> ELSE Tail(@)]
  <2>1. r \in Runs /\ dify[r].job = j
    BY <1>2, <1>8 DEF ApplyRecovered, WithRun
  <2>2. ctl[w].evs \in Seq(EventNames) /\ ctl[w].evs # <<>>
    BY <1>0, <1>8 DEF Control, ApplyRecovered
  <2>3. Head(ctl[w].evs) \in EventNames
    BY <2>2
  <2>4. object \in WorkflowJob /\ Allowed(dify, j, Cur(w), object)
    BY <1>2, <1>3, <2>1, <2>3, ApplyTyped, ApplyAllowed
  <2>5. /\ Edit(w, j, object)
        /\ ctl' = [ctl EXCEPT ![w].pc = "commit",
                     ![w].after = IF IsFinal(object) THEN "next" ELSE "event",
                     ![w].evs = IF IsFinal(object) THEN <<>> ELSE Tail(@)]
    BY <1>8 DEF ApplyRecovered, j, r
  <2> HIDE DEF object
  <2>6. /\ ctl' = [ctl EXCEPT ![w] = k]
        /\ k.stream = ctl[w].stream /\ k.cur = ctl[w].cur
    BY <1>0, <2>5 DEF Control
  <2> HIDE DEF k
  <2> QED
    BY <1>4, <2>4, <2>5, <2>6
<1>9. CASE GetRunDetail(w)
  <2> DEFINE object == ApplyRunDetail(Cur(w), r, dify[r].state)
             l == IF IsFinal(object) \/ ctl[w].recon = 0
                  THEN "next" ELSE "handler"
  <2>1. r \in Runs /\ dify[r].job = j
    BY <1>2, <1>9 DEF GetRunDetail, WithRun
  <2>2. "error" \in EventNames
    BY DEF EventNames
  <2>3. object \in WorkflowJob /\ Allowed(dify, j, Cur(w), object)
    BY <1>2, <1>3, <2>1, <2>2, ApplyTyped, ApplyAllowed
  <2>4. Save(w, j, object, l)
    BY <1>9 DEF GetRunDetail, j, r
  <2> HIDE DEF object, l
  <2> QED
    BY <1>0, <1>1, <2>3, <2>4, SaveSound DEF j
<1>10. CASE RecoverFails(w)
  BY <1>0, <1>10, GotoSound DEF RecoverFails, data
<1> QED
  BY <1>5, <1>6, <1>7, <1>8, <1>9, <1>10

\* Cancel requests.
LEMMA CancelSound ==
    ASSUME IInv, NEW c \in Cancels,
           \/ \E j \in Jobs :
                 CancelFinal(c, j) \/ CancelStarted(c, j) \/ CancelNotStarted(c, j)
           \/ StopTask(c) \/ StopFails(c)
    PROVE  CopiesSound' /\ RunsOwned'
<1>0. c \in Sessions
  BY DEF Sessions
<1>1. ASSUME NEW j, NEW l, NEW n, Request(c, j, l, n)
      PROVE  LET k == [Idle EXCEPT !.pc = l, !.after = n, !.cur = j] IN
             /\ ctl' = [ctl EXCEPT ![c] = k]
             /\ k.stream = None
             /\ UNCHANGED <<db, dify>>
             /\ ctl[c].pc = "idle"
  BY <1>1 DEF Request, Idle
<1>2. ASSUME NEW j \in Jobs, NEW n, NEW object \in WorkflowJob,
             Request(c, j, "commit", n), Edit(c, j, object),
             Allowed(dify, j, Object(c, j), object)
      PROVE  CopiesSound' /\ RunsOwned'
  BY <1>0, <1>1, <1>2, FreshSound
<1>3. ASSUME NEW j \in Jobs, CancelFinal(c, j) PROVE CopiesSound' /\ RunsOwned'
  <2>1. Request(c, j, "done", "done") /\ UNCHANGED <<onDisk, mem, base>>
    BY <1>3 DEF CancelFinal
  <2> QED
    BY <1>0, <1>1, <2>1, DifySame, QuietStep, StreamKept
<1>4. ASSUME NEW j \in Jobs, CancelStarted(c, j) \/ CancelNotStarted(c, j)
      PROVE  CopiesSound' /\ RunsOwned'
  <2>1. Object(c, j) \in WorkflowJob /\ Recorded(dify, j, Object(c, j))
    BY <1>0, SelectedSound
  <2>2. /\ [Object(c, j) EXCEPT !.status = "cancel_requested"] \in WorkflowJob
        /\ MarkCancelled(Object(c, j)) \in WorkflowJob
        /\ Allowed(dify, j, Object(c, j),
                   [Object(c, j) EXCEPT !.status = "cancel_requested"])
        /\ Allowed(dify, j, Object(c, j), MarkCancelled(Object(c, j)))
    BY <2>1, MarkAllowed, MarkTyped DEF ActiveStatuses
  <2> QED
    BY <1>2, <1>4, <2>2 DEF CancelStarted, CancelNotStarted
<1>5. ASSUME NEW r \in Runs, StopRun(r) PROVE DifyGrows
  <2>1. dify \in [Runs -> DifyRun]
    BY DEF IInv, TypeInv, TypeOK
  <2> QED
    BY <1>5, <2>1 DEF StopRun, DifyGrows, DifyRun, IInv, RunsOwned
<1>6. CASE StopTask(c)
  <2>1. ctl[c].pc \in InWork /\ ctl[c].pc \in WithRun
    BY <1>6 DEF StopTask, InWork, WithRun
  <2>2. Cur(c).run \in Runs
    BY <1>0, <2>1, DifySame, CurTyped DEF IInv
  <2>3. DifyGrows
    BY <1>5, <1>6, <2>2 DEF StopTask
  <2>4. /\ MarkCancelled(Cur(c)) \in WorkflowJob
        /\ Allowed(dify', ctl[c].cur, Cur(c), MarkCancelled(Cur(c)))
    BY <1>0, <2>1, <2>3, CurSound, MarkAllowed, MarkTyped
  <2> QED
    BY <1>0, <1>6, <2>1, <2>3, <2>4, SaveSound DEF StopTask
<1>7. CASE StopFails(c)
  <2>1. ctl[c].pc \in InWork /\ ctl[c].pc \in WithRun
    BY <1>7 DEF StopFails, InWork, WithRun
  <2>2. Cur(c).run \in Runs
    BY <1>0, <2>1, CurTyped DEF IInv
  <2>3. DifyGrows
    BY <1>5, <1>7, <2>2, DifySame DEF StopFails
  <2> DEFINE k == [Idle EXCEPT !.pc = "done"]
  <2>4. k.stream = None
    BY DEF Idle
  <2>5. /\ ctl' = [ctl EXCEPT ![c] = k]
        /\ mem' = [mem EXCEPT ![c] = Nothing]
        /\ base' = [base EXCEPT ![c] = Nothing]
        /\ UNCHANGED <<db, onDisk>>
    BY <1>7 DEF StopFails, Close
  <2>6. \A j \in Jobs : Nothing[j] = None
    BY DEF Nothing
  <2> HIDE DEF k
  <2> QED
    BY <1>0, <2>3, <2>4, <2>5, <2>6, LoadStep, StreamKept
<1> QED
  BY <1>3, <1>4, <1>6, <1>7

\* A commit, by whichever session.
LEMMA CommitStepSound ==
    ASSUME IInv, NEW s \in Sessions, Commit(s)
    PROVE  CopiesSound' /\ RunsOwned'
<1> DEFINE k == [ctl[s] EXCEPT !.pc = ctl[s].after]
<1>1. ctl \in [Sessions -> Control] /\ ctl[s] \in Control
  BY DEF IInv, TypeInv, TypeOK
<1>2. /\ ctl' = [ctl EXCEPT ![s] = k]
      /\ k.stream = ctl[s].stream /\ k.cur = ctl[s].cur
      /\ dify' = dify
  BY <1>1 DEF Commit, Goto, Control
<1> HIDE DEF k
<1> QED
  BY <1>2, CommitSound, DifySame, StreamKept

\* The environment.
LEMMA EnvironmentSound ==
    ASSUME IInv,
           \/ \E s \in Sessions : Crash(s)
           \/ \E w \in Workers : Redeliver(w)
           \/ \E r \in Runs : DifyEnds(r)
           \/ ConfigureKey
    PROVE  CopiesSound' /\ RunsOwned'
<1>0. dify \in [Runs -> DifyRun] /\ ctl \in [Sessions -> Control]
  BY DEF IInv, TypeInv, TypeOK
<1>1. ASSUME NEW s \in Sessions, Crash(s) PROVE CopiesSound' /\ RunsOwned'
  <2> DEFINE k == IF s \in Workers THEN Idle ELSE [Idle EXCEPT !.pc = "done"]
  <2>1. k.stream = None
    BY DEF Idle
  <2>2. /\ ctl' = [ctl EXCEPT ![s] = k]
        /\ mem' = [mem EXCEPT ![s] = Nothing]
        /\ base' = [base EXCEPT ![s] = Nothing]
        /\ UNCHANGED <<db, onDisk>> /\ dify' = dify
    BY <1>1 DEF Crash, Close, data
  <2>3. \A j \in Jobs : Nothing[j] = None
    BY DEF Nothing
  <2> HIDE DEF k
  <2> QED
    BY <2>1, <2>2, <2>3, DifySame, LoadStep, StreamKept
<1>2. ASSUME NEW w \in Workers, Redeliver(w) PROVE CopiesSound' /\ RunsOwned'
  <2> DEFINE k == [ctl[w] EXCEPT !.msg = None]
  <2>1. w \in Sessions /\ ctl[w] \in Control
    BY <1>0 DEF Sessions
  <2>2. /\ ctl' = [ctl EXCEPT ![w] = k]
        /\ k.stream = ctl[w].stream /\ k.cur = ctl[w].cur
    BY <1>0, <1>2, <2>1 DEF Redeliver, Control
  <2>3. UNCHANGED <<db, onDisk, mem, base>> /\ dify' = dify
    BY <1>2 DEF Redeliver, data
  <2> HIDE DEF k
  <2> QED
    BY <2>1, <2>2, <2>3, DifySame, QuietStep, StreamKept
<1>3. ASSUME NEW r \in Runs, DifyEnds(r) PROVE CopiesSound' /\ RunsOwned'
  <2>1. PICK outcome \in Outcomes : dify' = [dify EXCEPT ![r].state = outcome]
    BY <1>3 DEF DifyEnds
  <2>2. outcome # "none" /\ dify[r].state = "running"
    BY <1>3, RunnerAssumption DEF DifyEnds, DifyFinal
  <2>3. DifyGrows
    BY <1>0, <2>1, <2>2 DEF DifyGrows, DifyRun, IInv, RunsOwned
  <2>4. UNCHANGED <<db, onDisk, ctl, mem, base>>
    BY <1>3 DEF DifyEnds
  <2>5. RunsOwned'
    BY <1>0, <2>3, <2>4 DEF RunsOwned, DifyGrows, IInv, Control
  <2> QED
    BY <2>3, <2>4, <2>5, QuietStep
<1>4. ASSUME ConfigureKey PROVE CopiesSound' /\ RunsOwned'
  <2>1. UNCHANGED <<db, onDisk, dify, ctl, mem, base>>
    BY <1>4 DEF ConfigureKey, data
  <2> QED
    BY <2>1 DEF IInv, CopiesSound, RunsOwned
<1> QED
  BY <1>1, <1>2, <1>3, <1>4

-----------------------------------------------------------------------------
(* The invariant.                                                          *)

\* At first every row is new, every file is there, and nothing is loaded.
LEMMA InitSound == Init => IInv
<1> SUFFICES ASSUME Init PROVE IInv
  OBVIOUS
<1>1. TypeInv
  BY InitTyped
<1>2. CopiesSound
  BY DEF Init, CopiesSound, Sound, NewJob, IsFinal, FinalStatuses, Nothing
<1>3. RunsOwned
  BY DEF Init, RunsOwned, NoRun, Idle
<1> QED
  BY <1>1, <1>2, <1>3 DEF IInv

\* IInv is inductive.
LEMMA NextSound == IInv /\ [Next]_vars => IInv'
<1> SUFFICES ASSUME IInv, [Next]_vars PROVE IInv'
  OBVIOUS
<1>1. TypeInv'
  BY NextTyped DEF IInv
<1>2. CopiesSound' /\ RunsOwned'
  <2>1. CASE \E w \in Workers : WorkerStep(w)
    <3> PICK w \in Workers : WorkerStep(w)
      BY <2>1
    <3>1. w \in Sessions
      BY DEF Sessions
    <3> QED
      BY <3>1, TakeSound, RunSound, StartSound, StreamSound, RecoverSound,
         CommitStepSound DEF WorkerStep
  <2>2. CASE \E c \in Cancels : CancelStep(c)
    <3> PICK c \in Cancels : CancelStep(c)
      BY <2>2
    <3>1. c \in Sessions
      BY DEF Sessions
    <3> QED
      BY <3>1, CancelSound, CommitStepSound DEF CancelStep
  <2>3. CASE \/ \E s \in Sessions : Crash(s)
             \/ \E w \in Workers : Redeliver(w)
             \/ \E r \in Runs : DifyEnds(r)
             \/ ConfigureKey
    BY <2>3, EnvironmentSound
  <2>4. CASE UNCHANGED vars
    BY <2>4 DEF vars, IInv, CopiesSound, RunsOwned
  <2> QED
    BY <2>1, <2>2, <2>3, <2>4 DEF Next, Quiescent
<1> QED
  BY <1>1, <1>2 DEF IInv

\* IInv is an invariant of WorkflowRunner.
THEOREM Invariant == Spec => []IInv
  BY InitSound, NextSound, PTL DEF Spec

\* A result that a client may fetch is the output of a run that Dify completed
\* for this job, whatever stale copies workers and cancel requests commit.
THEOREM ResultsAreReadable == Spec => []ResultReadable
<1>1. IInv => ResultReadable
  BY DEF IInv, TypeInv, TypeOK, CopiesSound, Sound, ResultReadable,
         ResultStatus, WorkflowJob, ActiveStatuses, FinalStatuses
<1> QED
  BY <1>1, Invariant, PTL

\* A failed job has an error code, whichever session wrote its status last.
THEOREM FailuresAreExplained == Spec => []FailureExplained
<1>1. IInv => FailureExplained
  BY DEF IInv, CopiesSound, Sound, FailureExplained
<1> QED
  BY <1>1, Invariant, PTL

\* No file of a finished job stays in upload_dir, and no row forgets a file
\* that is there.
THEOREM FilesAreCleanedUp == Spec => []NoFileLeftBehind
<1>1. IInv => NoFileLeftBehind
  BY DEF IInv, CopiesSound, Sound, NoFileLeftBehind
<1> QED
  BY <1>1, Invariant, PTL

-----------------------------------------------------------------------------
(* Cancel requests that have stopped a run.                                *)

\* A request that answers, or commits its answer, for a job with a run has
\* seen that run end.
StopSeen(c) ==
    /\ \/ ctl[c].pc = "replied"
       \/ ctl[c].pc = "commit" /\ ctl[c].after = "replied"
    /\ Cur(c).run # None
    => dify[Cur(c).run].state \in DifyFinal

\* A run that has ended stays so.
EndsStay ==
    \A r \in Runs : dify[r].state \in DifyFinal => dify'[r].state \in DifyFinal

LEMMA CreateRunEndsStay ==
    ASSUME IInv, NEW w \in Workers, CreateRun(w)
    PROVE  EndsStay
<1> DEFINE new == CHOOSE r \in FreeRuns : TRUE
<1>1. new \in FreeRuns
  BY DEF CreateRun
<1>2. dify' = [dify EXCEPT ![new] = [state |-> "running", job |-> ctl[w].cur,
                                     file |-> Cur(w).inputs]]
  BY DEF CreateRun
<1> HIDE DEF new
<1>3. dify \in [Runs -> DifyRun] /\ dify[new].state = "none"
  BY <1>1 DEF FreeRuns, IInv, TypeInv, TypeOK
<1> QED
  BY <1>2, <1>3 DEF EndsStay, DifyFinal

LEMMA StopRunEndsStay ==
    ASSUME IInv, NEW r \in Runs, StopRun(r)
    PROVE  EndsStay
  BY DEF StopRun, EndsStay, IInv, TypeInv, TypeOK, DifyFinal, DifyRun

LEMMA EndsStayNext ==
    ASSUME IInv, [Next]_vars
    PROVE  EndsStay
<1>1. ASSUME NEW w \in Workers, WorkerStep(w) \/ Redeliver(w) PROVE EndsStay
  <2>1. dify' = dify \/ CreateRun(w)
    BY <1>1 DEF WorkerStep, TakeJob, TakeSweep, TakeMessage, EndTask, RunFinal,
        RunCancelRequested, RunRecover, RunMissingKey, RunUpload, RunStart,
        RunJob, Upload, UploadFails, StartRun, PostRun, PostFails,
        StreamStarted, StreamFinished, StreamError, Receive, StreamEnds,
        StreamBreaks, RuntimeExceeded, Reconnect, GiveUp, GetEvents,
        ApplyRecovered, GetRunDetail, RecoverFails, Commit, Proceed, data,
        Redeliver
  <2> QED
    BY <2>1, CreateRunEndsStay DEF EndsStay
<1>2. ASSUME NEW c \in Cancels, CancelStep(c) PROVE EndsStay
  <2>1. c \in Sessions
    BY DEF Sessions
  <2>2. CASE StopTask(c) \/ StopFails(c)
    <3>1. ctl[c].pc = "stop"
      BY <2>2 DEF StopTask, StopFails
    <3>2. Cur(c).run \in Runs
      BY <2>1, <3>1, CurTyped DEF InWork, WithRun, IInv
    <3> QED
      BY <2>2, <3>2, StopRunEndsStay DEF StopTask, StopFails, EndsStay
  <2>3. CASE ~(StopTask(c) \/ StopFails(c))
    <3>1. dify' = dify
      BY <1>2, <2>3 DEF CancelStep, CancelFinal, CancelStarted,
                        CancelNotStarted, Request, Commit
    <3> QED
      BY <3>1 DEF EndsStay
  <2> QED
    BY <2>2, <2>3
<1>3. ASSUME NEW r \in Runs, DifyEnds(r) PROVE EndsStay
  <2>1. PICK outcome \in Outcomes : dify' = [dify EXCEPT ![r].state = outcome]
    BY <1>3 DEF DifyEnds
  <2>2. outcome \in DifyFinal /\ dify \in [Runs -> DifyRun]
    BY RunnerAssumption DEF IInv, TypeInv, TypeOK
  <2> QED
    BY <2>1, <2>2 DEF EndsStay, DifyRun
<1>4. ASSUME (\E s \in Sessions : Crash(s)) \/ ConfigureKey \/ UNCHANGED vars
      PROVE  EndsStay
  BY <1>4 DEF Crash, ConfigureKey, vars, data, EndsStay
<1> QED
  BY <1>1, <1>2, <1>3, <1>4 DEF Next, Quiescent

\* What the step of another session leaves of a request.
LEMMA StopSeenStays ==
    ASSUME IInv, EndsStay, NEW c \in Cancels, StopSeen(c),
           ctl'[c] = ctl[c], mem'[c] = mem[c]
    PROVE  StopSeen(c)'
<1>1. CASE /\ \/ ctl[c].pc = "replied"
              \/ ctl[c].pc = "commit" /\ ctl[c].after = "replied"
           /\ Cur(c).run # None
  <2>1. Ready("replied", ctl[c], mem[c]) /\ c \in Sessions
    BY <1>1 DEF IInv, TypeInv, SessionsOK, SessionOK, Sessions
  <2>2. ctl[c].cur # None /\ mem[c][ctl[c].cur] # None
    BY <2>1 DEF Ready, InWork
  <2>3. mem[c] \in [Jobs -> WorkflowJob \cup {None}] /\ ctl[c].cur \in Jobs
    BY <2>1, <2>2 DEF IInv, TypeInv, TypeOK, Control
  <2>4. Cur(c).run \in Runs
    BY <1>1, <2>2, <2>3 DEF Cur, WorkflowJob
  <2> QED
    BY <1>1, <2>4 DEF StopSeen, EndsStay, Cur
<1>2. CASE ~(/\ \/ ctl[c].pc = "replied"
                \/ ctl[c].pc = "commit" /\ ctl[c].after = "replied"
             /\ Cur(c).run # None)
  BY <1>2 DEF StopSeen, Cur
<1> QED
  BY <1>1, <1>2

\* A step of session s leaves the requests of others alone.
LEMMA OnlyItsOwn ==
    ASSUME IInv, NEW s \in Sessions,
           (s \in Workers /\ (WorkerStep(s) \/ Redeliver(s)))
              \/ (s \in Cancels /\ CancelStep(s)) \/ Crash(s)
    PROVE  \A t \in Sessions \ {s} : ctl'[t] = ctl[t] /\ mem'[t] = mem[t]
<1>0. /\ ctl \in [Sessions -> Control]
      /\ mem \in [Sessions -> [Jobs -> WorkflowJob \cup {None}]]
  BY DEF IInv, TypeInv, TypeOK
<1>1. \A t \in Sessions \ {s} : ctl'[t] = ctl[t]
  <2>1. CASE s \in Workers /\ (WorkerStep(s) \/ Redeliver(s))
    BY <1>0, <2>1 DEF WorkerStep, TakeJob, TakeSweep, TakeMessage, EndTask,
        RunFinal, RunCancelRequested, RunRecover, RunMissingKey, RunUpload,
        RunStart, RunJob, Upload, UploadFails, StartRun, PostRun, PostFails,
        StartException, StreamStarted, StreamFinished, StreamError, Receive,
        StreamEnds, StreamBreaks, RuntimeExceeded, Reconnect, GiveUp, GetEvents,
        ApplyRecovered, GetRunDetail, RecoverFails, Commit, Save, Goto, Close,
        Redeliver
  <2>2. CASE s \in Cancels /\ CancelStep(s)
    BY <1>0, <2>2 DEF CancelStep, CancelFinal, CancelStarted, CancelNotStarted,
        Request, StopTask, StopFails, Commit, Save, Goto, Close
  <2>3. CASE Crash(s)
    BY <1>0, <2>3 DEF Crash, Close
  <2> QED
    BY <2>1, <2>2, <2>3
<1>2. \A t \in Sessions \ {s} : mem'[t] = mem[t]
  <2>1. CASE s \in Workers /\ (WorkerStep(s) \/ Redeliver(s))
    BY <1>0, <2>1, ZenonT(30) DEF WorkerStep, TakeJob, TakeSweep, TakeMessage, EndTask,
        RunFinal, RunCancelRequested, RunRecover, RunMissingKey, RunUpload,
        RunStart, Upload, UploadFails, StartRun, PostRun, PostFails,
        StartException, StreamStarted, StreamFinished, StreamError, Receive,
        StreamEnds, StreamBreaks, RuntimeExceeded, Reconnect, GiveUp, GetEvents,
        ApplyRecovered, GetRunDetail, RecoverFails, Commit, Save, Edit, Close,
        Proceed, Redeliver
  <2>2. CASE s \in Cancels /\ CancelStep(s)
    BY <1>0, <2>2 DEF CancelStep, CancelFinal, CancelStarted, CancelNotStarted,
        StopTask, StopFails, Commit, Save, Edit, Close
  <2>3. CASE Crash(s)
    BY <1>0, <2>3 DEF Crash, Close
  <2> QED
    BY <2>1, <2>2, <2>3
<1> QED
  BY <1>1, <1>2

\* What a cancel request does to itself.
LEMMA CancelSeesStop ==
    ASSUME IInv, NEW c \in Cancels, CancelStep(c) \/ Crash(c), StopSeen(c)
    PROVE  StopSeen(c)'
<1>0. /\ c \in Sessions /\ c \notin Workers
      /\ ctl \in [Sessions -> Control] /\ ctl[c] \in Control
      /\ mem \in [Sessions -> [Jobs -> WorkflowJob \cup {None}]]
      /\ dify \in [Runs -> DifyRun]
  BY RunnerAssumption DEF Sessions, IInv, TypeInv, TypeOK
<1>1. CASE \E j \in Jobs : CancelFinal(c, j)
  BY <1>0, <1>1 DEF CancelFinal, Request, Idle, StopSeen
<1>2. ASSUME NEW j \in Jobs, CancelStarted(c, j) PROVE StopSeen(c)'
  BY <1>0, <1>2 DEF CancelStarted, Request, Idle, StopSeen
<1>3. ASSUME NEW j \in Jobs, CancelNotStarted(c, j) PROVE StopSeen(c)'
  <2>1. ctl'[c].cur = j
    BY <1>0, <1>3 DEF CancelNotStarted, Request, Idle
  <2>2. mem'[c][j] = MarkCancelled(Object(c, j))
    BY <1>0, <1>3 DEF CancelNotStarted, Edit
  <2>3. Object(c, j) \in WorkflowJob /\ Object(c, j).run = None
    BY <1>0, <1>3, SelectedSound DEF CancelNotStarted
  <2>4. mem'[c][j].run = None
    BY <2>2, <2>3 DEF MarkCancelled, WorkflowJob
  <2> QED
    BY <2>1, <2>4 DEF StopSeen, Cur
<1>4. CASE StopTask(c)
  <2>1. ctl[c].pc = "stop" /\ ctl[c].pc \in InWork /\ ctl[c].pc \in WithRun
    BY <1>4 DEF StopTask, InWork, WithRun
  <2>2. /\ ctl[c].cur \in Jobs /\ Cur(c) \in WorkflowJob /\ Cur(c).run \in Runs
        /\ dify[Cur(c).run].job = ctl[c].cur
    BY <1>0, <2>1, CurTyped, CopiesTyped, RunnerAssumption, SMTT(30)
       DEF IInv, CopySound, Sound, Cur
  <2> DEFINE r == Cur(c).run
  <2>3. dify[r].state # "none"
    BY <2>2, RunnerAssumption DEF IInv, RunsOwned
  <2>4. dify'[r].state \in DifyFinal
    BY <1>0, <1>4, <2>2, <2>3 DEF StopTask, StopRun, DifyRun, DifyFinal,
                                  DifyStates
  <2>5. /\ ctl'[c].cur = ctl[c].cur
        /\ mem'[c][ctl[c].cur] = MarkCancelled(Cur(c))
    BY <1>0, <1>4, <2>2 DEF StopTask, Save, Edit, Control
  <2>6. Cur(c)'.run = r
    BY <2>2, <2>5 DEF Cur, MarkCancelled, WorkflowJob
  <2> QED
    BY <2>4, <2>6 DEF StopSeen
<1>5. CASE StopFails(c) \/ Crash(c)
  BY <1>0, <1>5 DEF StopFails, Crash, Close, Idle, StopSeen
<1>6. CASE Commit(c)
  <2>1. /\ ctl'[c].pc = ctl[c].after /\ ctl'[c].cur = ctl[c].cur
        /\ ctl'[c].after = ctl[c].after
        /\ ctl[c].pc = "commit" /\ mem' = mem /\ dify' = dify
    BY <1>0, <1>6 DEF Commit, Goto, Control
  <2> QED
    BY <2>1 DEF StopSeen, Cur
<1> QED
  BY <1>1, <1>2, <1>3, <1>4, <1>5, <1>6 DEF CancelStep

LEMMA StopSeenNext ==
    ASSUME IInv, \A c \in Cancels : StopSeen(c), [Next]_vars
    PROVE  \A c \in Cancels : StopSeen(c)'
<1> SUFFICES ASSUME NEW c \in Cancels PROVE StopSeen(c)'
  OBVIOUS
<1>0. EndsStay /\ c \in Sessions
  BY EndsStayNext DEF Sessions
<1>1. CASE CancelStep(c) \/ Crash(c)
  BY <1>1, CancelSeesStop
<1>2. CASE \/ \E w \in Workers : WorkerStep(w) \/ Redeliver(w)
           \/ \E d \in Cancels \ {c} : CancelStep(d)
           \/ \E s \in Sessions \ {c} : Crash(s)
  <2>1. PICK s \in Sessions \ {c} :
            (s \in Workers /\ (WorkerStep(s) \/ Redeliver(s)))
               \/ (s \in Cancels /\ CancelStep(s)) \/ Crash(s)
    BY <1>2, RunnerAssumption DEF Sessions
  <2>2. ctl'[c] = ctl[c] /\ mem'[c] = mem[c]
    BY <1>0, <2>1, OnlyItsOwn
  <2> QED
    BY <1>0, <2>2, StopSeenStays
<1>3. CASE (\E r \in Runs : DifyEnds(r)) \/ ConfigureKey \/ UNCHANGED vars
  <2>1. ctl' = ctl /\ mem' = mem
    BY <1>3 DEF DifyEnds, ConfigureKey, vars
  <2> QED
    BY <1>0, <2>1, StopSeenStays
<1> QED
  BY <1>1, <1>2, <1>3 DEF Next, Quiescent

\* A cancel request that saw a run of the job answers only when that run no
\* longer works, whatever workers and other requests do to the job meanwhile.
THEOREM CancelledRunsAreStopped == Spec => []CancelledRunStopped
<1>1. Init => \A c \in Cancels : StopSeen(c)
  BY DEF Init, Sessions, Idle, StopSeen
<1>2. IInv /\ (\A c \in Cancels : StopSeen(c)) /\ [Next]_vars
         => (\A c \in Cancels : StopSeen(c))'
  BY StopSeenNext
<1>3. (\A c \in Cancels : StopSeen(c)) => CancelledRunStopped
  BY DEF StopSeen, CancelledRunStopped, DifyFinal
<1> QED
  BY <1>1, <1>2, <1>3, Invariant, PTL DEF Spec

-----------------------------------------------------------------------------
(***************************************************************************)
(* With one worker and no cancel requests, WorkflowRunner implements       *)
(* JobLifecycle.                                                           *)
(***************************************************************************)

-----------------------------------------------------------------------------
(* The operators on a job.                                                 *)

\* An edit that neither ends the job nor gives it a run is no step in its life.
LEMMA UnseenStep ==
    ASSUME NEW runs, NEW old, NEW new, ~IsFinal(old), ~IsFinal(new),
           new.run = old.run, new.result = old.result
    PROVE  LifeStep(runs, old, new)
<1>1. Phase(new) = Phase(old)
  BY DEF Phase
<1> QED
  BY <1>1 DEF LifeStep

LEMMA FollowStep ==
    ASSUME NEW runs, NEW old, NEW new, ~IsFinal(old), ~IsFinal(new),
           old.run = None, new.run # None, new.result = old.result
    PROVE  LifeStep(runs, old, new)
<1>1. Phase(old) = "waiting" /\ Phase(new) = "following"
  BY DEF Phase
<1> QED
  BY <1>1 DEF LifeStep

\* A status that keeps the job in work, and the edit after an upload.
LEMMA WorkingStatus ==
    ASSUME NEW runs, NEW j, NEW job \in WorkflowJob, Untouched(j, job),
           ~IsFinal(job),
           NEW status \in {"uploading", "starting", "running", "reconnecting"}
    PROVE  LET new == [job EXCEPT !.status = status] IN
           /\ Untouched(j, new) /\ LifeStep(runs, job, new) /\ ~IsFinal(new)
           /\ new.run = job.run /\ new.inputs = job.inputs
<1> DEFINE new == [job EXCEPT !.status = status]
<1>1. /\ new.status = status /\ new.run = job.run /\ new.inputs = job.inputs
      /\ new.result = job.result /\ new.error = job.error
      /\ new.manifest = job.manifest
  BY DEF WorkflowJob
<1> HIDE DEF new
<1>2. ~IsFinal(new)
  BY <1>1 DEF IsFinal, FinalStatuses
<1>3. Untouched(j, new)
  BY <1>1, <1>2 DEF Untouched
<1> QED
  BY <1>1, <1>2, <1>3, UnseenStep DEF new

LEMMA UploadedStep ==
    ASSUME NEW runs, NEW j, NEW job \in WorkflowJob, Untouched(j, job),
           ~IsFinal(job)
    PROVE  LET new == [job EXCEPT !.manifest = "uploaded", !.inputs = TRUE] IN
           /\ Untouched(j, new) /\ LifeStep(runs, job, new) /\ ~IsFinal(new)
           /\ new.run = job.run /\ new.inputs
<1> DEFINE new == [job EXCEPT !.manifest = "uploaded", !.inputs = TRUE]
<1>1. /\ new.status = job.status /\ new.run = job.run /\ new.inputs
      /\ new.result = job.result /\ new.error = job.error
      /\ new.manifest = "uploaded"
  BY DEF WorkflowJob
<1> HIDE DEF new
<1>2. ~IsFinal(new)
  BY <1>1 DEF IsFinal
<1>3. Untouched(j, new)
  BY <1>1, <1>2 DEF Untouched
<1> QED
  BY <1>1, <1>2, <1>3, UnseenStep DEF new

\* A failure, and what its code says of the run.
LEMMA FailedStep ==
    ASSUME NEW runs, NEW j, NEW job \in WorkflowJob, Untouched(j, job),
           ~IsFinal(job), NEW code \in ErrorCodes,
           code = "workflow_start_error" => job.run = None
    PROVE  LET new == MarkFailed(job, code) IN
           /\ Untouched(j, new) /\ LifeStep(runs, job, new) /\ IsFinal(new)
           /\ new.run = job.run
  BY DEF Untouched, LifeStep, Phase, IsFinal, WorkflowJob, MarkFailed,
         FinalStatuses

\* The end of the run that the job follows.
LEMMA EndedStep ==
    ASSUME NEW runs, NEW j, NEW job \in WorkflowJob, Untouched(j, job),
           ~IsFinal(job), NEW run \in Runs, job.run = run
    PROVE  /\ runs[run].state = "succeeded" =>
                 /\ Untouched(j, Succeed(job, run))
                 /\ LifeStep(runs, job, Succeed(job, run))
           /\ runs[run].state = "stopped" =>
                 /\ Untouched(j, MarkCancelled(job))
                 /\ LifeStep(runs, job, MarkCancelled(job))
<1>1. run # None
  BY RunnerAssumption
<1>2. job.error = None
  BY DEF Untouched
<1>3. None # "workflow_start_error"
  BY RunnerAssumption DEF ErrorCodes
<1> QED
  BY <1>1, <1>2, <1>3 DEF Untouched, LifeStep, Phase, IsFinal, WorkflowJob,
         Succeed, MarkCancelled, FinalStatuses

\* An event of the run that the job follows, or comes to follow by it.
LEMMA EventStep ==
    ASSUME NEW runs, NEW j, NEW job \in WorkflowJob, Untouched(j, job),
           ~IsFinal(job), NEW run \in Runs, NEW name \in EventNames,
           name = "workflow_started" => job.run \in {None, run},
           name = "workflow_finished" => job.run = run
    PROVE  LET new == ApplyEvent(job, name, run, runs[run].state) IN
           /\ Untouched(j, new) /\ LifeStep(runs, job, new)
           /\ ~IsFinal(new) => new.inputs = job.inputs
<1> DEFINE counted == [job EXCEPT !.seen = TRUE]
           outcome == runs[run].state
<1>1. /\ counted \in WorkflowJob /\ Untouched(j, counted) /\ ~IsFinal(counted)
      /\ counted.run = job.run /\ counted.result = job.result
      /\ Phase(counted) = Phase(job) /\ counted.inputs = job.inputs
  BY DEF Untouched, IsFinal, WorkflowJob, Phase
<1>2. \A new : LifeStep(runs, counted, new) => LifeStep(runs, job, new)
  BY <1>1 DEF LifeStep
<1>3. LET failed == MarkFailed(counted, "workflow_failed") IN
      Untouched(j, failed) /\ LifeStep(runs, counted, failed) /\ IsFinal(failed)
  BY <1>1, FailedStep DEF ErrorCodes
<1>4. CASE name = "workflow_started"
  <2> DEFINE new == [counted EXCEPT !.status = "running", !.run = run]
  <2>1. run # None /\ None # "workflow_start_error"
    BY RunnerAssumption DEF ErrorCodes
  <2>2. /\ new.status = "running" /\ new.run = run
        /\ new.inputs = job.inputs
        /\ new.result = job.result /\ new.error = job.error
        /\ new.manifest = job.manifest
    BY DEF WorkflowJob
  <2>3. ApplyEvent(job, name, run, outcome) = new
    BY <1>4 DEF ApplyEvent
  <2> HIDE DEF new
  <2>4. ~IsFinal(new)
    BY <2>2 DEF IsFinal, FinalStatuses
  <2>5. Untouched(j, new)
    BY <2>1, <2>2, <2>4 DEF Untouched
  <2>6. LifeStep(runs, job, new)
    BY <1>4, <2>1, <2>2, <2>4, UnseenStep, FollowStep
  <2> QED
    BY <2>2, <2>3, <2>5, <2>6
<1>5. CASE name = "workflow_finished"
  <2> DEFINE new == ApplyFinished(counted, run, outcome)
  <2>1. Untouched(j, new) /\ LifeStep(runs, counted, new)
    BY <1>1, <1>3, <1>5, EndedStep DEF ApplyFinished
  <2>2. IsFinal(new)
    BY <1>1 DEF ApplyFinished, Succeed, MarkFailed, MarkCancelled, IsFinal,
                WorkflowJob, FinalStatuses
  <2> QED
    BY <1>2, <1>5, <2>1, <2>2 DEF ApplyEvent
<1>6. CASE name = "error"
  BY <1>2, <1>3, <1>6 DEF ApplyEvent
<1> QED
  BY <1>4, <1>5, <1>6 DEF EventNames

\* The detail of the run that the job follows.
LEMMA DetailStep ==
    ASSUME NEW runs, NEW j, NEW job \in WorkflowJob, Untouched(j, job),
           ~IsFinal(job), NEW run \in Runs, job.run = run
    PROVE  LET new == ApplyRunDetail(job, run, runs[run].state) IN
           Untouched(j, new) /\ LifeStep(runs, job, new)
<1>1. run # None
  BY RunnerAssumption
<1>2. LET failed == MarkFailed(job, "workflow_failed") IN
      Untouched(j, failed) /\ LifeStep(runs, job, failed)
  BY FailedStep DEF ErrorCodes
<1>3. LET again == [job EXCEPT !.status = "reconnecting"] IN
      Untouched(j, again) /\ LifeStep(runs, job, again)
  BY WorkingStatus
<1> QED
  BY <1>2, <1>3, EndedStep DEF ApplyRunDetail

\* A run that has ended keeps its outcome.
OutcomesStay ==
    \A r \in Runs : dify[r].state \in {"succeeded", "stopped"} =>
                        dify'[r].state = dify[r].state

\* A step towards a row stays one while Dify's runs only end.
LEMMA LifeStepStays ==
    ASSUME NEW old \in WorkflowJob, NEW new, LifeStep(dify, old, new),
           OutcomesStay
    PROVE  LifeStep(dify', old, new)
<1>1. Phase(old) = "following" => old.run \in Runs
  BY DEF Phase, WorkflowJob, IsFinal, FinalStatuses
<1> QED
  BY <1>1 DEF LifeStep, OutcomesStay

-----------------------------------------------------------------------------
(* The kinds of steps.                                                     *)

AInv == IInv /\ AloneInv

\* What a worker may take for granted about the job in work.
LEMMA CurAlone ==
    ASSUME AInv, NEW w \in Workers, ctl[w].pc \in InWork
    PROVE  /\ w \in Sessions
           /\ hasKey
           /\ ctl[w].cur \in Jobs
           /\ Cur(w) = mem[w][ctl[w].cur]
           /\ Cur(w) = db[ctl[w].cur]
           /\ Cur(w) \in WorkflowJob
           /\ Untouched(ctl[w].cur, Cur(w))
           /\ Working(ctl[w].pc, ctl[w].cur, Cur(w))
           /\ ~IsFinal(Cur(w))
           /\ ctl[w].pc \in WithRun => Cur(w).run \in Runs
           /\ ctl[w].pc = "stream" => ctl[w].stream \in Runs
<1>1. /\ w \in Sessions /\ ctl[w].cur \in Jobs
      /\ Cur(w) = mem[w][ctl[w].cur] /\ Cur(w) # None
      /\ Cur(w) \in WorkflowJob
      /\ ctl[w].pc \in WithRun => Cur(w).run \in Runs
      /\ ctl[w].pc = "stream" => ctl[w].stream \in Runs
  BY CurTyped DEF Sessions, AInv, IInv
<1>2. ctl[w].pc \notin {"idle", "next", "commit"}
  BY DEF InWork
<1>3. hasKey
  BY <1>2 DEF AInv, AloneInv, Alone, Keyless
<1>4. Cur(w) = db[ctl[w].cur]
  BY <1>1, <1>2, <1>3 DEF AInv, AloneInv, Alone, Fresh
<1>5. Untouched(ctl[w].cur, Cur(w)) /\ Working(ctl[w].pc, ctl[w].cur, Cur(w))
  BY <1>1, <1>4 DEF AInv, AloneInv, Alone
<1> QED
  BY <1>1, <1>3, <1>4, <1>5 DEF Working

\* What a worker with a key sees of a job that it takes up is the row.
LEMMA SelectedAlone ==
    ASSUME AInv, NEW w \in Workers, NEW j \in Jobs, ctl[w].pc = "next"
    PROVE  /\ w \in Sessions
           /\ Object(w, j) \in WorkflowJob
           /\ hasKey => Object(w, j) = db[j] /\ Untouched(j, Object(w, j))
           /\ ~hasKey => Object(w, j).run = None
           /\ Object(w, j).status # "cancel_requested"
<1>1. w \in Sessions /\ Object(w, j) \in WorkflowJob
  BY ObjectTyped DEF Sessions, AInv, IInv
<1>2. hasKey => Object(w, j) = db[j] /\ Untouched(j, Object(w, j))
  BY DEF Object, AInv, AloneInv, Alone, Fresh
<1>3. ~hasKey => /\ Object(w, j).run = None
                 /\ Object(w, j).status # "cancel_requested"
  BY DEF Object, AInv, AloneInv, Alone, Keyless, Untouched
<1> QED
  BY <1>1, <1>2, <1>3 DEF Untouched

\* The worker edits a job and is about to commit it.
LEMMA EditAlone ==
    ASSUME AInv, NEW w \in Workers, ctl[w].pc # "commit", hasKey,
           NEW j \in Jobs, NEW object \in WorkflowJob, Edit(w, j, object),
           NEW k, ctl' = [ctl EXCEPT ![w] = k], k.pc = "commit", k.cur = j,
           k.after \notin {"idle", "commit"},
           Untouched(j, object), Working(k.after, j, object),
           LifeStep(dify', db[j], object), UNCHANGED <<db, hasKey>>
    PROVE  Alone(w)'
<1>0. /\ w \in Sessions /\ ctl \in [Sessions -> Control]
      /\ mem \in [Sessions -> [Jobs -> WorkflowJob \cup {None}]]
      /\ base \in [Sessions -> [Jobs -> WorkflowJob \cup {None}]]
  BY DEF Sessions, AInv, IInv, TypeInv, TypeOK
<1>1. ctl'[w] = k
  BY <1>0
<1>2. /\ mem'[w][j] = object
      /\ \A i \in Jobs \ {j} : mem'[w][i] = mem[w][i] /\ base'[w][i] = base[w][i]
      /\ base'[w][j] = IF mem[w][j] = None THEN db[j] ELSE base[w][j]
  BY <1>0 DEF Edit
<1>3. \A i \in Jobs : mem'[w][i] # None => base'[w][i] = db'[i]
  BY <1>2 DEF AInv, AloneInv, Alone
<1>4. \A i \in Jobs : Fresh(w, i)' \/ i = j
  BY <1>2 DEF AInv, AloneInv, Alone, Fresh
<1>5. Cur(w)' = object
  BY <1>1, <1>2 DEF Cur
<1>6. object # None
  BY RunnerAssumption
<1> QED
  BY <1>1, <1>3, <1>4, <1>5, <1>6 DEF Alone, InWork

\* The worker only moves on.
LEMMA MoveAlone ==
    ASSUME AInv, NEW w \in Workers, ctl[w].pc # "commit",
           UNCHANGED <<db, mem, base, hasKey>>,
           NEW k, ctl' = [ctl EXCEPT ![w] = k], k.pc \notin {"idle", "commit"},
           hasKey \/ k.pc = "next",
           k.pc \in InWork => Working(k.pc, k.cur, mem[w][k.cur])
    PROVE  Alone(w)'
<1>1. ctl'[w] = k
  BY DEF Sessions, AInv, IInv, TypeInv, TypeOK
<1>2. \A i \in Jobs : mem'[w][i] # None => base'[w][i] = db'[i]
  BY DEF AInv, AloneInv, Alone
<1>3. hasKey => \A i \in Jobs : Fresh(w, i)'
  BY DEF AInv, AloneInv, Alone, Fresh
<1>4. ~hasKey => Keyless(w)'
  BY <1>1 DEF AInv, AloneInv, Alone, Keyless
<1> QED
  BY <1>1, <1>2, <1>3, <1>4 DEF Alone, Cur

\* The worker opens a session with copies of rows, or closes it.
LEMMA OpenAlone ==
    ASSUME AInv, NEW w \in Workers,
           NEW m, \A j \in Jobs : m[j] = None \/ m[j] = db[j],
           mem' = [mem EXCEPT ![w] = m], base' = [base EXCEPT ![w] = m],
           NEW k, ctl' = [ctl EXCEPT ![w] = k],
           k.pc = "next" \/ (k.pc = "idle" /\ m = Nothing),
           UNCHANGED <<db, hasKey>>
    PROVE  Alone(w)'
<1>1. ctl'[w] = k /\ mem'[w] = m /\ base'[w] = m
  BY DEF Sessions, AInv, IInv, TypeInv, TypeOK
<1>2. \A i \in Jobs : mem'[w][i] # None => base'[w][i] = db'[i]
  BY <1>1
<1>3. \A i \in Jobs : Fresh(w, i)'
  BY <1>1 DEF Fresh
<1>4. ~hasKey => Keyless(w)'
  BY <1>1 DEF AInv, AloneInv, Alone, Keyless, Untouched
<1>5. k.pc \notin InWork \cup {"commit"}
  BY DEF InWork
<1>6. k.pc = "idle" => \A j \in Jobs : mem'[w][j] = None
  BY <1>1 DEF Nothing
<1> QED
  BY <1>1, <1>2, <1>3, <1>4, <1>5, <1>6 DEF Alone

\* A commit writes what the worker holds, and nothing else.
LEMMA CommitWrites ==
    ASSUME AInv, NEW w \in Workers, Commit(w)
    PROVE  /\ w \in Sessions /\ hasKey
           /\ ctl[w].cur \in Jobs /\ Cur(w) \in WorkflowJob
           /\ db' = [db EXCEPT ![ctl[w].cur] = Cur(w)]
           /\ \A j \in Jobs : mem[w][j] # None => mem[w][j] = db'[j]
<1>0. /\ w \in Sessions /\ ctl \in [Sessions -> Control]
      /\ db \in [Jobs -> WorkflowJob]
      /\ mem \in [Sessions -> [Jobs -> WorkflowJob \cup {None}]]
      /\ ctl[w].pc = "commit"
  BY DEF Sessions, AInv, IInv, TypeInv, TypeOK, Commit
<1>1. hasKey
  BY <1>0 DEF AInv, AloneInv, Alone, Keyless
<1> DEFINE cur == ctl[w].cur
<1>2. cur \in Jobs /\ Cur(w) # None /\ Cur(w) = mem[w][cur]
  BY <1>0 DEF AInv, AloneInv, Alone, Cur
<1>3. \A job, row \in WorkflowJob : Flush(row, row, job) = job
  BY DEF Flush, Column, WorkflowJob
<1>4. \A j \in Jobs : mem[w][j] # None => base[w][j] = db[j]
  BY DEF AInv, AloneInv, Alone
<1>5. \A j \in Jobs : mem[w][j] # None => mem[w][j] = db'[j]
  BY <1>0, <1>3, <1>4 DEF Commit
<1>6. \A j \in Jobs : db'[j] = IF j = cur THEN Cur(w) ELSE db[j]
  BY <1>0, <1>1, <1>2, <1>3, <1>4 DEF AInv, AloneInv, Alone, Fresh, Commit
<1>7. db' = [j \in Jobs |-> db'[j]]
  BY DEF Commit
<1> QED
  BY <1>0, <1>1, <1>2, <1>5, <1>6, <1>7

LEMMA CommitAlone ==
    ASSUME AInv, NEW w \in Workers, Commit(w)
    PROVE  Alone(w)' /\ \A j \in Jobs : Untouched(j, db'[j])
<1>0. /\ ctl \in [Sessions -> Control] /\ ctl[w] \in Control
      /\ mem \in [Sessions -> [Jobs -> WorkflowJob \cup {None}]]
      /\ base \in [Sessions -> [Jobs -> WorkflowJob \cup {None}]]
      /\ db \in [Jobs -> WorkflowJob]
  BY DEF Sessions, AInv, IInv, TypeInv, TypeOK
<1>1. /\ w \in Sessions /\ hasKey
      /\ ctl[w].cur \in Jobs
      /\ db' = [db EXCEPT ![ctl[w].cur] = Cur(w)]
      /\ \A j \in Jobs : mem[w][j] # None => mem[w][j] = db'[j]
  BY CommitWrites
<1>2. /\ ctl'[w].pc = ctl[w].after /\ ctl'[w].cur = ctl[w].cur
      /\ ctl[w].pc = "commit" /\ mem' = mem /\ hasKey' = hasKey
      /\ base'[w] = mem[w]
  BY <1>0, <1>1 DEF Commit, Goto, Control, env
<1>3. /\ Untouched(ctl[w].cur, Cur(w))
      /\ Working(ctl[w].after, ctl[w].cur, Cur(w))
      /\ ctl[w].after \notin {"idle", "commit"}
  BY <1>2 DEF AInv, AloneInv, Alone
<1>4. \A j \in Jobs : Untouched(j, db'[j])
  BY <1>0, <1>1, <1>3 DEF AInv, AloneInv
<1>5. \A i \in Jobs : Fresh(w, i)' /\ (mem'[w][i] # None => base'[w][i] = db'[i])
  BY <1>1, <1>2 DEF Fresh
<1>6. Cur(w)' = Cur(w)
  BY <1>2 DEF Cur
<1> QED
  BY <1>1, <1>2, <1>3, <1>4, <1>5, <1>6 DEF Alone

-----------------------------------------------------------------------------
(* The actions.                                                            *)

\* Taking a message and ending the task.
LEMMA TakeAlone ==
    ASSUME AInv, NEW w \in Workers,
           (\E j \in Jobs : TakeJob(w, j)) \/ TakeSweep(w) \/ EndTask(w)
    PROVE  Alone(w)'
<1>0. \A j \in Jobs : Nothing[j] = None
  BY DEF Nothing
<1>1. ASSUME NEW m, NEW jobs, NEW objects, TakeMessage(w, m, jobs, objects),
             \A j \in Jobs : objects[j] = None \/ objects[j] = db[j]
      PROVE  Alone(w)'
  <2> DEFINE k == [Idle EXCEPT !.pc = "next", !.msg = m, !.todo = jobs]
  <2>1. k.pc = "next"
    BY DEF Idle
  <2>2. /\ ctl' = [ctl EXCEPT ![w] = k]
        /\ mem' = [mem EXCEPT ![w] = objects]
        /\ base' = [base EXCEPT ![w] = objects]
        /\ db' = db /\ hasKey' = hasKey
    BY <1>1 DEF TakeMessage, data, env
  <2> HIDE DEF k
  <2> QED
    BY <1>1, <2>1, <2>2, OpenAlone
<1>2. ASSUME NEW j \in Jobs, TakeJob(w, j) PROVE Alone(w)'
  BY <1>0, <1>1, <1>2 DEF TakeJob
<1>3. ASSUME TakeSweep(w) PROVE Alone(w)'
  <2> DEFINE active == {j \in Jobs : db[j].status \in ActiveStatuses}
             objects == [j \in Jobs |-> IF j \in active THEN db[j] ELSE None]
  <2>1. \A j \in Jobs : objects[j] = None \/ objects[j] = db[j]
    OBVIOUS
  <2>2. TakeMessage(w, Sweep, active, objects)
    BY <1>3 DEF TakeSweep
  <2> HIDE DEF active, objects
  <2> QED
    BY <1>1, <2>1, <2>2
<1>4. ASSUME EndTask(w) PROVE Alone(w)'
  <2>1. Idle.pc = "idle"
    BY DEF Idle
  <2>2. /\ ctl' = [ctl EXCEPT ![w] = Idle]
        /\ mem' = [mem EXCEPT ![w] = Nothing]
        /\ base' = [base EXCEPT ![w] = Nothing]
        /\ db' = db /\ hasKey' = hasKey
    BY <1>4 DEF EndTask, Close, data, env
  <2> QED
    BY <1>0, <2>1, <2>2, OpenAlone
<1> QED
  BY <1>2, <1>3, <1>4

\* run(job_id): every branch it may take.
LEMMA RunAlone ==
    ASSUME AInv, NEW w \in Workers, NEW j \in Jobs,
           \/ RunFinal(w, j) \/ RunCancelRequested(w, j) \/ RunRecover(w, j)
           \/ RunMissingKey(w, j) \/ RunUpload(w, j) \/ RunStart(w, j)
    PROVE  Alone(w)'
<1> DEFINE job == Object(w, j)
           k(l, n) == [Idle EXCEPT !.pc = l, !.after = n, !.cur = j,
                                   !.msg = ctl[w].msg,
                                   !.todo = ctl[w].todo \ {j}]
<1>0. /\ w \in Sessions /\ ctl[w].pc = "next"
      /\ job \in WorkflowJob
      /\ hasKey => job = db[j] /\ Untouched(j, job)
      /\ ~hasKey => job.run = None
      /\ job.status # "cancel_requested"
  BY SelectedAlone DEF RunFinal, RunCancelRequested, RunRecover, RunMissingKey,
                       RunUpload, RunStart, RunJob, Sessions
<1>1. ASSUME NEW l, NEW n, RunJob(w, j, l, n)
      PROVE  /\ ctl' = [ctl EXCEPT ![w] = k(l, n)]
             /\ k(l, n).pc = l /\ k(l, n).after = n /\ k(l, n).cur = j
             /\ db' = db /\ dify' = dify /\ hasKey' = hasKey
  BY <1>1 DEF RunJob, Idle, env
<1> HIDE DEF k
<1>2. ASSUME NEW n \in {"events", "upload", "post"},
             RunJob(w, j, "commit", n),
             NEW status \in {"uploading", "starting", "running", "reconnecting"},
             Edit(w, j, [job EXCEPT !.status = status]), hasKey,
             ~IsFinal(job), n # "events" => job.run = None,
             n = "post" => job.manifest = "empty"
      PROVE  Alone(w)'
  <2> DEFINE object == [job EXCEPT !.status = status]
  <2>1. /\ Untouched(j, object) /\ LifeStep(dify, job, object)
        /\ ~IsFinal(object) /\ object.run = job.run
    BY <1>0, <1>2, WorkingStatus
  <2>2. object \in WorkflowJob
    BY <1>0, MarkTyped DEF ActiveStatuses
  <2>3. job = db[j] /\ Untouched(j, job)
    BY <1>0, <1>2
  <2>4. n = "post" => j \notin Uploads
    BY <1>2, <2>3 DEF Untouched
  <2>5. Working(n, j, object)
    BY <1>2, <2>1, <2>4 DEF Working
  <2>6. n \notin {"idle", "commit"}
    BY <1>2
  <2>7. /\ ctl' = [ctl EXCEPT ![w] = k("commit", n)]
        /\ k("commit", n).pc = "commit" /\ k("commit", n).after = n
        /\ k("commit", n).cur = j
        /\ db' = db /\ dify' = dify /\ hasKey' = hasKey
    <3>1. RunJob(w, j, "commit", n)
      BY <1>2
    <3> HIDE DEF object
    <3> QED
      BY <1>1, <3>1
  <2>8. Edit(w, j, object)
    BY <1>2
  <2> HIDE DEF object
  <2> QED
    BY <1>0, <1>2, <2>1, <2>2, <2>3, <2>5, <2>6, <2>7, <2>8, EditAlone
<1>3. CASE RunFinal(w, j)
  <2>1. RunJob(w, j, "next", "next") /\ UNCHANGED <<onDisk, mem, base>>
    BY <1>3 DEF RunFinal
  <2>2. /\ ctl' = [ctl EXCEPT ![w] = k("next", "next")]
        /\ k("next", "next").pc = "next"
        /\ db' = db /\ hasKey' = hasKey
    BY <1>1, <2>1
  <2> QED
    BY <1>0, <2>1, <2>2, MoveAlone DEF InWork
<1>4. CASE RunCancelRequested(w, j)
  BY <1>0, <1>4 DEF RunCancelRequested
<1>5. CASE RunRecover(w, j)
  BY <1>0, <1>2, <1>5 DEF RunRecover, Runnable
<1>6. CASE RunMissingKey(w, j)
  <2> DEFINE object == MarkFailed(job, "missing_dify_workflow_api_key")
  <2>1. /\ RunJob(w, j, "next", "next") /\ Edit(w, j, object) /\ ~hasKey
        /\ hasKey' = hasKey /\ db' = db
    BY <1>1, <1>6 DEF RunMissingKey
  <2>2. object.run = None /\ object.status = "failed"
    BY <1>0, <2>1 DEF MarkFailed, WorkflowJob
  <2> HIDE DEF object
  <2>3. /\ ctl \in [Sessions -> Control]
        /\ mem \in [Sessions -> [Jobs -> WorkflowJob \cup {None}]]
        /\ base \in [Sessions -> [Jobs -> WorkflowJob \cup {None}]]
    BY DEF AInv, IInv, TypeInv, TypeOK
  <2>4. ctl'[w].pc = "next"
    <3>1. ctl' = [ctl EXCEPT ![w] = k("next", "next")]
          /\ k("next", "next").pc = "next"
      BY <1>1, <2>1
    <3> QED
      BY <1>0, <2>3, <3>1
  <2>5. /\ mem'[w][j] = object
        /\ \A i \in Jobs \ {j} : mem'[w][i] = mem[w][i]
                                 /\ base'[w][i] = base[w][i]
        /\ base'[w][j] = IF mem[w][j] = None THEN db[j] ELSE base[w][j]
    BY <1>0, <2>1, <2>3 DEF Edit
  <2>6. \A i \in Jobs : mem'[w][i] # None => base'[w][i] = db'[i]
    BY <2>1, <2>5 DEF AInv, AloneInv, Alone
  <2>7. Keyless(w)'
    BY <2>1, <2>2, <2>4, <2>5 DEF AInv, AloneInv, Alone, Keyless
  <2> QED
    BY <2>1, <2>4, <2>6, <2>7 DEF Alone, InWork
<1>7. CASE RunUpload(w, j)
  BY <1>0, <1>2, <1>7 DEF RunUpload, Runnable
<1>8. CASE RunStart(w, j)
  BY <1>0, <1>2, <1>8 DEF RunStart, Runnable
<1> QED
  BY <1>3, <1>4, <1>5, <1>6, <1>7, <1>8

\* The edit and the commit of a job in work.
LEMMA SaveAlone ==
    ASSUME AInv, NEW w \in Workers, ctl[w].pc \in InWork,
           NEW object \in WorkflowJob, NEW l, l \notin {"idle", "commit"},
           Save(w, ctl[w].cur, object, l),
           Untouched(ctl[w].cur, object), Working(l, ctl[w].cur, object),
           LifeStep(dify', Cur(w), object), UNCHANGED <<db, hasKey>>
    PROVE  Alone(w)'
<1> DEFINE k == [ctl[w] EXCEPT !.pc = "commit", !.after = l]
<1>1. ctl \in [Sessions -> Control] /\ ctl[w] \in Control
  BY DEF Sessions, AInv, IInv, TypeInv, TypeOK
<1>2. /\ ctl' = [ctl EXCEPT ![w] = k]
      /\ k.pc = "commit" /\ k.after = l /\ k.cur = ctl[w].cur
  BY <1>1 DEF Save, Control
<1>3. ctl[w].pc # "commit" /\ hasKey /\ ctl[w].cur \in Jobs
      /\ Cur(w) = db[ctl[w].cur]
  BY CurAlone DEF InWork
<1>4. Edit(w, ctl[w].cur, object)
  BY DEF Save
<1> HIDE DEF k
<1> QED
  BY <1>2, <1>3, <1>4, EditAlone

\* The worker goes on to l with the job as it is.
LEMMA GotoAlone ==
    ASSUME AInv, NEW w \in Workers, ctl[w].pc \in InWork,
           NEW l \in {"next", "handler"}, Goto(w, l),
           UNCHANGED <<db, mem, base, hasKey>>
    PROVE  Alone(w)'
<1> DEFINE k == [ctl[w] EXCEPT !.pc = l]
<1>1. ctl \in [Sessions -> Control] /\ ctl[w] \in Control
  BY DEF Sessions, AInv, IInv, TypeInv, TypeOK
<1>2. /\ ctl' = [ctl EXCEPT ![w] = k] /\ k.pc = l /\ k.cur = ctl[w].cur
  BY <1>1 DEF Goto, Control
<1>3. /\ hasKey /\ ~IsFinal(Cur(w)) /\ Cur(w) = mem[w][ctl[w].cur]
      /\ ctl[w].pc # "commit"
  BY CurAlone DEF InWork
<1>4. Working(l, ctl[w].cur, Cur(w))
  BY <1>3 DEF Working
<1> HIDE DEF k
<1> QED
  BY <1>2, <1>3, <1>4, MoveAlone

LEMMA StartExceptionAlone ==
    ASSUME AInv, NEW w \in Workers, ctl[w].pc \in {"post", "stream"},
           StartException(w), UNCHANGED <<db, hasKey>>
    PROVE  Alone(w)'
<1>0. ctl[w].pc \in InWork
  BY DEF InWork
<1>1. CASE Goto(w, "handler") /\ UNCHANGED <<onDisk, mem, base>>
  BY <1>0, <1>1, GotoAlone
<1>2. CASE /\ Cur(w).run = None
           /\ Edit(w, ctl[w].cur, [Cur(w) EXCEPT !.status = "starting"])
           /\ ctl' = [ctl EXCEPT ![w].pc = "commit", ![w].after = "post",
                                 ![w].stream = None, ![w].attempt = @ + 1]
  <2> DEFINE object == [Cur(w) EXCEPT !.status = "starting"]
             k == [ctl[w] EXCEPT !.pc = "commit", !.after = "post",
                                 !.stream = None, !.attempt = @ + 1]
  <2>1. /\ hasKey /\ ctl[w].cur \in Jobs /\ Cur(w) \in WorkflowJob
        /\ Cur(w) = db[ctl[w].cur]
        /\ Untouched(ctl[w].cur, Cur(w)) /\ ~IsFinal(Cur(w))
        /\ Working(ctl[w].pc, ctl[w].cur, Cur(w))
    BY <1>0, CurAlone
  <2>2. /\ Untouched(ctl[w].cur, object) /\ LifeStep(dify', Cur(w), object)
        /\ ~IsFinal(object) /\ object.run = Cur(w).run
        /\ object.inputs = Cur(w).inputs
    BY <2>1, WorkingStatus
  <2>3. object \in WorkflowJob
    BY <2>1, MarkTyped DEF ActiveStatuses
  <2>4. Working("post", ctl[w].cur, object)
    BY <1>2, <2>1, <2>2 DEF Working
  <2>5. ctl \in [Sessions -> Control] /\ ctl[w] \in Control
    BY DEF Sessions, AInv, IInv, TypeInv, TypeOK
  <2>6. /\ ctl' = [ctl EXCEPT ![w] = k]
        /\ k.pc = "commit" /\ k.after = "post" /\ k.cur = ctl[w].cur
    BY <1>2, <2>5 DEF Control
  <2>7. Edit(w, ctl[w].cur, object)
    BY <1>2
  <2> HIDE DEF object, k
  <2> QED
    BY <2>1, <2>2, <2>3, <2>4, <2>6, <2>7, EditAlone
<1> QED
  BY <1>1, <1>2 DEF StartException

\* Upload, start and post.
LEMMA StartAlone ==
    ASSUME AInv, NEW w \in Workers,
           \/ Upload(w) \/ UploadFails(w) \/ StartRun(w)
           \/ PostRun(w) \/ PostFails(w)
    PROVE  Alone(w)'
<1> DEFINE cur == ctl[w].cur
<1>0. /\ ctl[w].pc \in InWork /\ ctl[w].pc # "commit"
      /\ db' = db /\ hasKey' = hasKey
  BY DEF Upload, UploadFails, StartRun, PostRun, PostFails, InWork, Proceed,
         env, data
<1>1. /\ hasKey /\ cur \in Jobs /\ Cur(w) \in WorkflowJob
      /\ Cur(w) = db[cur] /\ Cur(w) = mem[w][cur]
      /\ Untouched(cur, Cur(w)) /\ ~IsFinal(Cur(w))
      /\ Working(ctl[w].pc, cur, Cur(w))
  BY <1>0, CurAlone
<1>2. CASE Upload(w)
  <2> DEFINE object == [Cur(w) EXCEPT !.manifest = "uploaded", !.inputs = TRUE]
  <2>1. ctl[w].pc = "upload" /\ Save(w, cur, object, "starting")
    BY <1>2 DEF Upload
  <2>2. /\ Untouched(cur, object) /\ LifeStep(dify', Cur(w), object)
        /\ ~IsFinal(object) /\ object.run = Cur(w).run /\ object.inputs
    BY <1>1, UploadedStep
  <2>3. object \in WorkflowJob
    BY <1>1, MarkTyped
  <2>4. Working("starting", cur, object)
    BY <1>1, <2>1, <2>2 DEF Working
  <2>5. Save(w, cur, object, "starting")
    BY <2>1
  <2>6. Untouched(cur, object) /\ LifeStep(dify', Cur(w), object)
    BY <2>2
  <2> HIDE DEF object
  <2> QED
    BY <1>0, <2>3, <2>4, <2>5, <2>6, SaveAlone, SMT
<1>3. CASE UploadFails(w)
  BY <1>0, <1>3, GotoAlone DEF UploadFails
<1>4. CASE StartRun(w)
  <2> DEFINE object == [Cur(w) EXCEPT !.status = "starting"]
  <2>1. ctl[w].pc = "starting" /\ Save(w, cur, object, "post")
    BY <1>4 DEF StartRun
  <2>2. /\ Untouched(cur, object) /\ LifeStep(dify', Cur(w), object)
        /\ ~IsFinal(object) /\ object.run = Cur(w).run
        /\ object.inputs = Cur(w).inputs
    BY <1>1, WorkingStatus
  <2>3. object \in WorkflowJob
    BY <1>1, MarkTyped DEF ActiveStatuses
  <2>4. Working("post", cur, object)
    BY <1>1, <2>1, <2>2 DEF Working
  <2> HIDE DEF object
  <2> QED
    BY <1>0, <2>1, <2>2, <2>3, <2>4, SaveAlone
<1>5. CASE PostRun(w)
  <2> DEFINE r == CHOOSE new \in FreeRuns : TRUE
             k == [ctl[w] EXCEPT !.pc = "stream", !.stream = r]
  <2>1. ctl' = [ctl EXCEPT ![w].pc = "stream", ![w].stream = r]
    BY <1>5 DEF PostRun
  <2> HIDE DEF r
  <2>2. ctl \in [Sessions -> Control] /\ ctl[w] \in Control
    BY DEF Sessions, AInv, IInv, TypeInv, TypeOK
  <2>3. /\ ctl' = [ctl EXCEPT ![w] = k]
        /\ k.pc = "stream" /\ k.cur = cur
    BY <2>1, <2>2 DEF Control
  <2>4. ctl[w].pc = "post" /\ UNCHANGED <<mem, base>>
    BY <1>5 DEF PostRun
  <2>5. Working("stream", cur, Cur(w))
    BY <1>1, <2>4 DEF Working
  <2> HIDE DEF k
  <2> QED
    BY <1>0, <1>1, <2>3, <2>4, <2>5, MoveAlone
<1>6. CASE PostFails(w)
  BY <1>0, <1>6, StartExceptionAlone DEF PostFails
<1> QED
  BY <1>2, <1>3, <1>4, <1>5, <1>6

\* The event stream.
LEMMA StreamAlone ==
    ASSUME AInv, NEW w \in Workers,
           \/ StreamStarted(w) \/ StreamFinished(w) \/ StreamError(w)
           \/ StreamEnds(w) \/ StreamBreaks(w) \/ RuntimeExceeded(w)
    PROVE  Alone(w)'
<1> DEFINE cur == ctl[w].cur
           r == ctl[w].stream
<1>0. /\ ctl[w].pc \in InWork /\ db' = db /\ hasKey' = hasKey
  BY DEF StreamStarted, StreamFinished, StreamError, StreamEnds, StreamBreaks,
         RuntimeExceeded, Receive, Proceed, env, data, InWork
<1>1. /\ cur \in Jobs /\ Cur(w) \in WorkflowJob
      /\ Untouched(cur, Cur(w)) /\ ~IsFinal(Cur(w))
      /\ Working(ctl[w].pc, cur, Cur(w))
      /\ ctl[w].pc = "stream" => r \in Runs
  BY <1>0, CurAlone
<1>2. ASSUME NEW name \in EventNames, ctl[w].pc = "stream", Receive(w, name),
             name = "workflow_started" => Cur(w).run \in {None, r},
             name = "workflow_finished" => Cur(w).run = r
      PROVE  Alone(w)'
  <2> DEFINE object == ApplyEvent(Cur(w), name, r, dify[r].state)
             l == IF IsFinal(object) THEN "next" ELSE "stream"
  <2>1. Save(w, cur, object, l) /\ dify' = dify
    BY <1>2 DEF Receive, Proceed
  <2>2. dify[r].state \in DifyStates
    BY <1>1, <1>2 DEF AInv, IInv, TypeInv, TypeOK, DifyRun
  <2>3. object \in WorkflowJob
    BY <1>1, <1>2, <2>2, ApplyTyped
  <2>4. /\ Untouched(cur, object) /\ LifeStep(dify, Cur(w), object)
        /\ ~IsFinal(object) => object.inputs = Cur(w).inputs
    BY <1>1, <1>2, EventStep
  <2> HIDE DEF object
  <2>5. Working(l, cur, object) /\ l \notin {"idle", "commit"}
    BY <1>1, <1>2, <2>4 DEF Working, InWork
  <2> HIDE DEF l
  <2> QED
    BY <1>0, <2>1, <2>3, <2>4, <2>5, SaveAlone
<1>3. CASE StreamStarted(w)
  BY <1>2, <1>3 DEF StreamStarted, EventNames
<1>4. CASE StreamFinished(w)
  BY <1>2, <1>4 DEF StreamFinished, EventNames
<1>5. CASE StreamError(w)
  BY <1>2, <1>5 DEF StreamError, EventNames
<1>6. CASE StreamEnds(w) \/ RuntimeExceeded(w)
  BY <1>0, <1>6, GotoAlone DEF StreamEnds, RuntimeExceeded
<1>7. CASE StreamBreaks(w)
  BY <1>0, <1>7, StartExceptionAlone DEF StreamBreaks
<1> QED
  BY <1>3, <1>4, <1>5, <1>6, <1>7

\* The handler and the recovery.
LEMMA RecoverAlone ==
    ASSUME AInv, NEW w \in Workers,
           \/ Reconnect(w) \/ GiveUp(w) \/ GetEvents(w) \/ ApplyRecovered(w)
           \/ GetRunDetail(w) \/ RecoverFails(w)
    PROVE  Alone(w)'
<1> DEFINE cur == ctl[w].cur
           r == Cur(w).run
<1>0. /\ db' = db /\ dify' = dify /\ hasKey' = hasKey
      /\ ctl \in [Sessions -> Control] /\ ctl[w] \in Control
      /\ ctl[w].pc \in InWork /\ ctl[w].pc # "commit"
      /\ Reconnect(w) \/ GiveUp(w) \/ ctl[w].pc \in WithRun
  BY DEF Reconnect, GiveUp, GetEvents, ApplyRecovered, GetRunDetail,
         RecoverFails, InWork, WithRun, Proceed, env, data, Sessions, AInv,
         IInv, TypeInv, TypeOK
<1>1. /\ hasKey /\ cur \in Jobs /\ Cur(w) \in WorkflowJob
      /\ Cur(w) = db[cur] /\ Cur(w) = mem[w][cur]
      /\ Untouched(cur, Cur(w)) /\ ~IsFinal(Cur(w))
      /\ ctl[w].pc \in WithRun => r \in Runs /\ dify[r].state \in DifyStates
  BY <1>0, CurAlone DEF AInv, IInv, TypeInv, TypeOK, DifyRun
<1>2. CASE Reconnect(w)
  <2> DEFINE object == [Cur(w) EXCEPT !.status = "reconnecting"]
             k == [ctl[w] EXCEPT !.pc = "commit", !.after = "events",
                                 !.recon = @ + 1]
  <2>1. /\ Untouched(cur, object) /\ LifeStep(dify', Cur(w), object)
        /\ ~IsFinal(object)
    BY <1>1, WorkingStatus
  <2>2. object \in WorkflowJob
    BY <1>1, MarkTyped DEF ActiveStatuses
  <2>3. Working("events", cur, object)
    BY <2>1 DEF Working
  <2>4. /\ Edit(w, cur, object) /\ ctl' = [ctl EXCEPT ![w] = k]
        /\ k.pc = "commit" /\ k.after = "events" /\ k.cur = cur
    BY <1>0, <1>2 DEF Reconnect, Control
  <2> HIDE DEF object, k
  <2> QED
    BY <1>0, <1>1, <2>1, <2>2, <2>3, <2>4, EditAlone
<1>3. CASE GiveUp(w)
  <2> DEFINE code == RuntimeErrorCode(Cur(w))
             object == MarkFailed(Cur(w), code)
  <2>1. /\ code \in ErrorCodes /\ object \in WorkflowJob
    BY <1>1, MarkTyped
  <2>2. code = "workflow_start_error" => r = None
    BY DEF RuntimeErrorCode
  <2> HIDE DEF code
  <2>3. Untouched(cur, object) /\ LifeStep(dify', Cur(w), object)
    BY <1>1, <2>1, <2>2, FailedStep
  <2>4. Save(w, cur, object, "next")
    BY <1>3 DEF GiveUp, code
  <2>5. Working("next", cur, object)
    BY DEF Working, InWork
  <2> HIDE DEF object
  <2> QED
    BY <1>0, <2>1, <2>3, <2>4, <2>5, SaveAlone
<1>4. CASE GetEvents(w)
  <2>1. PICK evs : ctl' = [ctl EXCEPT ![w].pc = "event", ![w].evs = evs]
    BY <1>4 DEF GetEvents
  <2> DEFINE k == [ctl[w] EXCEPT !.pc = "event", !.evs = evs]
  <2>2. /\ ctl' = [ctl EXCEPT ![w] = k] /\ k.pc = "event" /\ k.cur = cur
    BY <1>0, <2>1 DEF Control
  <2>3. UNCHANGED <<mem, base>>
    BY <1>4 DEF GetEvents
  <2>4. Working("event", cur, Cur(w))
    BY <1>1 DEF Working
  <2> HIDE DEF k
  <2> QED
    BY <1>0, <1>1, <2>2, <2>3, <2>4, MoveAlone
<1>5. CASE ApplyRecovered(w)
  <2> DEFINE object == ApplyEvent(Cur(w), Head(ctl[w].evs), r, dify[r].state)
             l == IF IsFinal(object) THEN "next" ELSE "event"
             k == [ctl[w] EXCEPT
                     !.pc = "commit",
                     !.after = IF IsFinal(object) THEN "next" ELSE "event",
                     !.evs = IF IsFinal(object) THEN <<>> ELSE Tail(@)]
  <2>1. r \in Runs /\ dify[r].state \in DifyStates
    BY <1>1, <1>5 DEF ApplyRecovered, WithRun
  <2>2. ctl[w].evs \in Seq(EventNames) /\ ctl[w].evs # <<>>
    BY <1>0, <1>5 DEF Control, ApplyRecovered
  <2>3. Head(ctl[w].evs) \in EventNames
    BY <2>2
  <2>4. object \in WorkflowJob
    BY <1>1, <2>1, <2>3, ApplyTyped
  <2>5. Untouched(cur, object) /\ LifeStep(dify, Cur(w), object)
    BY <1>1, <2>1, <2>3, EventStep
  <2>6. /\ Edit(w, cur, object)
        /\ ctl' = [ctl EXCEPT ![w].pc = "commit",
                     ![w].after = IF IsFinal(object) THEN "next" ELSE "event",
                     ![w].evs = IF IsFinal(object) THEN <<>> ELSE Tail(@)]
    BY <1>5 DEF ApplyRecovered
  <2> HIDE DEF object
  <2>7. /\ ctl' = [ctl EXCEPT ![w] = k]
        /\ k.pc = "commit" /\ k.after = l /\ k.cur = cur
    BY <1>0, <2>6 DEF Control
  <2>8. Working(l, cur, object) /\ l \notin {"idle", "commit"}
    BY DEF Working, InWork
  <2> HIDE DEF k, l
  <2> QED
    BY <1>0, <1>1, <2>4, <2>5, <2>6, <2>7, <2>8, EditAlone
<1>6. CASE GetRunDetail(w)
  <2> DEFINE object == ApplyRunDetail(Cur(w), r, dify[r].state)
             l == IF IsFinal(object) \/ ctl[w].recon = 0
                  THEN "next" ELSE "handler"
  <2>1. r \in Runs /\ dify[r].state \in DifyStates
    BY <1>1, <1>6 DEF GetRunDetail, WithRun
  <2>2. object \in WorkflowJob
    BY <1>1, <2>1, ApplyTyped DEF EventNames
  <2>3. Untouched(cur, object) /\ LifeStep(dify, Cur(w), object)
    BY <1>1, <2>1, DetailStep
  <2>4. Save(w, cur, object, l)
    BY <1>6 DEF GetRunDetail
  <2> HIDE DEF object
  <2>5. Working(l, cur, object) /\ l \notin {"idle", "commit"}
    BY DEF Working, InWork
  <2> HIDE DEF l
  <2> QED
    BY <1>0, <2>2, <2>3, <2>4, <2>5, SaveAlone
<1>7. CASE RecoverFails(w)
  BY <1>0, <1>7, GotoAlone DEF RecoverFails
<1> QED
  BY <1>2, <1>3, <1>4, <1>5, <1>6, <1>7

-----------------------------------------------------------------------------
(* The environment, and the runs.                                          *)

\* Runs that end, keys that are set, messages that come again, and crashes.
LEMMA EnvironmentAlone ==
    ASSUME AInv, NEW w \in Workers,
           \/ Crash(w) \/ Redeliver(w) \/ (\E r \in Runs : DifyEnds(r))
           \/ (OneAtATime /\ ConfigureKey)
    PROVE  Alone(w)'
<1>0. /\ w \in Sessions /\ dify \in [Runs -> DifyRun]
      /\ ctl \in [Sessions -> Control] /\ ctl[w] \in Control
      /\ db \in [Jobs -> WorkflowJob] /\ Alone(w)
  BY DEF Sessions, AInv, IInv, TypeInv, TypeOK, AloneInv
<1>1. CASE Crash(w)
  <2>1. /\ ctl' = [ctl EXCEPT ![w] = Idle]
        /\ mem' = [mem EXCEPT ![w] = Nothing]
        /\ base' = [base EXCEPT ![w] = Nothing]
        /\ db' = db /\ hasKey' = hasKey
    BY <1>1 DEF Crash, Close, data
  <2>2. (\A j \in Jobs : Nothing[j] = None) /\ Idle.pc = "idle"
    BY DEF Nothing, Idle
  <2> QED
    BY <2>1, <2>2, OpenAlone
<1>2. CASE Redeliver(w)
  <2>1. /\ ctl'[w].pc = ctl[w].pc /\ ctl'[w].after = ctl[w].after
        /\ ctl'[w].cur = ctl[w].cur
        /\ UNCHANGED <<db, dify, mem, base, hasKey>>
    BY <1>0, <1>2 DEF Redeliver, Control, data
  <2> QED
    BY <1>0, <2>1 DEF Alone, Fresh, Keyless, Cur
<1>3. ASSUME NEW r \in Runs, DifyEnds(r) PROVE Alone(w)'
  <2>1. PICK outcome \in Outcomes : dify' = [dify EXCEPT ![r].state = outcome]
    BY <1>3 DEF DifyEnds
  <2>2. OutcomesStay
    BY <1>0, <1>3, <2>1 DEF DifyEnds, OutcomesStay, DifyRun
  <2>3. UNCHANGED <<db, ctl, mem, base, hasKey>>
    BY <1>3 DEF DifyEnds, env
  <2>4. ctl[w].pc = "commit" => LifeStep(dify', db[ctl[w].cur], Cur(w))
    BY <1>0, <2>2, LifeStepStays DEF Alone
  <2> QED
    BY <1>0, <2>3, <2>4 DEF Alone, Fresh, Keyless, Cur
<1>4. CASE OneAtATime /\ ConfigureKey
  <2>1. /\ ctl[w].pc = "idle"
        /\ UNCHANGED <<db, dify, ctl, mem, base>> /\ hasKey'
    BY <1>4 DEF ConfigureKey, WorkerIdle, data
  <2>2. \A j \in Jobs : mem[w][j] = None
    BY <1>0, <2>1 DEF Alone
  <2> QED
    BY <2>1, <2>2 DEF Alone, Fresh, InWork
<1> QED
  BY <1>1, <1>2, <1>3, <1>4

\* A worker posts the inputs of the job it has in work, for a job that has no
\* run and waits for one.
LEMMA PostsWaiting ==
    ASSUME AInv, NEW w \in Workers, ctl[w].pc = "post", CreateRun(w)
    PROVE  LET r == CHOOSE r \in FreeRuns : TRUE
               j == ctl[w].cur IN
           /\ r \in Runs /\ dify[r].state = "none"
           /\ j \in Jobs /\ Phase(db[j]) = "waiting" /\ db[j].run = None
           /\ \E file \in BOOLEAN :
                 /\ j \in Uploads => file
                 /\ dify' = [dify EXCEPT ![r] = [state |-> "running", job |-> j,
                                                 file |-> file]]
<1> DEFINE r == CHOOSE new \in FreeRuns : TRUE
           j == ctl[w].cur
<1>1. r \in FreeRuns
  BY DEF CreateRun
<1>2. dify' = [dify EXCEPT ![r] = [state |-> "running", job |-> j,
                                   file |-> Cur(w).inputs]]
  BY DEF CreateRun
<1>3. /\ j \in Jobs /\ Cur(w) = db[j] /\ Cur(w) \in WorkflowJob
      /\ ~IsFinal(Cur(w)) /\ Working("post", j, Cur(w))
  BY CurAlone DEF InWork
<1>4. Phase(db[j]) = "waiting" /\ db[j].run = None
  BY <1>3 DEF Phase, Working
<1>5. Cur(w).inputs \in BOOLEAN /\ (j \in Uploads => Cur(w).inputs)
  BY <1>3 DEF Working, WorkflowJob
<1>6. r \in Runs /\ dify[r].state = "none"
  BY <1>1 DEF FreeRuns
<1> QED
  BY <1>2, <1>3, <1>4, <1>5, <1>6

\* What the steps do to Dify's runs.
LEMMA RunsMove ==
    ASSUME AInv, OneAtATime, [Next]_vars
    PROVE  \/ dify' = dify
           \/ \E w \in Workers : /\ ctl[w].pc = "post" /\ CreateRun(w)
                                 /\ db' = db
           \/ \E r \in Runs : DifyEnds(r)
<1>1. ASSUME NEW w \in Workers, WorkerStep(w) \/ Redeliver(w)
      PROVE  dify' = dify \/ (ctl[w].pc = "post" /\ CreateRun(w) /\ db' = db)
  BY <1>1 DEF WorkerStep, TakeJob, TakeSweep, TakeMessage, EndTask, RunFinal,
        RunCancelRequested, RunRecover, RunMissingKey, RunUpload, RunStart,
        RunJob, Upload, UploadFails, StartRun, PostRun, PostFails,
        StreamStarted, StreamFinished, StreamError, Receive, StreamEnds,
        StreamBreaks, RuntimeExceeded, Reconnect, GiveUp, GetEvents,
        ApplyRecovered, GetRunDetail, RecoverFails, Commit, Proceed, data,
        Redeliver
<1>2. Cancels = {}
  BY DEF OneAtATime
<1>3. ASSUME (\E s \in Sessions : Crash(s)) \/ ConfigureKey \/ UNCHANGED vars
      PROVE  dify' = dify
  BY <1>3 DEF Crash, ConfigureKey, vars, data
<1> QED
  BY <1>1, <1>2, <1>3 DEF Next, Quiescent

LEMMA CarriesFileNext ==
    ASSUME AInv, OneAtATime, [Next]_vars
    PROVE  RunCarriesFile'
<1>0. dify \in [Runs -> DifyRun] /\ RunCarriesFile
  BY DEF AInv, IInv, TypeInv, TypeOK, AloneInv
<1>1. CASE dify' = dify
  BY <1>0, <1>1 DEF RunCarriesFile
<1>2. ASSUME NEW w \in Workers, ctl[w].pc = "post", CreateRun(w)
      PROVE  RunCarriesFile'
  <2> DEFINE r == CHOOSE r \in FreeRuns : TRUE
  <2>1. PICK file \in BOOLEAN :
            /\ ctl[w].cur \in Uploads => file
            /\ dify' = [dify EXCEPT ![r] = [state |-> "running",
                                            job |-> ctl[w].cur, file |-> file]]
    BY <1>2, PostsWaiting
  <2> HIDE DEF r
  <2> QED
    BY <1>0, <2>1 DEF RunCarriesFile
<1>3. ASSUME NEW r \in Runs, DifyEnds(r) PROVE RunCarriesFile'
  <2>1. PICK outcome \in Outcomes : dify' = [dify EXCEPT ![r].state = outcome]
    BY <1>3 DEF DifyEnds
  <2>2. dify[r].state = "running"
    BY <1>3 DEF DifyEnds
  <2> QED
    BY <1>0, <2>1, <2>2 DEF RunCarriesFile, DifyRun
<1> QED
  BY <1>1, <1>2, <1>3, RunsMove

-----------------------------------------------------------------------------
(* The invariant.                                                          *)

\* No row is written but by a commit.
LEMMA RowsMove ==
    ASSUME AInv, OneAtATime, [Next]_vars
    PROVE  db' = db \/ \E w \in Workers : Commit(w)
<1>1. ASSUME NEW w \in Workers, WorkerStep(w) \/ Redeliver(w)
      PROVE  db' = db \/ Commit(w)
  BY <1>1 DEF WorkerStep, TakeJob, TakeSweep, TakeMessage, EndTask, RunFinal,
        RunCancelRequested, RunRecover, RunMissingKey, RunUpload, RunStart,
        RunJob, Upload, UploadFails, StartRun, PostRun, PostFails,
        StreamStarted, StreamFinished, StreamError, Receive, StreamEnds,
        StreamBreaks, RuntimeExceeded, Reconnect, GiveUp, GetEvents,
        ApplyRecovered, GetRunDetail, RecoverFails, Proceed, data, Redeliver
<1>2. Cancels = {}
  BY DEF OneAtATime
<1>3. ASSUME \/ \E s \in Sessions : Crash(s)
             \/ \E r \in Runs : DifyEnds(r)
             \/ ConfigureKey \/ UNCHANGED vars
      PROVE  db' = db
  BY <1>3 DEF Crash, DifyEnds, ConfigureKey, vars, data
<1> QED
  BY <1>1, <1>2, <1>3 DEF Next, Quiescent

LEMMA InitAlone == Init => AInv
<1> SUFFICES ASSUME Init PROVE AInv
  OBVIOUS
<1>1. IInv
  BY InitSound
<1>2. ASSUME NEW j \in Jobs PROVE Untouched(j, db[j])
  <2>1. None # "workflow_start_error"
    BY RunnerAssumption DEF ErrorCodes
  <2> QED
    BY <2>1 DEF Init, NewJob, Untouched
<1>3. ASSUME NEW w \in Workers PROVE Alone(w)
  <2>1. w \in Sessions
    BY DEF Sessions
  <2>2. /\ ctl[w].pc = "idle"
        /\ \A j \in Jobs : mem[w][j] = None /\ db[j].run = None
    BY <2>1 DEF Init, Nothing, Idle, NewJob
  <2> QED
    BY <2>2 DEF Alone, Fresh, Keyless, InWork
<1>4. RunCarriesFile
  BY DEF Init, NoRun, RunCarriesFile
<1> QED
  BY <1>1, <1>2, <1>3, <1>4 DEF AInv, AloneInv

\* AloneInv is inductive on top of IInv.
LEMMA NextAlone == AInv /\ OneAtATime /\ [Next]_vars => AInv'
<1> SUFFICES ASSUME AInv, OneAtATime, [Next]_vars PROVE AInv'
  OBVIOUS
<1>1. IInv'
  BY NextSound DEF AInv
<1>2. \A j \in Jobs : Untouched(j, db'[j])
  BY RowsMove, CommitAlone DEF AInv, AloneInv
<1>3. ASSUME NEW w \in Workers PROVE Alone(w)'
  <2>0. /\ Workers = {w} /\ Sessions = {w} /\ Cancels = {}
    BY DEF OneAtATime, Sessions
  <2>1. CASE WorkerStep(w)
    BY <2>1, TakeAlone, RunAlone, StartAlone, StreamAlone, RecoverAlone,
       CommitAlone DEF WorkerStep
  <2>2. CASE Crash(w) \/ Redeliver(w) \/ (\E r \in Runs : DifyEnds(r))
             \/ ConfigureKey
    BY <2>2, EnvironmentAlone
  <2>3. CASE UNCHANGED vars
    BY <2>3 DEF vars, AInv, AloneInv, Alone, Fresh, Keyless, Cur
  <2> QED
    BY <2>0, <2>1, <2>2, <2>3 DEF Next, Quiescent
<1>4. RunCarriesFile'
  BY CarriesFileNext
<1> QED
  BY <1>1, <1>2, <1>3, <1>4 DEF AInv, AloneInv

\* Both invariants hold when one worker runs the jobs and nobody cancels.
THEOREM AloneInvariant == OneAtATime => (Spec => []AInv)
<1> SUFFICES ASSUME OneAtATime PROVE Spec => []AInv
  OBVIOUS
<1>1. Init => AInv
  BY InitAlone
<1>2. AInv /\ [Next]_vars => AInv'
  BY NextAlone
<1> QED
  BY <1>1, <1>2, PTL DEF Spec

\* Dify is never asked to analyse an upload without its file: also when a
\* worker that died between the upload and the start is followed by another.
THEOREM RunsCarryFiles == OneAtATime => (Spec => []RunCarriesFile)
<1> SUFFICES ASSUME OneAtATime PROVE Spec => []RunCarriesFile
  OBVIOUS
<1>1. AInv => RunCarriesFile
  BY DEF AInv, AloneInv
<1> QED
  BY <1>1, AloneInvariant, PTL

\* "workflow_start_error" is only said of a job no run of which is known.
THEOREM StartErrorsMeanNoRun == OneAtATime => (Spec => []StartErrorMeansNoRun)
<1> SUFFICES ASSUME OneAtATime PROVE Spec => []StartErrorMeansNoRun
  OBVIOUS
<1>1. AInv => StartErrorMeansNoRun
  BY DEF AInv, AloneInv, Untouched, StartErrorMeansNoRun
<1> QED
  BY <1>1, AloneInvariant, PTL

-----------------------------------------------------------------------------
(* What the steps mean to a client.                                        *)

\* A row that a step changes makes one step in its life, and nothing else
\* that a client can tell changes with it.
LEMMA RowsLive ==
    ASSUME AInv, OneAtATime, [Next]_vars, db' # db
    PROVE  /\ dify' = dify
           /\ \E j \in Jobs, job \in WorkflowJob :
                 db' = [db EXCEPT ![j] = job] /\ LifeStep(dify, db[j], job)
                 /\ (job.run # None => job.run \in Runs /\ dify[job.run].job = j)
<1>1. PICK w \in Workers : Commit(w)
  BY RowsMove
<1>2. /\ w \in Sessions /\ ctl[w].pc = "commit" /\ dify' = dify
  BY <1>1 DEF Commit, Sessions
<1>3. /\ ctl[w].cur \in Jobs /\ Cur(w) \in WorkflowJob
      /\ db' = [db EXCEPT ![ctl[w].cur] = Cur(w)]
  BY <1>1, CommitWrites
<1>4. LifeStep(dify, db[ctl[w].cur], Cur(w)) /\ Cur(w) # None
  BY <1>2 DEF AInv, AloneInv, Alone
<1>5. Cur(w).run # None => dify[Cur(w).run].job = ctl[w].cur
  BY <1>2, <1>3, <1>4, SMTT(30) DEF AInv, IInv, CopiesSound, Sound, Cur
<1>6. Cur(w).run # None => Cur(w).run \in Runs
  BY <1>3 DEF WorkflowJob
<1> QED
  BY <1>2, <1>3, <1>4, <1>5, <1>6

\* A run is posted only for a job that has none, across crashes, redelivered
\* messages and recovery sweeps.
THEOREM NoJobIsRunTwice == OneAtATime => (Spec => NoSecondRun)
<1> SUFFICES ASSUME OneAtATime PROVE Spec => NoSecondRun
  OBVIOUS
<1>1. ASSUME AInv, [Next]_vars, NEW r \in Runs,
             dify[r].state = "none", dify'[r].state # "none"
      PROVE  db[dify'[r].job].run = None
  <2>0. dify \in [Runs -> DifyRun]
    BY <1>1 DEF AInv, IInv, TypeInv, TypeOK
  <2>1. CASE \E w \in Workers : ctl[w].pc = "post" /\ CreateRun(w)
    <3> PICK w \in Workers : ctl[w].pc = "post" /\ CreateRun(w)
      BY <2>1
    <3> DEFINE new == CHOOSE new \in FreeRuns : TRUE
    <3>1. /\ db[ctl[w].cur].run = None
          /\ \E file \in BOOLEAN :
                dify' = [dify EXCEPT ![new] = [state |-> "running",
                                               job |-> ctl[w].cur,
                                               file |-> file]]
      BY <1>1, PostsWaiting
    <3> HIDE DEF new
    <3> QED
      BY <1>1, <2>0, <3>1
  <2>2. CASE \E e \in Runs : DifyEnds(e)
    BY <1>1, <2>0, <2>2 DEF DifyEnds, DifyRun
  <2> QED
    BY <1>1, <2>1, <2>2, RunsMove
<1>2. AInv /\ [Next]_vars =>
        [\A r \in Runs :
          dify[r].state = "none" /\ dify'[r].state # "none" =>
              db[dify'[r].job].run = None]_vars
  BY <1>1
<1> QED
  BY <1>2, AloneInvariant, PTL DEF Spec, NoSecondRun

\* Without a cancel request, a finished job keeps its status.
THEOREM FinishedJobsStay == OneAtATime => (Spec => FinalIsFinal)
<1> SUFFICES ASSUME OneAtATime PROVE Spec => FinalIsFinal
  OBVIOUS
<1>1. ASSUME AInv, [Next]_vars, NEW j \in Jobs, IsFinal(db[j])
      PROVE  db'[j].status = db[j].status
  <2>1. CASE db' = db
    BY <2>1
  <2>2. CASE db' # db
    <3>1. PICK i \in Jobs, job \in WorkflowJob :
              db' = [db EXCEPT ![i] = job] /\ LifeStep(dify, db[i], job)
      BY <1>1, <2>2, RowsLive
    <3>2. CASE i = j
      <4>1. Phase(db[j]) = db[j].status
            /\ Phase(db[j]) \notin {"waiting", "following"}
        BY <1>1 DEF Phase, IsFinal, FinalStatuses
      <4>2. Phase(job) = Phase(db[j])
        BY <3>1, <3>2, <4>1 DEF LifeStep
      <4>3. job.status = db[j].status
        BY <4>1, <4>2 DEF Phase
      <4>4. db \in [Jobs -> WorkflowJob]
        BY <1>1 DEF AInv, IInv, TypeInv, TypeOK
      <4> QED
        BY <3>1, <3>2, <4>3, <4>4
    <3>3. CASE i # j
      BY <3>1, <3>3
    <3> QED
      BY <3>2, <3>3
  <2> QED
    BY <2>1, <2>2
<1>2. AInv /\ [Next]_vars =>
        [\A j \in Jobs : IsFinal(db[j]) => db'[j].status = db[j].status]_vars
  BY <1>1
<1> QED
  BY <1>2, AloneInvariant, PTL DEF Spec, FinalIsFinal

-----------------------------------------------------------------------------
(* The refinement.                                                         *)

\* A run that a worker starts, a run that ends, and a row that is written.
LEMMA PostRefines ==
    ASSUME AInv, NEW w \in Workers, ctl[w].pc = "post", CreateRun(w), db' = db
    PROVE  Lifecycle!Next
<1>1. PICK r \in Runs, j \in Jobs, file \in BOOLEAN :
          /\ dify[r].state = "none" /\ Phase(db[j]) = "waiting"
          /\ dify' = [dify EXCEPT ![r] = [state |-> "running", job |-> j,
                                          file |-> file]]
  BY PostsWaiting
<1>2. dify \in [Runs -> DifyRun]
  BY DEF AInv, IInv, TypeInv, TypeOK
<1>3. [i \in Runs |-> dify'[i].job]
         = [[i \in Runs |-> dify[i].job] EXCEPT ![r] = j]
  BY <1>1, <1>2
<1>4. [i \in Runs |-> dify'[i].state]
         = [[i \in Runs |-> dify[i].state] EXCEPT ![r] = "running"]
  BY <1>1, <1>2
<1>5. Lifecycle!Post(j, r)
  BY <1>1, <1>3, <1>4 DEF Lifecycle!Post
<1> QED
  BY <1>5 DEF Lifecycle!Next

LEMMA EndRefines ==
    ASSUME AInv, NEW r \in Runs, DifyEnds(r)
    PROVE  Lifecycle!Next
<1>1. PICK outcome \in Outcomes : dify' = [dify EXCEPT ![r].state = outcome]
  BY DEF DifyEnds
<1>2. dify[r].state = "running" /\ db' = db /\ dify \in [Runs -> DifyRun]
  BY DEF DifyEnds, AInv, IInv, TypeInv, TypeOK
<1>3. outcome \in Lifecycle!Ends
  BY RunnerAssumption DEF DifyFinal, Lifecycle!Ends
<1>4. Lifecycle!RunEnds(r, outcome)
  BY <1>1, <1>2 DEF Lifecycle!RunEnds, DifyRun
<1> QED
  BY <1>3, <1>4 DEF Lifecycle!Next

LEMMA RowRefines ==
    ASSUME AInv, NEW j \in Jobs, NEW job \in WorkflowJob,
           db' = [db EXCEPT ![j] = job], dify' = dify,
           LifeStep(dify, db[j], job),
           job.run # None => job.run \in Runs /\ dify[job.run].job = j
    PROVE  [Lifecycle!Next]_Lifecycle!vars
<1> DEFINE phase == [i \in Jobs |-> Phase(db[i])]
           follows == [i \in Jobs |-> db[i].run]
           result == [i \in Jobs |-> db[i].result]
<1>0. db \in [Jobs -> WorkflowJob]
  BY DEF AInv, IInv, TypeInv, TypeOK
<1>1. /\ phase' = [phase EXCEPT ![j] = Phase(job)]
      /\ follows' = [follows EXCEPT ![j] = job.run]
      /\ result' = [result EXCEPT ![j] = job.result]
      /\ phase[j] = Phase(db[j]) /\ follows[j] = db[j].run
      /\ result[j] = db[j].result
  BY <1>0
<1>2. /\ follows' = follows \/ job.run # db[j].run
      /\ result' = result \/ job.result # db[j].result
      /\ phase' = phase \/ Phase(job) # Phase(db[j])
  BY <1>1
<1>3. CASE Phase(job) = Phase(db[j])
  BY <1>2, <1>3 DEF LifeStep, Lifecycle!vars
<1>4. CASE Phase(db[j]) = "waiting" /\ Phase(job) = "following"
  <2>1. job.run # None /\ job.result = db[j].result
    BY <1>4 DEF Phase, LifeStep, WorkflowJob, FinalStatuses, IsFinal,
                ActiveStatuses
  <2>2. Lifecycle!Follow(j, job.run)
    BY <1>1, <1>2, <1>4, <2>1 DEF Lifecycle!Follow
  <2> QED
    BY <2>1, <2>2 DEF Lifecycle!Next
<1>5. CASE Phase(db[j]) = "following" /\ Phase(job) = "succeeded"
  <2>1. /\ dify[db[j].run].state = "succeeded" /\ job.result = db[j].run
        /\ job.run = db[j].run
    BY <1>5 DEF LifeStep
  <2>2. db[j].run \in Runs
    BY <1>0, <1>5 DEF Phase, WorkflowJob, IsFinal, FinalStatuses
  <2>3. Lifecycle!Succeed(j)
    BY <1>1, <1>2, <1>5, <2>1, <2>2 DEF Lifecycle!Succeed, Lifecycle!Finish
  <2> QED
    BY <2>3 DEF Lifecycle!Next
<1>6. CASE Phase(db[j]) = "following" /\ Phase(job) = "cancelled"
  <2>1. /\ dify[db[j].run].state = "stopped"
        /\ job.run = db[j].run /\ job.result = db[j].result
    BY <1>6 DEF LifeStep
  <2>2. db[j].run \in Runs
    BY <1>0, <1>6 DEF Phase, WorkflowJob, IsFinal, FinalStatuses
  <2>3. Lifecycle!Cancel(j)
    BY <1>1, <1>2, <1>6, <2>1, <2>2 DEF Lifecycle!Cancel, Lifecycle!Finish
  <2> QED
    BY <2>3 DEF Lifecycle!Next
<1>7. CASE Phase(db[j]) \in {"waiting", "following"} /\ Phase(job) = "failed"
  <2>1. job.run = db[j].run /\ job.result = db[j].result
    BY <1>7 DEF LifeStep
  <2>2. Lifecycle!Fail(j)
    BY <1>1, <1>2, <1>7, <2>1 DEF Lifecycle!Fail, Lifecycle!Finish
  <2> QED
    BY <2>2 DEF Lifecycle!Next
<1> QED
  BY <1>3, <1>4, <1>5, <1>6, <1>7 DEF LifeStep

\* Every step of WorkflowRunner is a step of JobLifecycle or none.
LEMMA StepRefines ==
    ASSUME AInv, OneAtATime, [Next]_vars
    PROVE  [Lifecycle!Next]_Lifecycle!vars
<1>1. CASE db' # db
  BY <1>1, RowsLive, RowRefines
<1>2. CASE db' = db /\ dify' = dify
  BY <1>2 DEF Lifecycle!vars
<1>3. CASE db' = db /\ dify' # dify
  BY <1>3, RunsMove, PostRefines, EndRefines
<1> QED
  BY <1>1, <1>2, <1>3

\* What a client sees of the jobs is a behaviour of JobLifecycle: copies of
\* rows that outlive a crash or a sweep never take a job back, give it a second
\* run, or pair its status with another run's output.
THEOREM LifecycleIsImplemented == OneAtATime => (Spec => ImplementsLifecycle)
<1> SUFFICES ASSUME OneAtATime PROVE Spec => ImplementsLifecycle
  OBVIOUS
<1>1. Init => Lifecycle!Init
  BY DEF Init, Lifecycle!Init, NewJob, NoRun, Phase, IsFinal, FinalStatuses
<1>2. AInv /\ [Next]_vars => [Lifecycle!Next]_Lifecycle!vars
  BY StepRefines
<1> QED
  BY <1>1, <1>2, AloneInvariant, PTL DEF Spec, ImplementsLifecycle,
                                         Lifecycle!Spec
=============================================================================
