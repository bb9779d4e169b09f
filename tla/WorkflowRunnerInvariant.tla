----------------------- MODULE WorkflowRunnerInvariant -----------------------
(***************************************************************************)
(* The inductive invariant behind the safety properties of WorkflowRunner  *)
(* that hold whatever the sessions do to each other.  Its parts speak of   *)
(* one session, or of one copy of a job, at a time: that is what a step of *)
(* another session cannot disturb.                                         *)
(***************************************************************************)
EXTENDS WorkflowRunner

\* The labels at which the code reads the job in work, or its run.
InWork == {"upload", "starting", "post", "stream", "handler", "events",
           "event", "stop", "replied"}
WithRun == {"events", "event", "stop"}

\* What the code at label l relies on, k being the session's control and m its
\* objects.
Ready(l, k, m) ==
    /\ l \in InWork => k.cur # None /\ m[k.cur] # None
    /\ l \in WithRun => m[k.cur].run # None
    /\ l = "stream" => k.stream # None

SessionOK(k, m, b) ==
    /\ Ready(k.pc, k, m)
    /\ k.pc = "commit" => Ready(k.after, k, m)
    /\ \A j \in Jobs : m[j] = None <=> b[j] = None

SessionsOK == \A s \in Sessions : SessionOK(ctl[s], mem[s], base[s])

TypeInv == TypeOK /\ SessionsOK

-----------------------------------------------------------------------------
\* A copy of job j, in the table or in a session, against the disk and Dify.
Sound(disk, runs, j, job) ==
    /\ job.run # None => runs[job.run].job = j
    /\ job.result # None => /\ runs[job.result].state = "succeeded"
                            /\ runs[job.result].job = j
    /\ job.status = "succeeded" => job.result # None
    /\ job.status = "failed" => job.error # None
    /\ disk[j] /\ j \notin Undeletable => ~IsFinal(job) /\ job.manifest # "empty"

\* No copy loses a result or an error code that an earlier copy had.
Keeps(old, new) ==
    /\ old.result # None => new.result # None
    /\ old.error # None => new.error # None

CopiesSound ==
    /\ \A j \in Jobs : Sound(onDisk, dify, j, db[j])
    /\ \A s \in Sessions, j \in Jobs :
          mem[s][j] # None =>
             /\ Sound(onDisk, dify, j, mem[s][j])
             /\ Sound(onDisk, dify, j, base[s][j])
             /\ Keeps(base[s][j], mem[s][j])
             /\ Keeps(base[s][j], db[j])

\* A run belongs to the job it was started for, and a worker only reads the
\* stream of a run of its job.
RunsOwned ==
    /\ \A r \in Runs : dify[r].state = "none" => dify[r].job = None
    /\ \A s \in Sessions :
          ctl[s].stream # None =>
             ctl[s].cur # None /\ dify[ctl[s].stream].job = ctl[s].cur

IInv == TypeInv /\ CopiesSound /\ RunsOwned
=============================================================================
