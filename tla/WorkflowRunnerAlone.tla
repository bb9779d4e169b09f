------------------------- MODULE WorkflowRunnerAlone -------------------------
(***************************************************************************)
(* The inductive invariant of WorkflowRunner for one worker and no cancel  *)
(* requests: what the worker has loaded is what the table holds, except    *)
(* for the job it is about to commit, and that commit is one step in the   *)
(* life of the job.                                                        *)
(***************************************************************************)
EXTENDS WorkflowRunnerLifecycle, WorkflowRunnerInvariant

OneAtATime == Cancels = {} /\ \A v, w \in Workers : v = w

\* A job that no cancel request has touched.
Untouched(j, job) ==
    /\ job.status # "cancel_requested"
    /\ ~IsFinal(job) => job.error = None
    /\ job.error = "workflow_start_error" => job.run = None
    /\ job.manifest = "empty" => IsFinal(job) \/ j \notin Uploads

\* What the code at label l relies on, beyond Ready.
Working(l, j, job) ==
    /\ l \in InWork => ~IsFinal(job)
    /\ l \in {"upload", "starting", "post"} => job.run = None
    /\ l \in {"starting", "post", "stream"} /\ j \in Uploads => job.inputs

\* One step in the life of a job, from the row old to the row new.
LifeStep(runs, old, new) ==
    /\ new.run # old.run =>
          Phase(old) = "waiting" /\ Phase(new) = "following"
    /\ new.result # old.result =>
          Phase(old) = "following" /\ Phase(new) = "succeeded"
    /\ Phase(new) # Phase(old) =>
          \/ Phase(old) = "waiting" /\ Phase(new) = "following"
          \/ /\ Phase(old) = "following" /\ Phase(new) = "succeeded"
             /\ runs[old.run].state = "succeeded"
             /\ new.result = old.run
          \/ /\ Phase(old) = "following" /\ Phase(new) = "cancelled"
             /\ runs[old.run].state = "stopped"
          \/ Phase(old) \in {"waiting", "following"} /\ Phase(new) = "failed"

\* A copy that its session does not hold for a commit is the row.
Fresh(w, j) == mem[w][j] \in {None, db[j]}

\* Without a key nothing is ever posted or committed: jobs fail in memory.
Keyless(w) ==
    /\ ctl[w].pc \in {"idle", "next"}
    /\ \A j \in Jobs :
          /\ db[j].run = None
          /\ mem[w][j] # None => mem[w][j].run = None
          /\ mem[w][j] # None => mem[w][j].status # "cancel_requested"

Alone(w) ==
    /\ \A j \in Jobs : mem[w][j] # None => base[w][j] = db[j]
    /\ hasKey => \A j \in Jobs :
                    \/ Fresh(w, j)
                    \/ ctl[w].pc = "commit" /\ j = ctl[w].cur
    /\ ~hasKey => Keyless(w)
    /\ ctl[w].pc = "idle" => \A j \in Jobs : mem[w][j] = None
    /\ ctl[w].pc \in InWork =>
          Working(ctl[w].pc, ctl[w].cur, Cur(w))
    /\ ctl[w].pc = "commit" =>
          /\ ctl[w].after \notin {"idle", "commit"}
          /\ ctl[w].cur \in Jobs
          /\ Cur(w) # None
          /\ Untouched(ctl[w].cur, Cur(w))
          /\ Working(ctl[w].after, ctl[w].cur, Cur(w))
          /\ LifeStep(dify, db[ctl[w].cur], Cur(w))

AloneInv ==
    /\ \A j \in Jobs : Untouched(j, db[j])
    /\ \A w \in Workers : Alone(w)
    /\ RunCarriesFile
=============================================================================
