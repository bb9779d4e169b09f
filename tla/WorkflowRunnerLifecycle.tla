---------------------- MODULE WorkflowRunnerLifecycle ----------------------
(***************************************************************************)
(* The refinement of JobLifecycle by WorkflowRunner: the columns of a row  *)
(* that its client can see, and the runs of Dify.  It holds when one       *)
(* worker runs the jobs and nobody cancels them, through crashes,          *)
(* redeliveries, a recovery sweep, lost answers and broken streams; the    *)
(* instances SecondRun and CancelOverwritten show that it does not         *)
(* with two workers or with cancels.                                       *)
(***************************************************************************)
EXTENDS WorkflowRunner

Phase(job) ==
    IF IsFinal(job) THEN job.status
    ELSE IF job.run = None THEN "waiting" ELSE "following"

Lifecycle == INSTANCE JobLifecycle WITH
    phase   <- [j \in Jobs |-> Phase(db[j])],
    follows <- [j \in Jobs |-> db[j].run],
    result  <- [j \in Jobs |-> db[j].result],
    posted  <- [r \in Runs |-> dify[r].job],
    outcome <- [r \in Runs |-> dify[r].state]

\* What a client sees of a job is a behaviour of JobLifecycle: copies of rows
\* that outlive a crash or a sweep never take a job back, give it a second
\* run, or pair its status with another run's output.
ImplementsLifecycle == Lifecycle!Spec
=============================================================================
