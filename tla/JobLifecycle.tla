---------------------------- MODULE JobLifecycle ----------------------------
(***************************************************************************)
(* What a client may rely on when it watches a workflow job, whatever      *)
(* messages, sessions, streams and retries are behind it: the job waits    *)
(* until one run of Dify is known for it, stays with that run, and becomes *)
(* final once.  A run is posted only for a job that still waits; a job     *)
(* succeeds with the output of the run it follows, and is cancelled        *)
(* because that run was stopped.                                           *)
(*                                                                         *)
(* WorkflowRunnerLifecycle shows that the workers implement this.          *)
(***************************************************************************)
CONSTANTS Jobs, Runs, None

VARIABLES
    phase,     \* of each job
    follows,   \* the run that is known for a job
    result,    \* the run whose output a client gets
    posted,    \* the job that a run was posted for
    outcome    \* of each run, on Dify's side
vars == <<phase, follows, result, posted, outcome>>

Ends == {"succeeded", "failed", "stopped", "other"}

Init ==
    /\ phase = [j \in Jobs |-> "waiting"]
    /\ follows = [j \in Jobs |-> None]
    /\ result = [j \in Jobs |-> None]
    /\ posted = [r \in Runs |-> None]
    /\ outcome = [r \in Runs |-> "none"]

\* A run may be posted more than once for a job, as long as none is known: an
\* answer can be lost.
Post(j, r) ==
    /\ phase[j] = "waiting"
    /\ outcome[r] = "none"
    /\ posted' = [posted EXCEPT ![r] = j]
    /\ outcome' = [outcome EXCEPT ![r] = "running"]
    /\ UNCHANGED <<phase, follows, result>>

RunEnds(r, end) ==
    /\ outcome[r] = "running"
    /\ outcome' = [outcome EXCEPT ![r] = end]
    /\ UNCHANGED <<phase, follows, result, posted>>

Follow(j, r) ==
    /\ phase[j] = "waiting"
    /\ posted[r] = j
    /\ phase' = [phase EXCEPT ![j] = "following"]
    /\ follows' = [follows EXCEPT ![j] = r]
    /\ UNCHANGED <<result, posted, outcome>>

Finish(j, final) ==
    /\ phase' = [phase EXCEPT ![j] = final]
    /\ UNCHANGED <<follows, posted, outcome>>

Succeed(j) ==
    /\ phase[j] = "following"
    /\ outcome[follows[j]] = "succeeded"
    /\ result' = [result EXCEPT ![j] = follows[j]]
    /\ Finish(j, "succeeded")

Cancel(j) ==
    /\ phase[j] = "following"
    /\ outcome[follows[j]] = "stopped"
    /\ Finish(j, "cancelled")
    /\ UNCHANGED result

Fail(j) ==
    /\ phase[j] \in {"waiting", "following"}
    /\ Finish(j, "failed")
    /\ UNCHANGED result

Next ==
    \/ \E j \in Jobs, r \in Runs : Post(j, r) \/ Follow(j, r)
    \/ \E j \in Jobs : Succeed(j) \/ Cancel(j) \/ Fail(j)
    \/ \E r \in Runs, end \in Ends : RunEnds(r, end)

Spec == Init /\ [][Next]_vars
=============================================================================
