-------------------------- MODULE MCWorkflowRunner --------------------------
(* Instances of WorkflowRunner for TLC. *)
EXTENDS WorkflowRunnerLifecycle, TLC

CONSTANTS j1, j2, w1, w2, c1, c2, r1, r2, r3

AllOutcomes == DifyFinal
NamedOutcomes == {"succeeded", "failed", "stopped"}
OnlySuccess == {"succeeded"}

KeySet == {TRUE}
KeyUnset == {FALSE}
KeyEither == BOOLEAN

OneJob == {j1}
TwoJobs == {j1, j2}
OnlyJ2 == {j2}
NoJob == {}
OneWorker == {w1}
TwoWorkers == {w1, w2}
NoCancel == {}
OneCancel == {c1}
WorkerSymmetry == Permutations(TwoWorkers)

TwoRuns == {r1, r2}
ThreeRuns == {r1, r2, r3}
=============================================================================
