------------------------- MODULE MCWorkflowAdmission -------------------------
(* Small instances of WorkflowAdmission. *)
EXTENDS WorkflowAdmission, TLC

CONSTANTS r1, r2, r3, o1, o2, k1

TwoRequests == {r1, r2}
ThreeRequests == {r1, r2, r3}
OneOwner == {o1}
TwoOwners == {o1, o2}
OneKey == {k1}

\* An arXiv job, an upload, an upload with an image, one with a bad image.
AllShapes == {<<>>, <<"ok">>, <<"ok", "ok">>, <<"ok", "bad">>}
SomeShapes == {<<>>, <<"ok">>, <<"ok", "bad">>}
ArxivOnly == {<<>>}

RequestSymmetry == Permutations(Requests) \cup Permutations(Owners)
=============================================================================
