---------------------------- MODULE MCJobListing ----------------------------
(* The instance of JobListing that TLC checks.                             *)
EXTENDS JobListing, TLC

CONSTANTS j1, j2, j3, ada

ThreeJobs == {j1, j2, j3}
OneOwner == {ada}
JobSymmetry == Permutations(Jobs)
=============================================================================
