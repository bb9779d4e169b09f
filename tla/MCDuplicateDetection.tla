------------------------ MODULE MCDuplicateDetection ------------------------
(* The instance of DuplicateDetection that TLC checks: two similar titles, *)
(* whose ratio depends on the order they are compared in (as difflib's     *)
(* does), and one whose normalised form is empty.                          *)
EXTENDS DuplicateDetection, TLC

CONSTANTS p1, p2, p3, r1, r2, r3, v1, v2, plain, dotted, chinese

ThreePapers == {p1, p2, p3}
ThreeRequests == {r1, r2, r3}
TwoReviewers == {v1, v2}
AllTitles == {plain, dotted, chinese}

Normalised == [t \in AllTitles |-> IF t = chinese THEN Blank ELSE t]

(* Ratios in hundredths.                                                   *)
Ratios == [pair \in {plain, dotted, Blank} \X {plain, dotted, Blank} |->
             CASE pair[1] = pair[2]        -> 100
               [] Blank \in {pair[1], pair[2]} -> 0
               [] pair[1] = plain          -> 95
               [] OTHER                    -> 93]

Symmetry == Permutations(Papers) \cup Permutations(Requests)
              \cup Permutations(Reviewers)
=============================================================================
