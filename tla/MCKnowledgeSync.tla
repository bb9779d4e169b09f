--------------------------- MODULE MCKnowledgeSync ---------------------------
(* Small instances of Ingestion and KnowledgeSync. *)
EXTENDS KnowledgeSync, IngestionRegistry, TLC

CONSTANTS r1, r2, r3, r4, p1, p2, a, b, c, w1, w2

OnePaper == {p1}
TwoPapers == {p1, p2}
SameDoi == {{p1, p2}}
TwoContents == {a, b}
ThreeContents == {a, b, c}
OnlyB == {b}
OneRequest == {r1}
TwoRequests == {r1, r2}
ThreeRequests == {r1, r2, r3}
FourRequests == {r1, r2, r3, r4}
NoWorker == {}
OneWorker == {w1}
TwoWorkers == {w1, w2}
FourDocuments == 1..4

RequestSymmetry == Permutations(Requests) \cup Permutations(Workers) \cup Permutations(Papers)
=============================================================================
