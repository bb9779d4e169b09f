---------------------------- MODULE MCDocumentSync ----------------------------
(* Small instances of DocumentSync. *)
EXTENDS DocumentSync

CONSTANTS p1, p2, k1, k2, k3, w1, w2

OnePaper == {p1}
TwoPapers == {p1, p2}
ThreeKeys == {k1, k2, k3}
TwoWorkers == {w1, w2}

\* Only one document has more to tell than that it is indexed.
SomeStatuses == [k \in {k1, k2, k3} |->
                   IF k = k3 THEN {"completed", "error"} ELSE {"completed"}]

\* A second version with the same documents in the other order.
Reversed == << <<k1, k2>>, <<k2, k1>> >>

\* A document that changes twice.
Changed == << <<k3>>, <<k3>>, <<k3>> >>

\* A version without documents, and one that brings a document back.
Emptied == << <<k1, k3>>, <<>>, <<k3>> >>

Of(versions) == [p \in {p1} |-> versions]
AllHistories == {Of(Reversed), Of(Changed), Of(Emptied)}

\* Two papers that name a document of theirs by the same key.
SharedHistory == {[p \in {p1, p2} |-> << <<k3>> >>]}
=============================================================================
