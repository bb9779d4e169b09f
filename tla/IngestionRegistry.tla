-------------------------- MODULE IngestionRegistry --------------------------
(***************************************************************************)
(* The refinement of Registry by Ingestion: the history of a paper is      *)
(* spread over its row and the rows of paper_versions.                     *)
(***************************************************************************)
EXTENDS Ingestion

\* The content of version n of a paper.
VersionAt(p, n) == (CHOOSE v \in VersionsOf(p) : v.number = n).hash

\* What the row of a paper says of its length, and its versions of the rest.
HistoryOf(p) ==
    IF papers[p] = None THEN <<>>
    ELSE [n \in 1..papers[p].version |-> VersionAt(p, n)]

Abstract == INSTANCE Registry WITH history <- [p \in Papers |-> HistoryOf(p)]

\* Whatever requests race for a paper, and however often a transaction is
\* rolled back and tried again, what the tables hold of it is a history that
\* only grows at its end and never repeats a content.
ImplementsRegistry == Abstract!Spec
=============================================================================
