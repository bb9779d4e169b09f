------------------------------ MODULE Registry ------------------------------
(***************************************************************************)
(* What registration promises: each paper has a history, a sequence of     *)
(* distinct contents that only ever grows at its end.                      *)
(*                                                                         *)
(* IngestionRegistry shows that Ingestion implements this.                 *)
(***************************************************************************)
EXTENDS Naturals, Sequences

CONSTANTS Papers, Contents

VARIABLE history   \* the contents of each paper, oldest first

Init == history = [p \in Papers |-> <<>>]

Register(p, h) ==
    /\ \A n \in DOMAIN history[p] : history[p][n] # h
    /\ history' = [history EXCEPT ![p] = Append(@, h)]

Next == \E p \in Papers, h \in Contents : Register(p, h)

Spec == Init /\ [][Next]_history
=============================================================================
