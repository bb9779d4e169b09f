----------------------------- MODULE MCGraphSync -----------------------------
(* An instance of GraphSync.  One uid looks like the key of an edge. *)
EXTENDS GraphSync

CONSTANTS p1, p2

u == <<"u">>
v == <<"v">>
uRv == <<"u", "|", "R", "|", "v">>

SomeParts == {"u", "v", "R", "|"}
TwoPapers == {p1, p2}
SomeUids == {u, v, uRv}
SomeRelations == {"R", "S"}
OnlyR == {"R"}
TwoLabels == {"x", "y"}
SomeEvidence == {"", "e", "f"}
SomeConfidences == {-1, 0, 100, 101}

N(uid, label) == [uid |-> uid, label |-> label]
Rated(source, relation, target, evidence, confidence) ==
    [source |-> source, relation |-> relation, target |-> target, evidence |-> evidence,
     confidence |-> confidence]
E(source, relation, target, evidence) == Rated(source, relation, target, evidence, 100)

SomeNodeLists ==
    {<<>>, <<N(u, "x"), N(v, "x")>>, <<N(v, "y")>>, <<N(u, "x"), N(u, "y")>>,
     <<N(u, "y"), N(v, "x"), N(uRv, "x")>>}

SomeEdgeLists ==
    {<<>>, <<E(u, "R", v, "e")>>, <<E(u, "R", v, "f"), Rated(u, "R", v, "e", 0)>>,
     <<E(u, "S", v, "e")>>, <<E(v, "R", u, "")>>, <<E(v, "R", v, "e")>>,
     <<Rated(v, "R", u, "e", -1)>>, <<Rated(v, "R", u, "e", 101)>>,
     <<E(u, "R", uRv, "e")>>, <<E(uRv, "R", v, "f"), E(v, "R", u, "e")>>}

=============================================================================
