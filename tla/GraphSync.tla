------------------------------ MODULE GraphSync ------------------------------
(***************************************************************************)
(* What Neo4jGraphProvider.sync_graph makes of the graphs of several       *)
(* papers in one Neo4j database.  A graph is validated twice, by the       *)
(* request schema when it is submitted and by the provider when it is      *)
(* synchronised; it is written in one transaction of Neo4j that merges     *)
(* nodes, shared by all papers, and then edges, keyed by a string that     *)
(* joins source, relation, target and paper.  Several tasks synchronise at *)
(* the same time; a transaction of theirs is one step.                     *)
(*                                                                         *)
(* Names, aliases and descriptions of a node are one value, its label;     *)
(* section and page of an edge are left out, as is the time of an update.  *)
(* A confidence is a whole number of hundredths.                           *)
(***************************************************************************)
EXTENDS Integers, Sequences, FiniteSets

CONSTANTS
    Papers,
    Parts,             \* of which the texts of uids are made
    Uids,              \* texts, as sequences of their parts
    Relations,         \* texts a client may send
    ALLOWED_RELATIONS,
    Labels,
    Evidence,          \* values of evidence, "" being the empty text
    Confidences,       \* numbers a client may send, in hundredths
    NodeLists,         \* lists of nodes that clients send
    EdgeLists,         \* lists of edges that clients send
    EdgeKeyUnique,     \* this Neo4j supports uniqueness of relationships
    MaxSyncs           \* bound: graphs submitted

Node == [uid : Uids, label : Labels]
Edge == [source : Uids, relation : Relations, target : Uids, evidence : Evidence,
         confidence : Confidences]

ASSUME GraphAssumption ==
    /\ Uids \subseteq Seq(Parts)
    /\ NodeLists \subseteq Seq(Node)
    /\ EdgeLists \subseteq Seq(Edge)
    /\ ALLOWED_RELATIONS \subseteq Relations
    /\ Confidences \subseteq Int
    /\ EdgeKeyUnique \in BOOLEAN
    /\ MaxSyncs \in Nat

VARIABLES
    labels,     \* the label of each Entity node, and which uids have one
    edges,      \* the RELATES_TO edges
    syncs       \* submitted graphs: paper, nodes, edges, status of the sync
vars == <<labels, edges, syncs>>

Init ==
    /\ labels = [u \in {} |-> ""]
    /\ edges = {}
    /\ syncs = <<>>

-----------------------------------------------------------------------------
UidsOf(nodes) == {nodes[i].uid : i \in DOMAIN nodes}

UidsUnique(nodes) == Cardinality(UidsOf(nodes)) = Len(nodes)

Anchored(edge, nodes) == {edge.source, edge.target} \subseteq UidsOf(nodes)

\* What both validations ask of the nodes, and of an edge but for its confidence.
WellFormed(nodes, es) ==
    /\ UidsUnique(nodes)
    /\ \A i \in DOMAIN es :
          /\ Anchored(es[i], nodes)
          /\ es[i].source # es[i].target
          /\ es[i].relation \in ALLOWED_RELATIONS
          /\ es[i].evidence # ""

\* GraphPayload and validate_payload: anything else is answered 422.
SchemaAccepts(nodes, es) ==
    /\ WellFormed(nodes, es)
    /\ \A i \in DOMAIN es : es[i].confidence >= 0 /\ es[i].confidence <= 100

\* _validate_graph: anything else makes the sync fail.
ProviderAccepts(nodes, es) ==
    /\ WellFormed(nodes, es)
    /\ \A i \in DOMAIN es : ~ (es[i].confidence < 0 \/ es[i].confidence > 100)

\* Slip: an edge is found again by its evidence too.
EdgeKeyWithEvidence(edge, paper) ==
    edge.source \o <<"|", edge.relation, "|">> \o edge.target \o <<"|", paper, edge.evidence>>

\* Slip: the key leaves the paper out.
EdgeKeyOfAnyPaper(edge, paper) ==
    edge.source \o <<"|", edge.relation, "|">> \o edge.target

EdgeKey(edge, paper) ==
    edge.source \o <<"|", edge.relation, "|">> \o edge.target \o <<"|", paper>>

-----------------------------------------------------------------------------
Submit(p, nodes, es) ==
    /\ Len(syncs) < MaxSyncs
    /\ SchemaAccepts(nodes, es)
    /\ syncs' = Append(syncs, [paper |-> p, nodes |-> nodes, edges |-> es,
                               status |-> "pending"])
    /\ UNCHANGED <<labels, edges>>

\* UNWIND and MERGE: the last node of a uid gives the label.
LastLabel(nodes, u) ==
    nodes[CHOOSE i \in DOMAIN nodes :
             nodes[i].uid = u /\ \A k \in DOMAIN nodes : nodes[k].uid = u => k <= i].label

MergeNodes(nodes) ==
    [u \in DOMAIN labels \cup UidsOf(nodes) |->
        IF u \in UidsOf(nodes) THEN LastLabel(nodes, u) ELSE labels[u]]

\* An edge is identified by its ends and its key.
SameEdge(r, e) == r.source = e.source /\ r.target = e.target /\ r.key = e.key

Relationship(edge, p) ==
    [source |-> edge.source, target |-> edge.target, key |-> EdgeKey(edge, p),
     relation |-> edge.relation, evidence |-> edge.evidence,
     confidence |-> edge.confidence, paper |-> p]

\* Edges whose ends MATCH are merged, the last of an identity staying; others
\* are passed over.
MergeEdges(es, p, present) ==
    LET e(k) == Relationship(es[k], p)
        matched == {k \in DOMAIN es : {es[k].source, es[k].target} \subseteq present}
        last == {k \in matched : \A m \in matched : SameEdge(e(m), e(k)) => m <= k}
    IN  {r \in edges : \A k \in matched : ~SameEdge(r, e(k))} \cup {e(k) : k \in last}

\* Slip: the edges are merged before the nodes.
EdgesFirst(s) == MergeEdges(s.edges, s.paper, DOMAIN labels)

EdgesWith(s) == MergeEdges(s.edges, s.paper, DOMAIN MergeNodes(s.nodes))

\* The constraint relates_to_edge_key, where Neo4j has it.
KeysUnique(es) ==
    \A d, e \in es : d.key = e.key => d = e

Pending(i) == syncs[i].status \in {"pending", "failed"}

SetStatus(i, status) == syncs' = [syncs EXCEPT ![i].status = status]

\* Nothing to write.
Skip(i) ==
    /\ Pending(i)
    /\ syncs[i].nodes = <<>> /\ syncs[i].edges = <<>>
    /\ SetStatus(i, "skipped")
    /\ UNCHANGED <<labels, edges>>

Upsert(i) ==
    LET s == syncs[i] IN
    /\ s.nodes # <<>> \/ s.edges # <<>>
    /\ ProviderAccepts(s.nodes, s.edges)
    /\ EdgeKeyUnique => KeysUnique(EdgesWith(s))
    /\ labels' = MergeNodes(s.nodes)
    /\ edges' = EdgesWith(s)

\* A redelivered task, or another job of the paper, tries a graph again.
Write(i) ==
    /\ Pending(i)
    /\ Upsert(i)
    /\ SetStatus(i, "completed")

\* The answer of Neo4j to a transaction that it committed is lost.
WriteUnanswered(i) ==
    /\ syncs[i].status = "pending"
    /\ Upsert(i)
    /\ SetStatus(i, "failed")

\* Neo4j is not there, or rolls back, or the provider refuses the graph.
WriteFails(i) ==
    /\ syncs[i].status = "pending"
    /\ syncs[i].nodes # <<>> \/ syncs[i].edges # <<>>
    /\ SetStatus(i, "failed")
    /\ UNCHANGED <<labels, edges>>

\* Everything is synchronised that ever will be.
Quiescent ==
    /\ Len(syncs) = MaxSyncs
    /\ \A i \in DOMAIN syncs : syncs[i].status # "pending"
    /\ UNCHANGED vars

Next ==
    \/ \E p \in Papers, nodes \in NodeLists, es \in EdgeLists : Submit(p, nodes, es)
    \/ \E i \in DOMAIN syncs : Skip(i) \/ Write(i) \/ WriteUnanswered(i) \/ WriteFails(i)
    \/ Quiescent

Spec == Init /\ [][Next]_vars

-----------------------------------------------------------------------------
\* A statement of a paper about two nodes is one edge, however often _upsert_graph
\* writes it: retried, redelivered, said twice in a graph, or said again with other
\* evidence by a later graph of the paper.
EdgesOnce ==
    \A d, e \in edges :
        <<d.source, d.relation, d.target, d.paper>> = <<e.source, e.relation, e.target, e.paper>>
            => d = e

\* A completed sync has left every node and every edge of its graph in Neo4j: no
\* edge was passed over for want of an end, and none has gone by a later write
\* of this paper or another.
CompletedIsThere ==
    \A i \in DOMAIN syncs :
        syncs[i].status = "completed" =>
            /\ UidsOf(syncs[i].nodes) \subseteq DOMAIN labels
            /\ \A k \in DOMAIN syncs[i].edges :
                  LET e == syncs[i].edges[k] IN
                  \E r \in edges :
                     /\ r.paper = syncs[i].paper
                     /\ <<r.source, r.relation, r.target>> = <<e.source, e.relation, e.target>>

\* Writing the graph of a paper leaves the edges of all others as they are,
\* even between the same nodes and with the same relation.
OthersUntouched ==
    [][\A e \in edges :
          e \notin edges' =>
             \E i \in DOMAIN syncs :
                syncs[i] # syncs'[i] /\ syncs[i].paper = e.paper]_vars
=============================================================================
