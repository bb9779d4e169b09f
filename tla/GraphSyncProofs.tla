--------------------------- MODULE GraphSyncProofs ---------------------------
(***************************************************************************)
(* The properties of GraphSync, for any papers, graphs and number of       *)
(* syncs.  The argument rests on the edge key: among the edges between the *)
(* same two nodes, it tells which relation and which paper an edge has, so *)
(* an edge that is written over was one of the same paper, and the one in  *)
(* its place has the same ends and relation.  Uids may be any texts, also  *)
(* ones in which the separator of the key occurs.                          *)
(***************************************************************************)
EXTENDS GraphSync, WellFoundedInduction, TLAPS

-----------------------------------------------------------------------------
(* The operators.                                                          *)

\* A set of indices that is not empty has a greatest one.
LEMMA GreatestIndex ==
    ASSUME NEW n \in Nat, NEW S \in SUBSET (1 .. n), S # {}
    PROVE  \E k \in S : \A m \in S : m <= k
<1> DEFINE T == {n - k : k \in S}
<1>1. T \subseteq Nat /\ T # {}
  <2>1. PICK k \in S : TRUE
    OBVIOUS
  <2>2. n - k \in T
    OBVIOUS
  <2>3. \A i \in S : n - i \in Nat
    OBVIOUS
  <2> QED
    BY <2>2, <2>3
<1>2. PICK x \in T : \A y \in T : ~ (<<y, x>> \in OpToRel(<, Nat))
  <2> HIDE DEF T
  <2> QED
    BY <1>1, NatLessThanWellFounded, WFMin
<1>3. PICK k \in S : x = n - k
  BY <1>2
<1>4. ASSUME NEW m \in S
      PROVE  m <= k
  <2>1. n - m \in T /\ n - m \in Nat /\ x \in Nat
    BY <1>1, <1>2
  <2>2. ~ (n - m < x)
    BY <1>2, <2>1 DEF OpToRel
  <2> QED
    BY <1>3, <2>2
<1> QED
  BY <1>4

\* What is joined to a key.
Pieces == Parts \cup Relations \cup Papers \cup {"|"}

\* Between the same two nodes, edges with the same key have the same relation
\* and the same paper.
LEMMA EdgeKeyTellsApart ==
    ASSUME NEW d, d.source \in Uids, d.target \in Uids, d.relation \in Relations,
           NEW e, e.source \in Uids, e.target \in Uids, e.relation \in Relations,
           NEW p \in Papers, NEW q \in Papers,
           d.source = e.source, d.target = e.target,
           EdgeKey(d, p) = EdgeKey(e, q)
    PROVE  d.relation = e.relation /\ p = q
<1> DEFINE s == d.source
           t == d.target
           key(r, x) == s \o <<"|", r, "|">> \o t \o <<"|", x>>
<1>1. s \in Seq(Pieces) /\ t \in Seq(Pieces)
  BY GraphAssumption DEF Pieces
<1>2. ASSUME NEW r \in Relations, NEW x \in Papers
      PROVE  /\ key(r, x)[Len(s) + 2] = r
             /\ key(r, x)[Len(s) + Len(t) + 5] = x
  <2> DEFINE a == s \o <<"|", r, "|">>
             b == a \o t
  <2>1. /\ <<"|", r, "|">> \in Seq(Pieces) /\ Len(<<"|", r, "|">>) = 3
        /\ <<"|", r, "|">>[2] = r
        /\ <<"|", x>> \in Seq(Pieces) /\ Len(<<"|", x>>) = 2
        /\ <<"|", x>>[2] = x
    BY DEF Pieces
  <2>2. a \in Seq(Pieces) /\ Len(a) = Len(s) + 3 /\ a[Len(s) + 2] = r
    <3> HIDE DEF s
    <3> QED
      BY <1>1, <2>1
  <2> HIDE DEF a
  <2>3. b \in Seq(Pieces) /\ Len(b) = Len(s) + 3 + Len(t) /\ b[Len(s) + 2] = r
    <3> HIDE DEF s, t
    <3> QED
      BY <1>1, <2>2
  <2> HIDE DEF b
  <2>4. /\ (b \o <<"|", x>>)[Len(s) + 2] = r
        /\ (b \o <<"|", x>>)[Len(s) + Len(t) + 5] = x
    <3> HIDE DEF s, t
    <3> QED
      BY <1>1, <2>1, <2>3
  <2> QED
    BY <2>4 DEF a, b
<1>3. EdgeKey(d, p) = key(d.relation, p) /\ EdgeKey(e, q) = key(e.relation, q)
  BY DEF EdgeKey
<1> HIDE DEF key, s, t
<1>4. key(d.relation, p) = key(e.relation, q)
  BY <1>3
<1> QED
  BY <1>2, <1>4

\* Every edge of es whose ends are present is in the merged edges, as the last of
\* its identity; and a merged edge is one from before or one of es.
LEMMA EdgesMerged ==
    ASSUME NEW es \in Seq(Edge), NEW p \in Papers, NEW present
    PROVE  /\ \A k \in DOMAIN es :
                 {es[k].source, es[k].target} \subseteq present =>
                    \E m \in DOMAIN es :
                       /\ Relationship(es[m], p) \in MergeEdges(es, p, present)
                       /\ SameEdge(Relationship(es[m], p), Relationship(es[k], p))
           /\ \A r \in MergeEdges(es, p, present) :
                 r \in edges \/ \E m \in DOMAIN es : r = Relationship(es[m], p)
           /\ \A r \in edges :
                 r \notin MergeEdges(es, p, present) =>
                    \E k \in DOMAIN es :
                       /\ {es[k].source, es[k].target} \subseteq present
                       /\ SameEdge(r, Relationship(es[k], p))
<1> DEFINE e(k) == Relationship(es[k], p)
           matched == {k \in DOMAIN es : {es[k].source, es[k].target} \subseteq present}
           last == {k \in matched : \A m \in matched : SameEdge(e(m), e(k)) => m <= k}
           kept == {r \in edges : \A k \in matched : ~SameEdge(r, e(k))}
<1>1. MergeEdges(es, p, present) = kept \cup {e(k) : k \in last}
  BY DEF MergeEdges
<1>2. ASSUME NEW k \in DOMAIN es, {es[k].source, es[k].target} \subseteq present
      PROVE  \E m \in last : SameEdge(e(m), e(k))
  <2> DEFINE S == {m \in matched : SameEdge(e(m), e(k))}
  <2>1. k \in matched
    BY <1>2
  <2>2. k \in S
    BY <2>1 DEF SameEdge
  <2>3. S \in SUBSET (1 .. Len(es)) /\ Len(es) \in Nat
    OBVIOUS
  <2>4. PICK m \in S : \A i \in S : i <= m
    <3> HIDE DEF S
    <3> QED
      BY <2>2, <2>3, GreatestIndex
  <2>5. \A i \in matched : SameEdge(e(i), e(m)) => SameEdge(e(i), e(k))
    BY <2>4 DEF SameEdge
  <2>6. m \in last
    BY <2>4, <2>5
  <2> QED
    BY <2>4, <2>6
<1>3. last \subseteq DOMAIN es /\ matched \subseteq DOMAIN es
  OBVIOUS
<1>4. \A k \in matched : {es[k].source, es[k].target} \subseteq present
  OBVIOUS
<1>5. \A r \in edges : r \notin kept => \E k \in matched : SameEdge(r, e(k))
  OBVIOUS
<1> HIDE DEF last, matched
<1>6. \A k \in last : e(k) \in MergeEdges(es, p, present)
  BY <1>1
<1>7. \A r \in MergeEdges(es, p, present) : r \in edges \/ \E k \in last : r = e(k)
  BY <1>1
<1>8. \A r \in edges : r \notin MergeEdges(es, p, present) => r \notin kept
  BY <1>1
<1> HIDE DEF kept
<1>9. ASSUME NEW k \in DOMAIN es, {es[k].source, es[k].target} \subseteq present
      PROVE  \E m \in DOMAIN es : e(m) \in MergeEdges(es, p, present) /\ SameEdge(e(m), e(k))
  BY <1>2, <1>3, <1>6, <1>9
<1> QED
  BY <1>3, <1>4, <1>5, <1>7, <1>8, <1>9

\* No two edges of one identity come of merging, if there were none before.
LEMMA MergedOnce ==
    ASSUME NEW es \in Seq(Edge), NEW p \in Papers, NEW present,
           \A d, e \in edges : SameEdge(d, e) => d = e,
           NEW r \in MergeEdges(es, p, present), NEW s \in MergeEdges(es, p, present),
           SameEdge(r, s)
    PROVE  r = s
<1> DEFINE e(k) == Relationship(es[k], p)
           matched == {k \in DOMAIN es : {es[k].source, es[k].target} \subseteq present}
           last == {k \in matched : \A m \in matched : SameEdge(e(m), e(k)) => m <= k}
           kept == {d \in edges : \A k \in matched : ~SameEdge(d, e(k))}
<1>1. /\ r \in kept \/ \E k \in last : r = e(k)
      /\ s \in kept \/ \E k \in last : s = e(k)
  BY DEF MergeEdges
<1>2. SameEdge(s, r)
  BY DEF SameEdge
<1>3. ASSUME NEW k \in last, NEW m \in last, SameEdge(e(k), e(m))
      PROVE  k = m
  <2>1. SameEdge(e(m), e(k))
    BY <1>3 DEF SameEdge
  <2>2. k <= m /\ m <= k /\ k \in Nat /\ m \in Nat
    BY <1>3, <2>1
  <2> QED
    BY <2>2
<1>4. \A d \in kept : d \in edges /\ \A k \in last : ~SameEdge(d, e(k))
  OBVIOUS
<1> HIDE DEF e, last, kept
<1> QED
  BY <1>1, <1>2, <1>3, <1>4

-----------------------------------------------------------------------------
(* The inductive invariant.                                                *)

Sync == [paper : Papers, nodes : Seq(Node), edges : Seq(Edge),
         status : {"pending", "completed", "failed", "skipped"}]

\* A graph in the table is one that both validations accept.
Accepted ==
    /\ syncs \in Seq(Sync)
    /\ \A i \in DOMAIN syncs : ProviderAccepts(syncs[i].nodes, syncs[i].edges)

\* An edge in Neo4j has the key of its ends, its relation and its paper.
Keyed(r) ==
    /\ r.source \in Uids /\ r.target \in Uids
    /\ r.relation \in Relations /\ r.paper \in Papers
    /\ r.key = EdgeKey(r, r.paper)

GInv ==
    /\ Accepted
    /\ \A r \in edges : Keyed(r)
    /\ EdgesOnce
    /\ CompletedIsThere

LEMMA RelationshipKeyed ==
    ASSUME NEW e \in Edge, NEW p \in Papers
    PROVE  /\ Keyed(Relationship(e, p))
           /\ Relationship(e, p).source = e.source
           /\ Relationship(e, p).target = e.target
           /\ Relationship(e, p).relation = e.relation
           /\ Relationship(e, p).paper = p
  BY DEF Keyed, Relationship, EdgeKey, Edge

\* Edges of the same identity have the same paper and the same relation.
LEMMA SameEdgeSamePaper ==
    ASSUME NEW d, NEW e, Keyed(d), Keyed(e), SameEdge(d, e)
    PROVE  d.paper = e.paper /\ d.relation = e.relation
<1>1. /\ EdgeKey(d, d.paper) = EdgeKey(e, e.paper)
      /\ d.source = e.source /\ d.target = e.target
  BY DEF Keyed, SameEdge
<1>2. /\ d.source \in Uids /\ d.target \in Uids /\ d.relation \in Relations
      /\ e.source \in Uids /\ e.target \in Uids /\ e.relation \in Relations
      /\ d.paper \in Papers /\ e.paper \in Papers
  BY DEF Keyed
<1> QED
  BY <1>1, <1>2, EdgeKeyTellsApart

\* Of keyed edges, those of one identity are those that say the same.
LEMMA IdentityIsStatement ==
    ASSUME NEW d, NEW e, Keyed(d), Keyed(e)
    PROVE  SameEdge(d, e) <=> /\ d.source = e.source /\ d.target = e.target
                              /\ d.relation = e.relation /\ d.paper = e.paper
<1>1. SameEdge(d, e) => d.paper = e.paper /\ d.relation = e.relation
  BY SameEdgeSamePaper
<1>2. ASSUME d.source = e.source, d.target = e.target,
             d.relation = e.relation, d.paper = e.paper
      PROVE  SameEdge(d, e)
  BY <1>2 DEF SameEdge, Keyed, EdgeKey
<1> QED
  BY <1>1, <1>2 DEF SameEdge

\* A graph that GraphPayload accepted is never refused by _validate_graph.
LEMMA SchemaImpliesProvider ==
    ASSUME NEW nodes, NEW es \in Seq(Edge), SchemaAccepts(nodes, es)
    PROVE  ProviderAccepts(nodes, es)
<1>1. \A i \in DOMAIN es : es[i].confidence \in Int
  <2> TAKE i \in DOMAIN es
  <2>1. PICK e \in Edge : e = es[i]
    OBVIOUS
  <2> QED
    BY <2>1, GraphAssumption DEF Edge
<1> QED
  BY <1>1 DEF SchemaAccepts, ProviderAccepts

LEMMA InitGInv ==
    Init => GInv
  BY DEF Init, GInv, Accepted, EdgesOnce, CompletedIsThere

LEMMA SubmitGInv ==
    ASSUME GInv, NEW p \in Papers, NEW nodes \in NodeLists, NEW es \in EdgeLists,
           Submit(p, nodes, es)
    PROVE  GInv'
<1> DEFINE s == [paper |-> p, nodes |-> nodes, edges |-> es, status |-> "pending"]
<1>1. s \in Sync
  BY GraphAssumption DEF Sync
<1>2. syncs' = Append(syncs, s) /\ syncs \in Seq(Sync) /\ UNCHANGED <<labels, edges>>
  BY DEF Submit, GInv, Accepted
<1>3. ProviderAccepts(s.nodes, s.edges)
  BY GraphAssumption, SchemaImpliesProvider DEF Submit
<1>4. s.status # "completed"
  OBVIOUS
<1> HIDE DEF s
<1>5. /\ syncs' \in Seq(Sync)
      /\ \A i \in DOMAIN syncs' : \/ syncs'[i] = s
                                  \/ i \in DOMAIN syncs /\ syncs'[i] = syncs[i]
  BY <1>1, <1>2
<1>6. Accepted'
  BY <1>3, <1>5 DEF GInv, Accepted
<1>7. CompletedIsThere'
  BY <1>2, <1>4, <1>5 DEF GInv, CompletedIsThere
<1>8. \A r \in edges' : Keyed(r)
  BY <1>2 DEF GInv
<1>9. EdgesOnce'
  BY <1>2 DEF GInv, EdgesOnce
<1> QED
  BY <1>6, <1>7, <1>8, <1>9 DEF GInv, Keyed

\* SetStatus changes the status of one sync and nothing else of the table.
LEMMA StatusSet ==
    ASSUME Accepted, NEW i \in DOMAIN syncs,
           NEW status \in {"completed", "failed", "skipped"}, SetStatus(i, status)
    PROVE  /\ syncs' \in Seq(Sync) /\ DOMAIN syncs' = DOMAIN syncs
           /\ syncs'[i].status = status
           /\ \A j \in DOMAIN syncs :
                 /\ syncs'[j].paper = syncs[j].paper
                 /\ syncs'[j].nodes = syncs[j].nodes
                 /\ syncs'[j].edges = syncs[j].edges
                 /\ j # i => syncs'[j] = syncs[j]
<1>1. syncs \in Seq(Sync)
  BY DEF Accepted
<1>2. PICK t \in Sync : t = syncs[i]
  BY <1>1
<1>3. PICK n \in Sync : n = [t EXCEPT !.status = status]
  BY DEF Sync
<1>4. syncs' = [syncs EXCEPT ![i] = n]
  BY <1>2, <1>3 DEF SetStatus
<1>5. n.paper = t.paper /\ n.nodes = t.nodes /\ n.edges = t.edges /\ n.status = status
  BY <1>3 DEF Sync
<1> QED
  BY <1>1, <1>2, <1>4, <1>5

\* A step that sets the status of a sync and writes nothing.
LEMMA StatusGInv ==
    ASSUME GInv, NEW i \in DOMAIN syncs, NEW status \in {"failed", "skipped"},
           SetStatus(i, status), UNCHANGED <<labels, edges>>
    PROVE  GInv'
<1>1. /\ syncs' \in Seq(Sync) /\ DOMAIN syncs' = DOMAIN syncs
      /\ \A j \in DOMAIN syncs : \/ syncs'[j] = syncs[j]
                                 \/ /\ syncs'[j].nodes = syncs[j].nodes
                                    /\ syncs'[j].edges = syncs[j].edges
                                    /\ syncs'[j].status # "completed"
  BY StatusSet DEF GInv
<1>2. Accepted'
  BY <1>1 DEF GInv, Accepted
<1>3. CompletedIsThere'
  BY <1>1 DEF GInv, CompletedIsThere
<1> QED
  BY <1>2, <1>3 DEF GInv, EdgesOnce, Keyed

\* What a completed sync has in Neo4j.
Written(s, ls, rs) ==
    /\ UidsOf(s.nodes) \subseteq DOMAIN ls
    /\ \A k \in DOMAIN s.edges :
          \E r \in rs : /\ r.paper = s.paper
                        /\ r.source = s.edges[k].source
                        /\ r.relation = s.edges[k].relation
                        /\ r.target = s.edges[k].target

LEMMA CompletedWritten ==
    CompletedIsThere <=>
        \A i \in DOMAIN syncs :
            syncs[i].status = "completed" => Written(syncs[i], labels, edges)
  BY DEF CompletedIsThere, Written

\* A write keeps the edges keyed, leaves its own graph in Neo4j, and takes none
\* of what was there away.
LEMMA UpsertWrites ==
    ASSUME GInv, NEW i \in DOMAIN syncs, Upsert(i)
    PROVE  /\ \A r \in edges' : Keyed(r)
           /\ EdgesOnce'
           /\ Written(syncs[i], labels', edges')
           /\ \A s \in Sync : Written(s, labels, edges) => Written(s, labels', edges')
           /\ \A r \in edges : r \notin edges' => r.paper = syncs[i].paper
<1> PICK t \in Sync : t = syncs[i]
  BY DEF GInv, Accepted
<1> DEFINE rel(k) == Relationship(t.edges[k], t.paper)
           present == DOMAIN MergeNodes(t.nodes)
<1>1. /\ edges' = MergeEdges(t.edges, t.paper, present)
      /\ labels' = MergeNodes(t.nodes)
      /\ DOMAIN labels' = DOMAIN labels \cup UidsOf(t.nodes)
  BY DEF Upsert, EdgesWith, MergeNodes
<1>2. /\ t.edges \in Seq(Edge) /\ t.paper \in Papers
      /\ \A k \in DOMAIN t.edges : t.edges[k] \in Edge
  BY DEF Sync
<1>3. \A k \in DOMAIN t.edges :
         /\ {t.edges[k].source, t.edges[k].target} \subseteq present
  BY DEF Upsert, ProviderAccepts, WellFormed, Anchored, MergeNodes
<1>4. \A k \in DOMAIN t.edges :
         /\ Keyed(rel(k))
         /\ rel(k).source = t.edges[k].source
         /\ rel(k).target = t.edges[k].target
         /\ rel(k).relation = t.edges[k].relation
         /\ rel(k).paper = t.paper
  BY <1>2, RelationshipKeyed
<1>5. /\ \A k \in DOMAIN t.edges :
            \E m \in DOMAIN t.edges : rel(m) \in edges' /\ SameEdge(rel(m), rel(k))
      /\ \A r \in edges' : r \in edges \/ \E m \in DOMAIN t.edges : r = rel(m)
      /\ \A r \in edges : r \notin edges' =>
            \E k \in DOMAIN t.edges : SameEdge(r, rel(k))
  <2> HIDE DEF present
  <2> QED
    BY <1>1, <1>2, <1>3, EdgesMerged, SMTT(30)
<1> HIDE DEF rel, present
<1>6. \A r \in edges' : Keyed(r)
  BY <1>4, <1>5 DEF GInv
<1>7. \A k \in DOMAIN t.edges :
         \E r \in edges' : /\ r.paper = t.paper
                           /\ r.source = t.edges[k].source
                           /\ r.relation = t.edges[k].relation
                           /\ r.target = t.edges[k].target
  <2> TAKE k \in DOMAIN t.edges
  <2>1. PICK m \in DOMAIN t.edges : rel(m) \in edges' /\ SameEdge(rel(m), rel(k))
    BY <1>5
  <2>2. rel(m).paper = t.paper /\ rel(m).relation = t.edges[k].relation
    BY <1>4, <2>1, SameEdgeSamePaper
  <2> QED
    BY <1>4, <2>1, <2>2 DEF SameEdge
<1>8. \A r \in edges : r \notin edges' =>
         /\ r.paper = t.paper
         /\ \E d \in edges' : /\ d.paper = r.paper
                              /\ d.source = r.source
                              /\ d.relation = r.relation
                              /\ d.target = r.target
  <2> SUFFICES ASSUME NEW r \in edges, r \notin edges'
               PROVE  /\ r.paper = t.paper
                      /\ \E d \in edges' : /\ d.paper = r.paper
                                           /\ d.source = r.source
                                           /\ d.relation = r.relation
                                           /\ d.target = r.target
    OBVIOUS
  <2>1. PICK k \in DOMAIN t.edges : SameEdge(r, rel(k))
    BY <1>5
  <2>2. Keyed(r)
    BY DEF GInv
  <2>3. r.paper = t.paper /\ r.relation = t.edges[k].relation
    BY <1>4, <2>1, <2>2, SameEdgeSamePaper
  <2>4. r.source = t.edges[k].source /\ r.target = t.edges[k].target
    BY <1>4, <2>1 DEF SameEdge
  <2> QED
    BY <1>7, <2>3, <2>4
<1>9. ASSUME NEW s \in Sync, Written(s, labels, edges)
      PROVE  Written(s, labels', edges')
  <2> SUFFICES ASSUME NEW k \in DOMAIN s.edges
               PROVE  \E r \in edges' : /\ r.paper = s.paper
                                        /\ r.source = s.edges[k].source
                                        /\ r.relation = s.edges[k].relation
                                        /\ r.target = s.edges[k].target
    BY <1>1, <1>9 DEF Written
  <2>1. PICK r \in edges : /\ r.paper = s.paper
                           /\ r.source = s.edges[k].source
                           /\ r.relation = s.edges[k].relation
                           /\ r.target = s.edges[k].target
    BY <1>9 DEF Written
  <2> QED
    BY <1>8, <2>1
<1>10. Written(t, labels', edges')
  BY <1>1, <1>7 DEF Written
<1>11. \A d, e \in edges : SameEdge(d, e) => d = e
  BY IdentityIsStatement DEF GInv, EdgesOnce
<1>12. \A d, e \in edges' : SameEdge(d, e) => d = e
  BY <1>1, <1>2, <1>11, MergedOnce
<1>13. EdgesOnce'
  BY <1>6, <1>12, IdentityIsStatement DEF EdgesOnce
<1> QED
  BY <1>6, <1>8, <1>9, <1>10, <1>13

LEMMA WriteGInv ==
    ASSUME GInv, NEW i \in DOMAIN syncs, NEW status \in {"completed", "failed"},
           Upsert(i), SetStatus(i, status)
    PROVE  GInv'
<1>1. /\ syncs' \in Seq(Sync) /\ DOMAIN syncs' = DOMAIN syncs
      /\ \A j \in DOMAIN syncs : syncs[j] \in Sync
  BY StatusSet DEF GInv, Accepted
<1>2. \A j \in DOMAIN syncs :
         /\ syncs'[j].paper = syncs[j].paper
         /\ syncs'[j].nodes = syncs[j].nodes
         /\ syncs'[j].edges = syncs[j].edges
         /\ j # i => syncs'[j] = syncs[j]
  BY StatusSet DEF GInv
<1>3. Accepted'
  BY <1>1, <1>2 DEF GInv, Accepted
<1>4. ASSUME NEW j \in DOMAIN syncs, syncs'[j].status = "completed"
      PROVE  Written(syncs'[j], labels', edges')
  <2>1. Written(syncs[j], labels', edges')
    <3>1. CASE j = i
      BY <3>1, UpsertWrites
    <3>2. CASE j # i
      <4>1. Written(syncs[j], labels, edges)
        BY <1>2, <1>4, <3>2, CompletedWritten DEF GInv
      <4> QED
        BY <1>1, <4>1, UpsertWrites
    <3> QED
      BY <3>1, <3>2
  <2> QED
    BY <1>2, <2>1 DEF Written
<1>5. CompletedIsThere'
  BY <1>1, <1>4 DEF CompletedIsThere, Written
<1>6. (\A r \in edges' : Keyed(r)) /\ EdgesOnce'
  BY UpsertWrites
<1> QED
  BY <1>3, <1>5, <1>6 DEF GInv, Keyed

LEMMA NextGInv ==
    GInv /\ [Next]_vars => GInv'
<1> SUFFICES ASSUME GInv, [Next]_vars
             PROVE  GInv'
  OBVIOUS
<1>1. ASSUME NEW p \in Papers, NEW nodes \in NodeLists, NEW es \in EdgeLists,
             Submit(p, nodes, es)
      PROVE  GInv'
  BY <1>1, SubmitGInv
<1>2. ASSUME NEW i \in DOMAIN syncs, Skip(i)
      PROVE  GInv'
  BY <1>2, StatusGInv DEF Skip
<1>3. ASSUME NEW i \in DOMAIN syncs, Write(i) \/ WriteUnanswered(i)
      PROVE  GInv'
  BY <1>3, WriteGInv DEF Write, WriteUnanswered
<1>4. ASSUME NEW i \in DOMAIN syncs, WriteFails(i)
      PROVE  GInv'
  BY <1>4, StatusGInv DEF WriteFails
<1>5. CASE UNCHANGED vars
  BY <1>5 DEF vars, GInv, Accepted, Keyed, EdgesOnce, CompletedIsThere
<1> QED
  BY <1>1, <1>2, <1>3, <1>4, <1>5 DEF Next, Quiescent

\* In every state the invariant holds: both validations accept every graph in the
\* table, every edge in Neo4j has the key of its ends, relation and paper, edges
\* are there once, and completed graphs are there.
THEOREM GraphInvariant == Spec => []GInv
  BY InitGInv, NextGInv, PTL DEF Spec

\* However often _upsert_graph writes what graphs of a paper say, retried by
\* execute_write, redelivered or said again in other words, Neo4j has one edge for
\* each relation of two nodes in the paper, with or without the constraint on keys.
THEOREM EdgesAreThereOnce == Spec => []EdgesOnce
<1>1. GInv => EdgesOnce
  BY DEF GInv
<1> QED
  BY <1>1, GraphInvariant, PTL

\* The nodes and edges of a completed graph stay in Neo4j, whatever graphs of this
\* and other papers _upsert_graph writes after it.
THEOREM CompletedGraphsAreThere == Spec => []CompletedIsThere
<1>1. GInv => CompletedIsThere
  BY DEF GInv
<1> QED
  BY <1>1, GraphInvariant, PTL

\* No step of _upsert_graph replaces an edge of another paper than the one it
\* writes, whatever texts the uids are.
THEOREM OtherPapersAreUntouched == Spec => OthersUntouched
<1> DEFINE Kept ==
       \A e \in edges :
          e \notin edges' =>
             \E i \in DOMAIN syncs : syncs[i] # syncs'[i] /\ syncs[i].paper = e.paper
<1>1. GInv /\ [Next]_vars => [Kept]_vars
  <2> SUFFICES ASSUME GInv, Next
               PROVE  Kept
    OBVIOUS
  <2>1. CASE edges' = edges
    BY <2>1
  <2>2. ASSUME NEW i \in DOMAIN syncs, Write(i) \/ WriteUnanswered(i)
        PROVE  Kept
    <3>1. \/ syncs[i].status # "completed" /\ SetStatus(i, "completed")
          \/ syncs[i].status # "failed" /\ SetStatus(i, "failed")
      BY <2>2 DEF Write, WriteUnanswered, Pending
    <3>2. Upsert(i) /\ syncs'[i] # syncs[i]
      BY <2>2, <3>1, StatusSet DEF Write, WriteUnanswered, GInv
    <3>3. \A e \in edges : e \notin edges' => e.paper = syncs[i].paper
      BY <3>2, UpsertWrites
    <3> QED
      BY <3>2, <3>3
  <2> QED
    BY <2>1, <2>2 DEF Next, Submit, Skip, WriteFails, Quiescent, vars
<1> QED
  BY <1>1, GraphInvariant, PTL DEF Spec, OthersUntouched
==============================================================================
