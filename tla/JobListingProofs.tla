-------------------------- MODULE JobListingProofs --------------------------
(***************************************************************************)
(* The properties of JobListing, for any jobs, page size and number of     *)
(* changes of status.  The argument counts two sets while the client       *)
(* pages: the jobs it has seen that now stand at or behind the offset of   *)
(* its next page, and those of its start that it has not seen and that now *)
(* stand before that offset.  An arrival pushes at most one job back over  *)
(* the offset, a leaving lets at most one slip before it, and a page moves *)
(* the offset without changing either count in the wrong direction.        *)
(***************************************************************************)
EXTENDS JobListing, FiniteSetTheorems, TLAPS

-----------------------------------------------------------------------------
(* Positions in a list of rows, newest first.                              *)

Above(S, row, j) == {k \in S : row[k].created > row[j].created}
Position(S, row, j) == Cardinality(Above(S, row, j))

\* Finitely many rows with creation times, no two with the same.
Timed(S, row) ==
    /\ IsFiniteSet(S)
    /\ \A j \in S : row[j].created \in Nat
    /\ \A j, k \in S : row[j].created = row[k].created => j = k

LEMMA PositionIsNatural ==
    ASSUME NEW S, NEW row, Timed(S, row), NEW j
    PROVE  IsFiniteSet(Above(S, row, j)) /\ Position(S, row, j) \in Nat
<1>1. Above(S, row, j) \in SUBSET S /\ IsFiniteSet(S)
  BY DEF Above, Timed
<1> QED
  BY <1>1, FS_Subset, FS_CardinalityType DEF Position

LEMMA NewerComesFirst ==
    ASSUME NEW S, NEW row, Timed(S, row), NEW j \in S, NEW k \in S,
           row[j].created > row[k].created
    PROVE  Position(S, row, j) < Position(S, row, k)
<1> DEFINE A == Above(S, row, j)
           B == Above(S, row, k)
<1>1. A \in SUBSET B /\ j \in B /\ j \notin A
  BY DEF Above, Timed
<1>2. IsFiniteSet(B) /\ Position(S, row, j) \in Nat /\ Position(S, row, k) \in Nat
  BY PositionIsNatural
<1>3. Cardinality(A) <= Cardinality(B) /\ Cardinality(A) # Cardinality(B)
  <2> HIDE DEF A, B
  <2> QED
    BY <1>1, <1>2, FS_Subset
<1> QED
  BY <1>2, <1>3 DEF Position

LEMMA PositionTellsApart ==
    ASSUME NEW S, NEW row, Timed(S, row), NEW j \in S, NEW k \in S
    PROVE  /\ Position(S, row, j) = Position(S, row, k) => j = k
           /\ Position(S, row, j) < Position(S, row, k) =>
                 row[j].created > row[k].created
<1>1. row[j].created \in Nat /\ row[k].created \in Nat
  BY DEF Timed
<1>2. Position(S, row, j) \in Nat /\ Position(S, row, k) \in Nat
  BY PositionIsNatural
<1>3. CASE row[j].created > row[k].created
  BY <1>2, <1>3, NewerComesFirst
<1>4. CASE row[k].created > row[j].created
  BY <1>2, <1>4, NewerComesFirst
<1>5. CASE row[k].created = row[j].created
  BY <1>2, <1>5 DEF Timed
<1> QED
  BY <1>1, <1>3, <1>4, <1>5

\* One more row moves those below it by one and no other.
LEMMA PositionWithOneMore ==
    ASSUME NEW S, NEW x, x \notin S, NEW row, Timed(S \cup {x}, row), NEW j
    PROVE  /\ Timed(S, row)
           /\ Position(S \cup {x}, row, j) =
                 IF row[x].created > row[j].created THEN Position(S, row, j) + 1
                                                    ELSE Position(S, row, j)
<1> DEFINE A == Above(S, row, j)
<1>1. S \in SUBSET (S \cup {x}) /\ IsFiniteSet(S \cup {x})
  BY DEF Timed
<1>2. IsFiniteSet(S)
  BY <1>1, FS_Subset
<1>3. Timed(S, row)
  BY <1>2 DEF Timed
<1>4. IsFiniteSet(A) /\ x \notin A
  BY <1>3, PositionIsNatural DEF Above
<1>5. Above(S \cup {x}, row, j) = IF row[x].created > row[j].created THEN A \cup {x} ELSE A
  BY DEF Above
<1>6. Cardinality(A \cup {x}) = Cardinality(A) + 1
  <2> HIDE DEF A
  <2> QED
    BY <1>4, FS_AddElement
<1> QED
  BY <1>3, <1>5, <1>6 DEF Position

\* The jobs of C that stand at o or behind it, and those that stand before it.
From(S, row, C, o) == {j \in S \cap C : Position(S, row, j) >= o}
Before(S, row, C, o) == {j \in S \cap C : Position(S, row, j) < o}

LEMMA PartsAreFinite ==
    ASSUME NEW S, NEW row, Timed(S, row), NEW C, NEW o
    PROVE  /\ IsFiniteSet(From(S, row, C, o)) /\ Cardinality(From(S, row, C, o)) \in Nat
           /\ IsFiniteSet(Before(S, row, C, o)) /\ Cardinality(Before(S, row, C, o)) \in Nat
<1>1. From(S, row, C, o) \in SUBSET S /\ Before(S, row, C, o) \in SUBSET S
  BY DEF From, Before
<1>2. IsFiniteSet(S)
  BY DEF Timed
<1> QED
  BY <1>1, <1>2, FS_Subset, FS_CardinalityType

LEMMA AtMostOneMore ==
    ASSUME NEW A, NEW B, IsFiniteSet(A), NEW y, B \subseteq A \cup {y}
    PROVE  Cardinality(B) <= Cardinality(A) + 1
<1>1. B \in SUBSET (A \cup {y})
  OBVIOUS
<1>2. /\ IsFiniteSet(A \cup {y})
      /\ Cardinality(A \cup {y}) \in {Cardinality(A), Cardinality(A) + 1}
      /\ Cardinality(A) \in Nat
  BY FS_AddElement, FS_CardinalityType
<1>3. Cardinality(B) <= Cardinality(A \cup {y}) /\ Cardinality(B) \in Nat
  BY <1>1, <1>2, FS_Subset, FS_CardinalityType
<1> QED
  BY <1>2, <1>3

\* An arrival puts at most one job of C, itself or the last before o, at o or
\* behind it, and none before o but itself.
LEMMA ArrivalMovesOneBack ==
    ASSUME NEW S, NEW x, x \notin S, NEW row, Timed(S \cup {x}, row), NEW C, NEW o \in Nat
    PROVE  /\ Cardinality(From(S \cup {x}, row, C, o)) <= Cardinality(From(S, row, C, o)) + 1
           /\ x \notin C => Before(S \cup {x}, row, C, o) \subseteq Before(S, row, C, o)
<1> DEFINE T == S \cup {x}
           A == From(S, row, C, o)
           B == From(T, row, C, o)
<1>1. Timed(S, row) /\ Timed(T, row)
  BY PositionWithOneMore
<1>2. \A j : Position(S, row, j) \in Nat /\ Position(T, row, j) \in Nat
  <2> HIDE DEF T
  <2> QED
    BY <1>1, PositionIsNatural
<1>3. \A j : \/ Position(T, row, j) = Position(S, row, j)
             \/ /\ Position(T, row, j) = Position(S, row, j) + 1
                /\ row[x].created > row[j].created
  BY PositionWithOneMore
<1>4. x \in T /\ S \subseteq T
  OBVIOUS
<1>5. \A j \in B : j \in T /\ (j = x \/ j \in S)
  BY DEF From
<1>6. ASSUME NEW j \in B, j \notin A, j # x
      PROVE  Position(T, row, j) = o /\ row[x].created > row[j].created
  BY <1>2, <1>3, <1>6 DEF From
<1> HIDE DEF T
<1>7. ASSUME NEW y \in B \ A, NEW z \in B \ A
      PROVE  y = z
  <2>1. ASSUME NEW j \in B \ A, j # x
        PROVE  Position(T, row, x) < o
    BY <1>1, <1>4, <1>5, <1>6, <2>1, NewerComesFirst
  <2>2. x \in B => Position(T, row, x) >= o
    BY DEF From
  <2>3. CASE y = x \/ z = x
    BY <1>2, <2>1, <2>2, <2>3
  <2>4. CASE y # x /\ z # x
    <3>1. Position(T, row, y) = Position(T, row, z) /\ y \in T /\ z \in T
      BY <1>5, <1>6, <2>4
    <3> QED
      BY <1>1, <3>1, PositionTellsApart
  <2> QED
    BY <2>3, <2>4
<1>8. IsFiniteSet(A)
  BY <1>1, PartsAreFinite
<1>9. \E y : B \subseteq A \cup {y}
  <2> HIDE DEF A, B
  <2>1. CASE B \subseteq A
    BY <2>1
  <2>2. CASE \E y \in B : y \notin A
    BY <1>7, <2>2
  <2> QED
    BY <2>1, <2>2
<1>10. Cardinality(B) <= Cardinality(A) + 1
  <2> HIDE DEF A, B
  <2> QED
    BY <1>8, <1>9, AtMostOneMore
<1>11. x \notin C => Before(T, row, C, o) \subseteq Before(S, row, C, o)
  BY <1>2, <1>3 DEF Before, T
<1> QED
  BY <1>10, <1>11 DEF T

\* A leaving lets at most one job of C slip before o, and none behind it.
LEMMA LeavingMovesOneAhead ==
    ASSUME NEW S, NEW x, x \notin S, NEW row, Timed(S \cup {x}, row), NEW C, NEW o \in Nat
    PROVE  /\ From(S, row, C, o) \subseteq From(S \cup {x}, row, C, o)
           /\ Cardinality(Before(S, row, C, o)) <= Cardinality(Before(S \cup {x}, row, C, o)) + 1
<1> DEFINE T == S \cup {x}
           A == Before(T, row, C, o)
           B == Before(S, row, C, o)
<1>1. Timed(S, row) /\ Timed(T, row)
  BY PositionWithOneMore
<1>2. \A j : Position(S, row, j) \in Nat /\ Position(T, row, j) \in Nat
  <2> HIDE DEF T
  <2> QED
    BY <1>1, PositionIsNatural
<1>3. \A j : \/ Position(T, row, j) = Position(S, row, j)
             \/ Position(T, row, j) = Position(S, row, j) + 1
  BY PositionWithOneMore
<1>4. From(S, row, C, o) \subseteq From(T, row, C, o)
  BY <1>2, <1>3 DEF From
<1>5. \A j \in B \ A : j \in S /\ Position(S, row, j) = o - 1
  BY <1>2, <1>3 DEF Before
<1>6. ASSUME NEW y \in B \ A, NEW z \in B \ A
      PROVE  y = z
  BY <1>1, <1>5, PositionTellsApart
<1>7. IsFiniteSet(A)
  <2> HIDE DEF T
  <2> QED
    BY <1>1, PartsAreFinite
<1>8. \E y : B \subseteq A \cup {y}
  <2> HIDE DEF A, B
  <2>1. CASE B \subseteq A
    BY <2>1
  <2>2. CASE \E y \in B : y \notin A
    BY <1>6, <2>2
  <2> QED
    BY <2>1, <2>2
<1>9. Cardinality(B) <= Cardinality(A) + 1
  <2> HIDE DEF A, B
  <2> QED
    BY <1>7, <1>8, AtMostOneMore
<1> QED
  BY <1>4, <1>9
\* Positions count from 0 without repeating.
LEMMA FewStandBefore ==
    ASSUME NEW S, NEW row, Timed(S, row), NEW o \in Nat
    PROVE  Cardinality(Before(S, row, S, o)) <= o
<1> DEFINE A == Before(S, row, S, o)
           f == [k \in A |-> Position(S, row, k)]
<1>1. \A k \in A : k \in S /\ Position(S, row, k) \in 0 .. (o - 1)
  BY PositionIsNatural DEF Before
<1>2. \A j, k \in A : f[j] = f[k] => j = k
  BY <1>1, PositionTellsApart
<1>3. f \in Injection(A, 0 .. (o - 1))
  BY <1>1, <1>2 DEF Injection, IsInjective
<1>4. IsFiniteSet(0 .. (o - 1)) /\ Cardinality(0 .. (o - 1)) = o
  BY FS_Interval
<1> QED
  <2> HIDE DEF A, f
  <2>1. Cardinality(A) <= Cardinality(0 .. (o - 1))
    BY <1>3, <1>4, FS_Injection
  <2> QED
    BY <2>1, <1>4 DEF A

\* A page that is not full is the last: no row stands behind it.
LEMMA ShortPageIsLast ==
    ASSUME NEW S, NEW row, Timed(S, row), NEW o \in Nat, NEW n \in Nat,
           NEW items, items = {j \in S : Position(S, row, j) >= o /\ Position(S, row, j) < o + n},
           Cardinality(items) < n
    PROVE  \A j \in S : Position(S, row, j) < o + n
<1> DEFINE rest == {j \in S : Position(S, row, j) >= o + n}
           ranks == {Position(S, row, j) : j \in rest}
<1> SUFFICES ASSUME rest # {}
             PROVE  FALSE
  BY PositionIsNatural
<1>1. ranks \subseteq Nat /\ ranks # {}
  BY PositionIsNatural
<1>2. PICK r \in ranks : \A q \in ranks : ~ (<<q, r>> \in OpToRel(<, Nat))
  <2> HIDE DEF ranks
  <2> QED
    BY <1>1, NatLessThanWellFounded, WFMin
<1>3. PICK j \in rest : r = Position(S, row, j)
  BY <1>2
<1>4. ASSUME NEW k \in rest
      PROVE  ~ (Position(S, row, k) < Position(S, row, j))
  <2>1. Position(S, row, k) \in ranks /\ Position(S, row, k) \in Nat /\ r \in Nat
    BY <1>1, <1>2, PositionIsNatural
  <2> QED
    BY <1>2, <1>3, <2>1 DEF OpToRel
<1> DEFINE A == Above(S, row, j)
           B == Before(S, row, S, o)
<1>5. \A k \in A : k \in S /\ Position(S, row, k) < Position(S, row, j)
  BY <1>3, NewerComesFirst DEF Above
<1>6. A \in SUBSET (B \cup items)
  <2>1. \A k \in A : k \notin rest /\ Position(S, row, k) \in Nat
    BY <1>4, <1>5, PositionIsNatural
  <2>2. \A k \in A : k \in B \/ k \in items
    BY <1>5, <2>1 DEF Before
  <2> QED
    BY <2>2
<1>7. IsFiniteSet(B) /\ Cardinality(B) \in Nat /\ Cardinality(B) <= o
  BY FewStandBefore, PartsAreFinite
<1>8. IsFiniteSet(items) /\ Cardinality(items) \in Nat
  <2>1. items \in SUBSET S /\ IsFiniteSet(S)
    BY DEF Timed
  <2> QED
    BY <2>1, FS_Subset, FS_CardinalityType
<1>9. Cardinality(B \cup items) <= Cardinality(B) + Cardinality(items)
  <2> HIDE DEF B
  <2>1. IsFiniteSet(B \cap items) /\ Cardinality(B \cap items) \in Nat
    BY <1>7, FS_Intersection, FS_CardinalityType
  <2>2. Cardinality(B \cup items)
          = Cardinality(B) + Cardinality(items) - Cardinality(B \cap items)
    BY <1>7, <1>8, FS_Union
  <2> QED
    BY <1>7, <1>8, <2>1, <2>2
<1>10. /\ Cardinality(A) <= Cardinality(B \cup items)
       /\ Cardinality(B \cup items) \in Nat /\ Cardinality(A) \in Nat
  <2> HIDE DEF A, B
  <2>1. IsFiniteSet(B \cup items)
    BY <1>7, <1>8, FS_Union
  <2> QED
    BY <1>6, <2>1, FS_Subset, FS_CardinalityType
<1>11. Cardinality(A) >= o + n
  BY <1>3 DEF Position
<1> HIDE DEF A, B
<1> QED
  BY <1>7, <1>8, <1>9, <1>10, <1>11

-----------------------------------------------------------------------------
(* The inductive invariant.                                                *)

Rows == [state : {"none", "flushed", "committed", "dropped"}, created : Nat,
         owner : Owners \cup {None}, scope : Scopes, status : Statuses]

Clients ==
    [state : {"idle", "paging", "done"}, admin : BOOLEAN, owner : Owners \cup {None},
     ownerFilter : Owners \cup {None}, statusFilter : Statuses \cup {None},
     page : Nat \ {0}, seen : SUBSET Jobs, repeats : Nat, start : SUBSET Jobs,
     left : SUBSET Jobs, leavings : Nat, arrivals : Nat]

TypeOK ==
    /\ rows \in [Jobs -> Rows]
    /\ clock \in Nat
    /\ moves \in Nat
    /\ client \in Clients

\* A row that has been given its creation time and not been rolled back.
InTable(row) == row.state \in {"flushed", "committed"}

\* Finitely many rows, each with a time of its own that has been given out.
Times ==
    /\ IsFiniteSet({j \in Jobs : rows[j].state # "none"})
    /\ \A j \in Jobs : InTable(rows[j]) => rows[j].created <= clock
    /\ \A j, k \in Jobs :
          InTable(rows[j]) /\ InTable(rows[k]) /\ rows[j].created = rows[k].created => j = k

Readable(c, table) ==
    \A j \in c.seen : table[j].state = "committed" /\ CanAccess(c, table[j])

\* The jobs the client could list from its start on, and has not seen.
Due(c) == c.start \ (c.left \cup c.seen)

Paged(c, table) ==
    LET S == Listed(c, table) IN
    /\ c.start \ c.left \subseteq S
    /\ Cardinality(From(S, table, c.seen, Offset(c))) + c.repeats <= c.arrivals
    /\ Cardinality(Before(S, table, Due(c), Offset(c))) <= c.leavings

LInv ==
    /\ TypeOK
    /\ Times
    /\ Readable(client, rows)
    /\ client.state = "paging" => Paged(client, rows)
    /\ RepeatedForCause
    /\ MissedForCause

-----------------------------------------------------------------------------
(* The steps.                                                              *)

LEMMA PartsKeep ==
    ASSUME NEW S, NEW row, NEW new, \A j \in S : new[j].created = row[j].created,
           NEW C, NEW o
    PROVE  From(S, new, C, o) = From(S, row, C, o) /\ Before(S, new, C, o) = Before(S, row, C, o)
<1>1. \A j \in S : Above(S, new, j) = Above(S, row, j)
  BY DEF Above
<1> QED
  BY <1>1 DEF From, Before, Position

\* Lists that differ in one job at most.
OneJobApart(S, T, x) ==
    \/ /\ T = S /\ S \ T = {} /\ T \ S = {}
       /\ Cardinality(S \ T) = 0 /\ Cardinality(T \ S) = 0
    \/ /\ x \notin S /\ T = S \cup {x} /\ S \ T = {} /\ T \ S = {x}
       /\ Cardinality(S \ T) = 0 /\ Cardinality(T \ S) = 1
    \/ /\ x \notin T /\ S = T \cup {x} /\ S \ T = {x} /\ T \ S = {}
       /\ Cardinality(S \ T) = 1 /\ Cardinality(T \ S) = 0

LEMMA ListsApart ==
    ASSUME NEW S, NEW T, NEW x, S \ {x} = T \ {x}
    PROVE  OneJobApart(S, T, x)
<1>1. Cardinality({}) = 0 /\ Cardinality({x}) = 1
  BY FS_EmptySet, FS_Singleton
<1>2. CASE x \in S <=> x \in T
  <2>1. T = S /\ S \ T = {} /\ T \ S = {}
    BY <1>2
  <2> QED
    BY <1>1, <2>1 DEF OneJobApart
<1>3. CASE x \notin S /\ x \in T
  <2>1. T = S \cup {x} /\ S \ T = {} /\ T \ S = {x}
    BY <1>3
  <2> QED
    BY <1>1, <1>3, <2>1 DEF OneJobApart
<1>4. CASE x \in S /\ x \notin T
  <2>1. S = T \cup {x} /\ S \ T = {x} /\ T \ S = {}
    BY <1>4
  <2> QED
    BY <1>1, <1>4, <2>1 DEF OneJobApart
<1> QED
  BY <1>2, <1>3, <1>4

\* How a step of the row x changes a client that pages, its list being S and
\* then T.
ListStep(c, d, old, new, x, S, T) ==
    /\ S = Listed(c, old) /\ T = Listed(d, new)
    /\ S \ {x} = T \ {x}
    /\ Timed(S \cup T, old)
    /\ \A j \in T : new[j].created = old[j].created
    /\ d = [c EXCEPT !.left = c.left \cup (S \ T),
                     !.leavings = c.leavings + Cardinality(S \ T),
                     !.arrivals = c.arrivals + Cardinality(T \ S)]

LEMMA PagedAfter ==
    ASSUME NEW c \in Clients, NEW d \in Clients, NEW old, NEW new, NEW S, NEW T, NEW x,
           ListStep(c, d, old, new, x, S, T), Paged(c, old)
    PROVE  Paged(d, new)
<1>0. /\ S = Listed(c, old) /\ T = Listed(d, new)
      /\ S \ {x} = T \ {x}
      /\ Timed(S \cup T, old)
      /\ \A j \in T : new[j].created = old[j].created
      /\ d = [c EXCEPT !.left = c.left \cup (S \ T),
                       !.leavings = c.leavings + Cardinality(S \ T),
                       !.arrivals = c.arrivals + Cardinality(T \ S)]
  BY DEF ListStep
<1> DEFINE o == Offset(c)
<1>1. /\ d.start = c.start /\ d.seen = c.seen /\ d.repeats = c.repeats /\ d.page = c.page
      /\ d.left = c.left \cup (S \ T)
      /\ d.leavings = c.leavings + Cardinality(S \ T)
      /\ d.arrivals = c.arrivals + Cardinality(T \ S)
  BY <1>0 DEF Clients
<1>2. o \in Nat /\ Offset(d) = o
  BY <1>1, ListingAssumption DEF Offset, Clients
<1>3. /\ From(T, new, c.seen, o) = From(T, old, c.seen, o)
      /\ Before(T, new, Due(d), o) = Before(T, old, Due(d), o)
  BY <1>0, PartsKeep
<1>4. /\ c.start \ c.left \subseteq S
      /\ Cardinality(From(S, old, c.seen, o)) + c.repeats <= c.arrivals
      /\ Cardinality(Before(S, old, Due(c), o)) <= c.leavings
  BY <1>0 DEF Paged
<1>5. c.repeats \in Nat /\ c.arrivals \in Nat /\ c.leavings \in Nat
  BY DEF Clients
<1> HIDE DEF o
<1>6. SUFFICES /\ d.start \ d.left \subseteq T
               /\ Cardinality(From(T, old, c.seen, o)) + c.repeats <= d.arrivals
               /\ Cardinality(Before(T, old, Due(d), o)) <= d.leavings
  BY <1>0, <1>1, <1>2, <1>3 DEF Paged
<1>7. CASE T = S /\ S \ T = {} /\ Cardinality(S \ T) = 0 /\ Cardinality(T \ S) = 0
  <2>1. d.left = c.left /\ d.leavings = c.leavings /\ d.arrivals = c.arrivals
    BY <1>1, <1>5, <1>7
  <2>2. Due(d) = Due(c)
    BY <1>1, <2>1 DEF Due
  <2> QED
    BY <1>1, <1>4, <1>7, <2>1, <2>2
<1>8. CASE /\ x \notin S /\ T = S \cup {x} /\ S \ T = {}
           /\ Cardinality(S \ T) = 0 /\ Cardinality(T \ S) = 1
  <2>1. d.left = c.left /\ d.leavings = c.leavings /\ d.arrivals = c.arrivals + 1
    BY <1>1, <1>5, <1>8
  <2>2. Due(d) = Due(c) /\ x \notin Due(c)
    BY <1>1, <1>4, <1>8, <2>1 DEF Due
  <2>3. Timed(T, old) /\ Timed(S, old)
    <3>1. S \cup T = S \cup {x}
      BY <1>8
    <3> QED
      BY <1>0, <1>8, <3>1, PositionWithOneMore
  <2>4. /\ Cardinality(From(T, old, c.seen, o)) <= Cardinality(From(S, old, c.seen, o)) + 1
        /\ Before(T, old, Due(c), o) \in SUBSET Before(S, old, Due(c), o)
    <3>1. T = S \cup {x} /\ x \notin S /\ Timed(T, old)
      BY <1>8, <2>3
    <3>2. /\ Cardinality(From(S \cup {x}, old, c.seen, o))
               <= Cardinality(From(S, old, c.seen, o)) + 1
          /\ Before(S \cup {x}, old, Due(c), o) \subseteq Before(S, old, Due(c), o)
      BY ONLY <1>2, <2>2, <3>1, ArrivalMovesOneBack
    <3> QED
      BY <3>1, <3>2
  <2>5. /\ Cardinality(From(T, old, c.seen, o)) \in Nat
        /\ Cardinality(From(S, old, c.seen, o)) \in Nat
        /\ IsFiniteSet(Before(S, old, Due(c), o))
        /\ Cardinality(Before(S, old, Due(c), o)) \in Nat
        /\ Cardinality(Before(T, old, Due(c), o)) \in Nat
    BY <2>3, PartsAreFinite
  <2>6. Cardinality(Before(T, old, Due(c), o)) <= Cardinality(Before(S, old, Due(c), o))
    BY <2>4, <2>5, FS_Subset
  <2>7. d.start \ d.left \subseteq T
    BY <1>1, <1>4, <1>8, <2>1
  <2> QED
    BY <1>4, <1>5, <2>1, <2>2, <2>4, <2>5, <2>6, <2>7
<1>9. CASE /\ x \notin T /\ S = T \cup {x} /\ S \ T = {x}
           /\ Cardinality(S \ T) = 1 /\ Cardinality(T \ S) = 0
  <2>1. d.left = c.left \cup {x} /\ d.leavings = c.leavings + 1 /\ d.arrivals = c.arrivals
    BY <1>1, <1>5, <1>9
  <2>2. Timed(T, old) /\ Timed(S, old)
    <3>1. S \cup T = T \cup {x}
      BY <1>9
    <3> QED
      BY <1>0, <1>9, <3>1, PositionWithOneMore
  <2>3. Before(T, old, Due(d), o) = Before(T, old, Due(c), o)
    BY <1>1, <1>9, <2>1 DEF Before, Due
  <2>4. /\ From(T, old, c.seen, o) \in SUBSET From(S, old, c.seen, o)
        /\ Cardinality(Before(T, old, Due(c), o))
             <= Cardinality(Before(S, old, Due(c), o)) + 1
    <3>1. S = T \cup {x} /\ x \notin T /\ Timed(S, old)
      BY <1>9, <2>2
    <3>2. /\ From(T, old, c.seen, o) \subseteq From(T \cup {x}, old, c.seen, o)
          /\ Cardinality(Before(T, old, Due(c), o))
               <= Cardinality(Before(T \cup {x}, old, Due(c), o)) + 1
      BY ONLY <1>2, <3>1, LeavingMovesOneAhead
    <3> QED
      BY <3>1, <3>2
  <2>5. /\ IsFiniteSet(From(S, old, c.seen, o))
        /\ Cardinality(From(T, old, c.seen, o)) \in Nat
        /\ Cardinality(From(S, old, c.seen, o)) \in Nat
        /\ Cardinality(Before(S, old, Due(c), o)) \in Nat
        /\ Cardinality(Before(T, old, Due(c), o)) \in Nat
    BY <2>2, PartsAreFinite
  <2>6. Cardinality(From(T, old, c.seen, o)) <= Cardinality(From(S, old, c.seen, o))
    BY <2>4, <2>5, FS_Subset
  <2>7. d.start \ d.left \subseteq T
    BY <1>1, <1>4, <1>9, <2>1
  <2> QED
    BY <1>4, <1>5, <2>1, <2>3, <2>4, <2>5, <2>6, <2>7
<1>10. OneJobApart(S, T, x)
  BY <1>0, ListsApart
<1> QED
  BY <1>7, <1>8, <1>9, <1>10 DEF OneJobApart

\* The changes of a row that a request, a worker or a cancel makes.
Changes(x, r) ==
    \/ /\ rows[x].state = "none" /\ r.state = "flushed"
       /\ r.created = clock + 1 /\ clock' = clock + 1
    \/ /\ InTable(rows[x]) /\ clock' = clock
       /\ InTable(r) => r.created = rows[x].created
       /\ rows[x].state = "committed" =>
             r.state = "committed" /\ r.owner = rows[x].owner /\ r.scope = rows[x].scope
       /\ r.state # "none"

LEMMA UpdateLInv ==
    ASSUME LInv, NEW x \in Jobs, NEW r \in Rows, NEW table, table = [rows EXCEPT ![x] = r],
           Update(table), Changes(x, r), moves' \in Nat
    PROVE  LInv'
<1> PICK c \in Clients : c = client
  BY DEF LInv, TypeOK
<1> PICK old \in [Jobs -> Rows] : old = rows
  BY DEF LInv, TypeOK
<1> PICK d : d = Watch(table)
  OBVIOUS
<1> DEFINE S == Listed(c, old)
           T == Listed(c, table)
<1>1. client' = d /\ rows' = table
  BY DEF Update
<1>2. /\ table \in [Jobs -> Rows] /\ table[x] = r
      /\ \A j \in Jobs : j # x => table[j] = old[j]
  OBVIOUS
<1>3. clock \in Nat /\ clock' \in Nat /\ clock <= clock'
  BY DEF LInv, TypeOK, Changes
<1>4. /\ IsFiniteSet({j \in Jobs : old[j].state # "none"})
      /\ \A j \in Jobs : InTable(old[j]) => old[j].created <= clock
      /\ \A j, k \in Jobs :
            InTable(old[j]) /\ InTable(old[k]) /\ old[j].created = old[k].created => j = k
  BY DEF LInv, Times
<1>5. Times'
  <2>1. IsFiniteSet({j \in Jobs : table[j].state # "none"})
    <3> DEFINE A == {j \in Jobs : old[j].state # "none"}
    <3>1. {j \in Jobs : table[j].state # "none"} \in SUBSET (A \cup {x})
      BY <1>2
    <3>2. IsFiniteSet(A \cup {x})
      BY <1>4, FS_AddElement
    <3> QED
      BY <3>1, <3>2, FS_Subset
  <2>2. \A j \in Jobs : InTable(table[j]) =>
           \/ InTable(old[j]) /\ table[j].created = old[j].created
           \/ j = x /\ table[j].created = clock' /\ clock' > clock
    BY <1>2, <1>3 DEF Changes, InTable
  <2>3. \A j \in Jobs : table[j].created \in Nat /\ old[j].created \in Nat
    BY <1>2 DEF Rows
  <2>4. \A j \in Jobs : InTable(table[j]) => table[j].created <= clock'
    BY <1>3, <1>4, <2>2, <2>3
  <2>5. \A j, k \in Jobs :
           InTable(table[j]) /\ InTable(table[k]) /\ table[j].created = table[k].created => j = k
    <3> SUFFICES ASSUME NEW j \in Jobs, NEW k \in Jobs, InTable(table[j]),
                        InTable(table[k]), table[j].created = table[k].created
                 PROVE  j = k
      OBVIOUS
    <3>1. CASE InTable(old[j]) /\ table[j].created = old[j].created
      BY <1>3, <1>4, <2>2, <2>3, <3>1
    <3>2. CASE j = x /\ table[j].created = clock' /\ clock' > clock
      BY <1>3, <1>4, <2>2, <2>3, <3>2
    <3> QED
      BY <2>2, <3>1, <3>2
  <2> QED
    BY <1>1, <2>1, <2>4, <2>5 DEF Times
<1>6. /\ S \subseteq Jobs /\ T \subseteq Jobs
      /\ \A j \in S : old[j].state = "committed"
      /\ \A j \in T : table[j].state = "committed"
      /\ S \ {x} = T \ {x}
  BY <1>2 DEF Listed, Matches
<1>7. \A j \in S \cup T : InTable(old[j]) /\ table[j].created = old[j].created
  BY <1>2, <1>6 DEF Changes, InTable
<1>8. Timed(S \cup T, old)
  <2>1. S \cup T \in SUBSET {j \in Jobs : old[j].state # "none"}
    BY <1>6, <1>7, ZenonT(30) DEF InTable
  <2>2. IsFiniteSet(S \cup T)
    BY <1>4, <2>1, FS_Subset
  <2>3. \A j \in S \cup T : j \in Jobs /\ old[j].created \in Nat
    BY <1>6 DEF Rows
  <2>4. ASSUME NEW j \in S \cup T, NEW k \in S \cup T, old[j].created = old[k].created
        PROVE  j = k
    <3>1. j \in Jobs /\ k \in Jobs /\ InTable(old[j]) /\ InTable(old[k])
      BY <1>6, <1>7
    <3> QED
      BY <1>4, <2>4, <3>1
  <2> QED
    BY <2>2, <2>3, <2>4 DEF Timed
<1>9. \/ c.state # "paging" /\ d = c
      \/ /\ c.state = "paging"
         /\ d = [c EXCEPT !.left = c.left \cup (S \ T),
                          !.leavings = c.leavings + Cardinality(S \ T),
                          !.arrivals = c.arrivals + Cardinality(T \ S)]
  BY DEF Watch
<1>10. Cardinality(S \ T) \in Nat /\ Cardinality(T \ S) \in Nat
  <2>1. IsFiniteSet(S \cup T) /\ S \ T \in SUBSET (S \cup T) /\ T \ S \in SUBSET (S \cup T)
    BY <1>8 DEF Timed
  <2> QED
    BY <2>1, FS_Subset, FS_CardinalityType
<1> HIDE DEF S, T
<1>11. /\ d \in Clients /\ d.state = c.state /\ d.seen = c.seen /\ d.admin = c.admin
       /\ d.owner = c.owner /\ d.ownerFilter = c.ownerFilter
       /\ d.statusFilter = c.statusFilter /\ d.repeats = c.repeats
       /\ c.arrivals <= d.arrivals /\ d.arrivals \in Nat
  <2>1. CASE d = c
    <3>1. c.arrivals \in Nat /\ c.arrivals <= c.arrivals
      BY DEF Clients
    <3> QED
      BY <2>1, <3>1
  <2>2. CASE d = [c EXCEPT !.left = c.left \cup (S \ T),
                           !.leavings = c.leavings + Cardinality(S \ T),
                           !.arrivals = c.arrivals + Cardinality(T \ S)]
    <3>1. PICK l \in SUBSET Jobs : l = c.left \cup (S \ T)
      BY <1>6 DEF Clients
    <3>2. PICK m \in Nat : m = c.leavings + Cardinality(S \ T)
      BY <1>10 DEF Clients
    <3>3. PICK n \in Nat : n = c.arrivals + Cardinality(T \ S) /\ c.arrivals <= n
      BY <1>10 DEF Clients
    <3>4. d = [c EXCEPT !.left = l, !.leavings = m, !.arrivals = n]
      BY <2>2, <3>1, <3>2, <3>3
    <3> QED
      BY ONLY <3>3, <3>4 DEF Clients
  <2> QED
    BY <1>9, <2>1, <2>2
<1>12. d.state = "paging" => Paged(d, table)
  <2> SUFFICES ASSUME d.state = "paging"
               PROVE  Paged(d, table)
    OBVIOUS
  <2>1. Paged(c, old)
    BY <1>11 DEF LInv
  <2>2. T = Listed(d, table)
    BY <1>11 DEF T, Listed, Matches, InScope
  <2>3. d = [c EXCEPT !.left = c.left \cup (S \ T),
                      !.leavings = c.leavings + Cardinality(S \ T),
                      !.arrivals = c.arrivals + Cardinality(T \ S)]
    BY <1>9, <1>11
  <2>4. \A j \in T : table[j].created = old[j].created
    BY <1>7
  <2> QED
    <3>1. S = Listed(c, old)
      BY DEF S
    <3>2. ListStep(c, d, old, table, x, S, T)
      BY <1>6, <1>8, <2>2, <2>3, <2>4, <3>1 DEF ListStep
    <3> QED
      BY <1>11, <2>1, <3>2, PagedAfter
<1>13. Readable(d, table)
  <2>1. \A j \in c.seen : j \in Jobs /\ old[j].state = "committed" /\ CanAccess(c, old[j])
    BY DEF LInv, Readable, Clients
  <2>2. \A j \in c.seen : /\ table[j].state = "committed"
                          /\ table[j].owner = old[j].owner /\ table[j].scope = old[j].scope
    BY <1>2, <2>1 DEF Changes
  <2>3. \A j \in c.seen : CanAccess(c, old[j]) => CanAccess(d, table[j])
    BY <1>11, <2>2 DEF CanAccess
  <2>4. \A j \in c.seen : table[j].state = "committed" /\ CanAccess(d, table[j])
    BY <2>1, <2>2, <2>3
  <2>5. d.seen = c.seen
    BY <1>11
  <2> QED
    BY <2>4, <2>5 DEF Readable
<1>14. d.repeats <= d.arrivals
  <2>1. c.repeats <= c.arrivals /\ c.repeats \in Nat /\ c.arrivals \in Nat
    BY DEF LInv, RepeatedForCause, Clients
  <2> QED
    BY <1>11, <2>1
<1>15. MissedForCause'
  <2>1. d.state = "done" => d = c
    BY <1>9, <1>11
  <2> QED
    BY <1>1, <2>1 DEF LInv, MissedForCause, Missed
<1>16. TypeOK'
  BY <1>1, <1>2, <1>3, <1>11 DEF TypeOK
<1> QED
  BY <1>1, <1>5, <1>12, <1>13, <1>14, <1>15, <1>16 DEF LInv, RepeatedForCause

LEMMA ListIsTimed ==
    ASSUME LInv, NEW c
    PROVE  /\ Timed(Listed(c, rows), rows)
           /\ Listed(c, rows) \subseteq Jobs
           /\ \A j \in Listed(c, rows) : rows[j].state = "committed" /\ Matches(c, rows[j])
<1> DEFINE S == Listed(c, rows)
<1>1. /\ S \subseteq Jobs
      /\ \A j \in S : rows[j].state = "committed" /\ Matches(c, rows[j])
  BY DEF Listed, Matches
<1>2. \A j \in S : InTable(rows[j]) /\ rows[j].created \in Nat
  BY <1>1 DEF InTable, LInv, TypeOK, Rows
<1>3. IsFiniteSet(S)
  <2>1. S \in SUBSET {j \in Jobs : rows[j].state # "none"}
    BY <1>1
  <2> QED
    BY <2>1, FS_Subset DEF LInv, Times
<1> HIDE DEF S
<1>4. Timed(S, rows)
  BY <1>1, <1>2, <1>3 DEF Timed, LInv, Times
<1> QED
  BY <1>1, <1>4 DEF S

LEMMA StartTyped ==
    NoRow \in Rows /\ NewClient \in Clients
  BY ListingAssumption DEF NoRow, Rows, Scopes, NewClient, Clients

LEMMA InitLInv ==
    Init => LInv
<1> SUFFICES ASSUME Init
             PROVE  LInv
  OBVIOUS
<1>1. NoRow \in Rows /\ NewClient \in Clients
  BY StartTyped
<1>2. TypeOK
  BY <1>1 DEF Init, TypeOK
<1>3. \A j \in Jobs : rows[j].state = "none"
  BY DEF Init, NoRow
<1>4. Times
  <2>1. {j \in Jobs : rows[j].state # "none"} = {}
    BY <1>3
  <2> QED
    BY <1>3, <2>1, FS_EmptySet DEF Times, InTable
<1>5. /\ client.state = "idle" /\ client.seen = {} /\ client.repeats = 0
      /\ client.arrivals = 0
  BY DEF Init, NewClient
<1> QED
  BY <1>2, <1>4, <1>5 DEF LInv, Readable, RepeatedForCause, MissedForCause

LEMMA InsertLInv ==
    ASSUME LInv, NEW j \in Jobs, NEW owner \in Owners, NEW scope \in Scopes,
           Insert(j, owner, scope)
    PROVE  LInv'
<1> DEFINE r == [NoRow EXCEPT !.state = "flushed", !.created = clock + 1,
                              !.owner = owner, !.scope = scope]
<1>1. clock \in Nat /\ moves \in Nat
  BY DEF LInv, TypeOK
<1>2. r \in Rows /\ r.state = "flushed" /\ r.created = clock + 1
  <2>1. PICK n \in Nat : n = clock + 1
    BY <1>1
  <2>2. PICK row \in Rows : row = NoRow
    BY StartTyped
  <2>3. r = [row EXCEPT !.state = "flushed", !.created = n,
                        !.owner = owner, !.scope = scope]
    BY <2>1, <2>2
  <2> HIDE DEF r
  <2> QED
    BY <2>1, <2>3 DEF Rows
<1>3. Update([rows EXCEPT ![j] = r]) /\ moves' \in Nat
  BY <1>1 DEF Insert
<1>4. Changes(j, r)
  BY <1>2 DEF Insert, Changes
<1> HIDE DEF r
<1> QED
  BY <1>2, <1>3, <1>4, UpdateLInv

\* The steps of a row that is in the table: only its state or its status changes,
\* or it is rolled back.
LEMMA RowLInv ==
    ASSUME LInv, NEW j \in Jobs, Commit(j) \/ Rollback(j) \/ \E s \in Statuses : Move(j, s)
    PROVE  LInv'
<1> PICK row \in Rows : row = rows[j]
  BY DEF LInv, TypeOK
<1>1. moves \in Nat /\ moves' \in Nat /\ clock' = clock
  <2>1. moves \in Nat
    BY DEF LInv, TypeOK
  <2>2. moves' \in {moves, moves + 1} /\ clock' = clock
    BY DEF Commit, Rollback, Move
  <2> QED
    BY <2>1, <2>2
<1>2. CASE Commit(j)
  <2> PICK r \in Rows : r = [row EXCEPT !.state = "committed"]
    BY DEF Rows
  <2>1. /\ row.state = "flushed" /\ r.state = "committed" /\ r.created = row.created
        /\ Update([rows EXCEPT ![j] = r])
    BY <1>2 DEF Commit, Rows
  <2>2. Changes(j, r)
    BY <1>1, <2>1 DEF Changes, InTable
  <2> QED
    BY <1>1, <2>1, <2>2, UpdateLInv
<1>3. CASE Rollback(j)
  <2> PICK r \in Rows : r = [NoRow EXCEPT !.state = "dropped"]
    BY ListingAssumption DEF NoRow, Rows, Scopes
  <2>1. /\ row.state = "flushed" /\ r.state = "dropped"
        /\ Update([rows EXCEPT ![j] = r])
    BY <1>3 DEF Rollback, NoRow
  <2>2. Changes(j, r)
    BY <1>1, <2>1 DEF Changes, InTable
  <2> QED
    BY <1>1, <2>1, <2>2, UpdateLInv
<1>4. ASSUME NEW s \in Statuses, Move(j, s)
      PROVE  LInv'
  <2> PICK r \in Rows : r = [row EXCEPT !.status = s]
    BY DEF Rows
  <2>1. /\ row.state = "committed" /\ r.state = "committed" /\ r.created = row.created
        /\ r.owner = row.owner /\ r.scope = row.scope
        /\ Update([rows EXCEPT ![j] = r])
    BY <1>4 DEF Move, Rows
  <2>2. Changes(j, r)
    BY <1>1, <2>1 DEF Changes, InTable
  <2> QED
    BY <1>1, <2>1, <2>2, UpdateLInv
<1> QED
  BY <1>2, <1>3, <1>4

LEMMA BeginLInv ==
    ASSUME LInv, NEW admin \in BOOLEAN, NEW owner \in Owners \cup {None},
           NEW ownerFilter \in Owners \cup {None}, NEW statusFilter \in Statuses \cup {None},
           Begin(admin, owner, ownerFilter, statusFilter)
    PROVE  LInv'
<1> DEFINE c == [NewClient EXCEPT !.state = "paging", !.admin = admin,
                                  !.owner = owner, !.ownerFilter = ownerFilter,
                                  !.statusFilter = statusFilter]
           d == [c EXCEPT !.start = Listed(c, rows)]
           S == Listed(d, rows)
<1>1. client' = d /\ UNCHANGED <<rows, clock, moves>>
  BY DEF Begin
<1>2. S = Listed(c, rows)
  BY DEF NewClient, Listed, Matches, InScope
<1>3. S \in SUBSET Jobs /\ Timed(S, rows)
  <2> HIDE DEF d
  <2> QED
    BY ListIsTimed
<1>4. /\ d \in Clients /\ d.state = "paging" /\ d.page = 1 /\ d.start = S /\ d.left = {}
      /\ d.seen = {} /\ d.repeats = 0 /\ d.arrivals = 0 /\ d.leavings = 0
  <2> HIDE DEF S
  <2>1. PICK l \in SUBSET Jobs : l = S
    BY <1>3
  <2>2. PICK n \in Clients : n = NewClient
    BY StartTyped
  <2>3. /\ n.page = 1 /\ n.left = {} /\ n.seen = {} /\ n.repeats = 0
        /\ n.arrivals = 0 /\ n.leavings = 0
    BY <2>2 DEF NewClient
  <2>4. d = [n EXCEPT !.state = "paging", !.admin = admin, !.owner = owner,
                      !.ownerFilter = ownerFilter, !.statusFilter = statusFilter,
                      !.start = l]
    BY <1>2, <2>1, <2>2
  <2> HIDE DEF d
  <2> QED
    BY <2>1, <2>3, <2>4, ZenonT(30) DEF Clients
<1> HIDE DEF d, S
<1>5. Offset(d) = 0
  BY <1>4, ListingAssumption DEF Offset
<1>6. Paged(d, rows)
  <2>1. \A j : Position(S, rows, j) \in Nat
    BY <1>3, PositionIsNatural
  <2>2. From(S, rows, d.seen, 0) = {} /\ Before(S, rows, Due(d), 0) = {}
    BY <1>4, <2>1 DEF From, Before
  <2> QED
    BY <1>4, <1>5, <2>2, FS_EmptySet DEF Paged, S
<1>7. Readable(d, rows)
  BY <1>4 DEF Readable
<1>8. TypeOK' /\ Times'
  BY <1>1, <1>4 DEF LInv, TypeOK, Times
<1>9. RepeatedForCause' /\ MissedForCause'
  BY <1>1, <1>4 DEF RepeatedForCause, MissedForCause
<1> QED
  BY <1>1, <1>6, <1>7, <1>8, <1>9 DEF LInv

\* Whoever finds a job in the list may read it.
LEMMA InScopeCanAccess ==
    ASSUME NEW c \in Clients, NEW row \in Rows, InScope(c, row)
    PROVE  CanAccess(c, row)
  BY DEF InScope, CanAccess

LEMMA ListJobsLInv ==
    ASSUME LInv, ListJobs
    PROVE  LInv'
<1> PICK c \in Clients : c = client
  BY DEF LInv, TypeOK
<1> DEFINE S == Listed(c, rows)
           o == Offset(c)
           items == PageRows(c)
           again == items \cap c.seen
<1> PICK d : d = [c EXCEPT !.seen = c.seen \cup items,
                           !.repeats = c.repeats + Cardinality(again),
                           !.page = c.page + 1,
                           !.state = IF Cardinality(items) < PageSize
                                     THEN "done" ELSE "paging"]
  OBVIOUS
<1>1. client' = d /\ UNCHANGED <<rows, clock, moves>> /\ c.state = "paging"
  BY DEF ListJobs
<1>2. /\ Timed(S, rows) /\ S \subseteq Jobs
      /\ \A j \in S : rows[j].state = "committed" /\ Matches(c, rows[j])
  BY ListIsTimed
<1>3. /\ o \in Nat /\ PageSize \in Nat /\ PageSize > 0
      /\ Offset([c EXCEPT !.page = c.page + 1]) = o + PageSize
  BY ListingAssumption DEF Offset, Clients
<1>4. items = {j \in S : Position(S, rows, j) >= o /\ Position(S, rows, j) < o + PageSize}
  BY DEF PageRows, Rank, Position, Above
<1> HIDE DEF S, o, items
<1>5. \A j : Position(S, rows, j) \in Nat
  BY <1>2, PositionIsNatural
<1>6. /\ again \in SUBSET From(S, rows, c.seen, o)
      /\ From(S, rows, c.seen, o) \cap again = again
      /\ items \subseteq S
  BY <1>4 DEF From
<1>7. /\ IsFiniteSet(From(S, rows, c.seen, o))
      /\ Cardinality(From(S, rows, c.seen, o)) \in Nat
      /\ IsFiniteSet(Before(S, rows, Due(c), o))
      /\ Cardinality(Before(S, rows, Due(c), o)) \in Nat
  BY <1>2, PartsAreFinite
<1>8. /\ Cardinality(again) \in Nat
      /\ Cardinality(again) <= Cardinality(From(S, rows, c.seen, o))
  BY <1>6, <1>7, FS_Subset, FS_CardinalityType
<1>9. /\ d \in Clients /\ d.seen = c.seen \cup items
      /\ d.repeats = c.repeats + Cardinality(again) /\ d.page = c.page + 1
      /\ d.state = IF Cardinality(items) < PageSize THEN "done" ELSE "paging"
      /\ d.start = c.start /\ d.left = c.left
      /\ d.leavings = c.leavings /\ d.arrivals = c.arrivals
      /\ d.admin = c.admin /\ d.owner = c.owner
      /\ d.ownerFilter = c.ownerFilter /\ d.statusFilter = c.statusFilter
  <2>1. PICK seen \in SUBSET Jobs : seen = c.seen \cup items
    BY <1>2, <1>6 DEF Clients
  <2>2. PICK repeats \in Nat : repeats = c.repeats + Cardinality(again)
    BY <1>8 DEF Clients
  <2>3. PICK state \in {"done", "paging"} :
           state = IF Cardinality(items) < PageSize THEN "done" ELSE "paging"
    OBVIOUS
  <2>4. PICK page \in Nat \ {0} : page = c.page + 1
    BY DEF Clients
  <2>5. d = [c EXCEPT !.seen = seen, !.repeats = repeats, !.page = page, !.state = state]
    BY <2>1, <2>2, <2>3, <2>4
  <2>6. d \in Clients
    BY <2>5, ZenonT(30) DEF Clients
  <2>7. /\ d.seen = seen /\ d.repeats = repeats /\ d.page = page /\ d.state = state
        /\ d.start = c.start /\ d.left = c.left
        /\ d.leavings = c.leavings /\ d.arrivals = c.arrivals
        /\ d.admin = c.admin /\ d.owner = c.owner
        /\ d.ownerFilter = c.ownerFilter /\ d.statusFilter = c.statusFilter
    BY <2>5 DEF Clients
  <2> QED
    BY <2>1, <2>2, <2>3, <2>4, <2>6, <2>7
<1>10. Offset(d) = o + PageSize /\ Listed(d, rows) = S
  <2>1. Listed(d, rows) = Listed(c, rows)
    BY <1>9 DEF Listed, Matches, InScope
  <2>2. Offset(d) = Offset([c EXCEPT !.page = c.page + 1])
    BY <1>9 DEF Offset, Clients
  <2> QED
    BY <1>3, <2>1, <2>2 DEF S
<1>11. /\ c.start \ c.left \subseteq S
       /\ Cardinality(From(S, rows, c.seen, o)) + c.repeats <= c.arrivals
       /\ Cardinality(Before(S, rows, Due(c), o)) <= c.leavings
  BY <1>1 DEF LInv, Paged, S, o
<1>12. c.repeats \in Nat /\ c.arrivals \in Nat /\ c.leavings \in Nat
  BY DEF Clients
<1>13. Cardinality(From(S, rows, d.seen, o + PageSize)) + d.repeats <= d.arrivals
  <2>1. From(S, rows, d.seen, o + PageSize) = From(S, rows, c.seen, o) \ again
    BY <1>3, <1>4, <1>5, <1>9 DEF From
  <2>2. Cardinality(From(S, rows, c.seen, o) \ again)
          = Cardinality(From(S, rows, c.seen, o)) - Cardinality(again)
    <3> PICK A : A = From(S, rows, c.seen, o)
      OBVIOUS
    <3>1. Cardinality(A \ again) = Cardinality(A) - Cardinality(A \cap again)
      <4> HIDE DEF again
      <4> QED
        BY <1>7, FS_Difference
    <3> HIDE DEF again
    <3> QED
      BY <1>6, <3>1
  <2> HIDE DEF again
  <2>3. d.repeats = c.repeats + Cardinality(again) /\ d.arrivals = c.arrivals
    BY <1>9
  <2>4. Cardinality(From(S, rows, d.seen, o + PageSize))
          = Cardinality(From(S, rows, c.seen, o)) - Cardinality(again)
    BY <2>1, <2>2
  <2> QED
    BY <1>7, <1>8, <1>11, <1>12, <2>3, <2>4
<1>14. Before(S, rows, Due(d), o + PageSize) \in SUBSET Before(S, rows, Due(c), o)
  BY <1>3, <1>4, <1>5, <1>9 DEF Before, Due
<1>15. Cardinality(Before(S, rows, Due(d), o + PageSize)) <= d.leavings
  <2>1. /\ Cardinality(Before(S, rows, Due(d), o + PageSize))
             <= Cardinality(Before(S, rows, Due(c), o))
        /\ Cardinality(Before(S, rows, Due(d), o + PageSize)) \in Nat
    BY <1>7, <1>14, FS_Subset, FS_CardinalityType
  <2> QED
    BY <1>7, <1>9, <1>11, <1>12, <2>1
<1>16. Paged(d, rows)
  BY <1>9, <1>10, <1>11, <1>13, <1>15 DEF Paged
<1>17. d.repeats <= d.arrivals
  BY <1>7, <1>8, <1>9, <1>11, <1>12
<1>18. ASSUME d.state = "done"
       PROVE  Cardinality(Due(d)) <= d.leavings
  <2>1. Cardinality(items) < PageSize
    BY <1>9, <1>18
  <2>2. \A j \in S : Position(S, rows, j) < o + PageSize
    BY <1>2, <1>3, <1>4, <2>1, ShortPageIsLast
  <2>3. Due(d) \subseteq S
    BY <1>9, <1>11 DEF Due
  <2>4. Before(S, rows, Due(d), o + PageSize) = Due(d)
    BY <2>2, <2>3 DEF Before
  <2> QED
    BY <1>15, <2>4
<1>19. Missed' = Due(d)
  BY <1>1 DEF Missed, Due
<1>20. Readable(d, rows)
  <2>1. \A j \in c.seen : rows[j].state = "committed" /\ CanAccess(c, rows[j])
    BY DEF LInv, Readable
  <2>2. \A j \in items : rows[j].state = "committed" /\ CanAccess(c, rows[j])
    <3>1. \A j \in items : /\ j \in Jobs /\ rows[j] \in Rows
                           /\ rows[j].state = "committed" /\ InScope(c, rows[j])
      BY <1>2, <1>6 DEF Matches, LInv, TypeOK
    <3> QED
      BY <3>1, InScopeCanAccess
  <2>3. \A j : CanAccess(c, rows[j]) => CanAccess(d, rows[j])
    BY <1>9 DEF CanAccess
  <2>4. \A j \in c.seen \cup items : rows[j].state = "committed" /\ CanAccess(d, rows[j])
    BY <2>1, <2>2, <2>3
  <2>5. d.seen = c.seen \cup items
    BY <1>9
  <2> QED
    BY <2>4, <2>5 DEF Readable
<1>21. TypeOK' /\ Times'
  BY <1>1, <1>9 DEF LInv, TypeOK, Times
<1>22. RepeatedForCause' /\ MissedForCause'
  BY <1>1, <1>17, <1>18, <1>19 DEF RepeatedForCause, MissedForCause
<1> QED
  BY <1>1, <1>16, <1>20, <1>21, <1>22 DEF LInv

LEMMA NextLInv ==
    LInv /\ [Next]_vars => LInv'
<1> SUFFICES ASSUME LInv, [Next]_vars
             PROVE  LInv'
  OBVIOUS
<1>1. ASSUME NEW j \in Jobs, NEW owner \in Owners, NEW scope \in Scopes,
             Insert(j, owner, scope)
      PROVE  LInv'
  BY <1>1, InsertLInv
<1>2. ASSUME NEW j \in Jobs, Commit(j) \/ Rollback(j) \/ \E s \in Statuses : Move(j, s)
      PROVE  LInv'
  BY <1>2, RowLInv
<1>3. ASSUME NEW admin \in BOOLEAN, NEW owner \in Owners \cup {None},
             NEW ownerFilter \in Owners \cup {None},
             NEW statusFilter \in Statuses \cup {None},
             Begin(admin, owner, ownerFilter, statusFilter)
      PROVE  LInv'
  BY <1>3, BeginLInv
<1>4. CASE ListJobs
  BY <1>4, ListJobsLInv
<1>5. CASE UNCHANGED vars
  BY <1>5 DEF vars, LInv, TypeOK, Times, RepeatedForCause, MissedForCause, Missed
<1> QED
  BY <1>1, <1>2, <1>3, <1>4, <1>5 DEF Next, Quiescent

\* In every state the invariant holds: creation times are distinct, and while the
\* client pages, the jobs that could be listed again or have been passed over are
\* no more than have arrived or left.
THEOREM ListingInvariant == Spec => []LInv
  BY InitLInv, NextLInv, PTL DEF Spec

\* A client that pages to the end misses at most as many of the jobs that were in
\* its list throughout as left the list meanwhile, whatever is committed between
\* two SELECTs of list_jobs and in whatever order of creation times.
THEOREM NothingMissedWithoutCause == Spec => []MissedForCause
<1>1. LInv => MissedForCause
  BY DEF LInv
<1> QED
  BY <1>1, ListingInvariant, PTL

\* At most as many jobs are listed again by list_jobs as arrived meanwhile.
THEOREM NothingRepeatedWithoutCause == Spec => []RepeatedForCause
<1>1. LInv => RepeatedForCause
  BY DEF LInv
<1> QED
  BY <1>1, ListingInvariant, PTL

\* The WHERE clause of list_jobs lets through only jobs that _can_access lets the
\* same client read, then and later.
THEOREM ListedJobsCanBeRead == Spec => []ListedCanBeRead
<1>1. LInv => ListedCanBeRead
  BY DEF LInv, Readable, ListedCanBeRead
<1> QED
  BY <1>1, ListingInvariant, PTL
==============================================================================
