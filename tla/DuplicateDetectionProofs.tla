----------------------- MODULE DuplicateDetectionProofs -----------------------
(***************************************************************************)
(* Possible duplicates are found and stay what they were, for any papers,  *)
(* titles, scores, submissions, reviewers and deaths.  The inductive       *)
(* invariant has one part for the papers and candidates (Committed), one   *)
(* for the transactions in progress (Underway, Compares) and one for the   *)
(* reviewers (Reviewed).                                                   *)
(***************************************************************************)
EXTENDS DuplicateDetection, TLAPS

Paper == [there : BOOLEAN, title : Titles \cup {None}, norm : Norms \cup {None}]
Candidate == [status : ReviewStatuses \cup {"none"}, score : Nat]
Request == [pc : {"new", "search", "commit", "done", "dead"},
            paper : Papers \cup {None}, row : Paper, fresh : BOOLEAN,
            before : SUBSET Papers, match : Papers \cup {None}, score : Nat]
Review == [pc : {"new", "loaded", "done"}, pair : Pairs \cup {{}},
           loaded : ReviewStatuses \cup {"none"}, wanted : ReviewStatuses,
           before : SUBSET Reviewers]

Typed ==
  /\ papers \in [Papers -> Paper]
  /\ candidates \in [Pairs -> Candidate]
  /\ requests \in [Requests -> Request]
  /\ reviews \in [Reviewers -> Review]

\* Only a registered paper has a title, and it is normalised if there is one.
TitleOK(row) ==
  /\ ~row.there => row.title = None
  /\ row.title = None <=> row.norm = None

\* What is committed.
Committed ==
  /\ \A p \in Papers : TitleOK(papers[p])
  /\ \A p, q \in Papers :
       p # q /\ candidates[{p, q}] # NoCandidate =>
         /\ papers[p].there /\ papers[p].norm # None
         /\ candidates[{p, q}].score >= Threshold
         /\ candidates[{p, q}].score \in {Score[<<papers[p].norm, papers[q].norm>>],
                                          Score[<<papers[q].norm, papers[p].norm>>]}
  /\ \A pair \in Pairs :
       candidates[pair] # NoCandidate => candidates[pair].status # "none"

Active(r) == requests[r].pc \in {"search", "commit"}

\* A transaction holds the lock of its paper, and keeps a title that is there.
Underway(r) ==
  Active(r) =>
    /\ requests[r].paper \in Papers
    /\ TitleOK(requests[r].row) /\ requests[r].row.there
    /\ papers[requests[r].paper].norm # None =>
         requests[r].row.norm = papers[requests[r].paper].norm
    /\ requests[r].fresh => ~papers[requests[r].paper].there
    /\ \A s \in Requests :
         Active(s) /\ requests[s].paper = requests[r].paper => s = r

\* The papers whose titles were there keep them; of those that are similar one
\* at least as similar is found.
Compares(r) ==
  /\ requests[r].before \subseteq Titled
  /\ requests[r].pc = "done" => requests[r].paper \in Papers
  /\ Active(r) /\ requests[r].fresh => requests[r].paper \notin requests[r].before
  /\ requests[r].pc = "search" => requests[r].match = None /\ requests[r].fresh
  /\ requests[r].pc = "commit" /\ requests[r].match # None =>
       /\ requests[r].fresh /\ Compared(r)
       /\ requests[r].match \in Titled \ {requests[r].paper}
       /\ requests[r].score >= Threshold
       /\ requests[r].score = Ratio(r, requests[r].match)
  /\ requests[r].pc = "commit" /\ requests[r].fresh /\ Compared(r) =>
       \A q \in requests[r].before :
         Ratio(r, q) >= Threshold =>
           requests[r].match # None /\ requests[r].score >= Ratio(r, q)

Last(v) ==
  \A u \in Reviewers \ {v} :
    reviews[u].pc # "new" /\ reviews[u].pair = reviews[v].pair
      => u \in reviews[v].before

\* The last reviewer of a candidate is not disturbed.
Reviewed(v) ==
  /\ \A u \in reviews[v].before : reviews[u].pc = "done"
  /\ reviews[v].pc # "new" =>
       reviews[v].pair \in Pairs /\ candidates[reviews[v].pair] # NoCandidate
  /\ reviews[v].pc = "loaded" /\ Last(v) =>
       candidates[reviews[v].pair].status = reviews[v].loaded
  /\ reviews[v].pc = "done" /\ Last(v) =>
       candidates[reviews[v].pair].status = reviews[v].wanted

DInv ==
  /\ Typed
  /\ Committed
  /\ \A r \in Requests : Underway(r) /\ Compares(r)
  /\ EarlierIsCompared
  /\ \A v \in Reviewers : Reviewed(v)

-----------------------------------------------------------------------------
(* Lemmas about papers and scores.                                         *)

LEMMA PairOf ==
  ASSUME NEW p \in Papers, NEW q \in Papers, p # q
  PROVE {p, q} \in Pairs
BY DEF Pairs

LEMMA PairParts ==
  ASSUME NEW pair \in Pairs
  PROVE \E p, q \in Papers : p # q /\ pair = {p, q}
BY DEF Pairs

LEMMA NormTypes ==
  /\ \A title \in Titles \cup {None} :
       /\ NormalTitle(title) \in Norms \cup {None}
       /\ title = None <=> NormalTitle(title) = None
  /\ \A m, n \in Norms : Score[<<m, n>>] \in Nat
  /\ Threshold \in Nat /\ None \notin Norms
BY DuplicateAssumption DEF DuplicateAssumption, NormalTitle, Norms

LEMMA RatioTypes ==
  ASSUME Typed, NEW r \in Requests, Compared(r), NEW q \in Titled
  PROVE Ratio(r, q) \in Nat
<1>1. requests[r].row.norm \in Norms
  BY DEF Typed, Request, Paper, Compared
<1>2. papers[q].norm \in Norms
  BY DEF Typed, Paper, Titled
<1> QED
  BY <1>1, <1>2, NormTypes DEF Ratio

\* Titles and candidates stay when they are there.
CommittedGrows ==
  /\ \A p \in Papers : papers[p].norm # None => papers'[p].norm = papers[p].norm
  /\ \A pair \in Pairs :
       candidates[pair] # NoCandidate =>
         /\ candidates'[pair] # NoCandidate
         /\ candidates'[pair].score = candidates[pair].score

EarlierCompared(r) ==
  requests[r].pc = "done" /\ requests[r].fresh /\ Compared(r) =>
    \A q \in requests[r].before :
      Ratio(r, q) >= Threshold => FlaggedAt(requests[r].paper, Ratio(r, q))

LEMMA FlaggedStays ==
  ASSUME CommittedGrows, NEW p \in Papers, NEW score, FlaggedAt(p, score)
  PROVE FlaggedAt(p, score)'
<1>1. PICK q \in Papers \ {p} :
         candidates[{p, q}] # NoCandidate /\ candidates[{p, q}].score >= score
  BY DEF FlaggedAt
<1>2. {p, q} \in Pairs
  BY PairOf
<1> QED
  BY <1>1, <1>2 DEF FlaggedAt, CommittedGrows

\* What a transaction has seen and found is not disturbed by others.
LEMMA ComparesStay ==
  ASSUME Typed, CommittedGrows, NEW r \in Requests, Compares(r),
         requests'[r] = requests[r]
  PROVE /\ Compares(r)'
        /\ \A q \in requests[r].before : Ratio(r, q)' = Ratio(r, q)
<1>1. Titled \subseteq Titled'
  BY DEF CommittedGrows, Titled
<1>2. \A q \in Titled : Ratio(r, q)' = Ratio(r, q)
  BY DEF CommittedGrows, Titled, Ratio
<1>3. requests[r].before \subseteq Titled
  BY DEF Compares
<1>4. /\ Compared(r)' = Compared(r)
      /\ Active(r)' = Active(r)
  BY DEF Compared, Active
<1>5. requests[r].pc = "commit" /\ requests[r].match # None =>
        Ratio(r, requests[r].match)' = Ratio(r, requests[r].match)
  BY <1>2 DEF Compares, Ratio
<1>6. requests'[r].pc = "commit" /\ requests'[r].match # None =>
       /\ requests'[r].fresh /\ Compared(r)'
       /\ requests'[r].match \in Titled' \ {requests'[r].paper}
       /\ requests'[r].score >= Threshold
       /\ requests'[r].score = Ratio(r, requests[r].match)'
  BY <1>1, <1>4, <1>5 DEF Compares
<1>7. requests'[r].pc = "commit" /\ requests'[r].fresh /\ Compared(r)' =>
       \A q \in requests'[r].before :
         Ratio(r, q)' >= Threshold =>
           requests'[r].match # None /\ requests'[r].score >= Ratio(r, q)'
  BY <1>2, <1>3, <1>4 DEF Compares
<1>8. /\ requests'[r].before \subseteq Titled'
      /\ requests'[r].pc = "done" => requests'[r].paper \in Papers
      /\ Active(r)' /\ requests'[r].fresh => requests'[r].paper \notin requests'[r].before
      /\ requests'[r].pc = "search" => requests'[r].match = None /\ requests'[r].fresh
  BY <1>1, <1>3, <1>4 DEF Compares
<1> QED
  BY <1>2, <1>3, <1>6, <1>7, <1>8 DEF Compares

LEMMA EarlierStays ==
  ASSUME Typed, CommittedGrows, NEW r \in Requests, Compares(r), EarlierCompared(r),
         requests'[r] = requests[r]
  PROVE EarlierCompared(r)'
<1> SUFFICES ASSUME requests[r].pc = "done", requests[r].fresh, Compared(r)',
                    NEW q \in requests[r].before, Ratio(r, q)' >= Threshold
             PROVE FlaggedAt(requests[r].paper, Ratio(r, q))'
  BY DEF EarlierCompared
<1> PICK ratio : ratio = Ratio(r, q)
  OBVIOUS
<1> PICK p \in Papers : p = requests[r].paper
  BY DEF Compares
<1>1. Ratio(r, q)' = ratio
  BY ComparesStay
<1>2. Compared(r)
  BY DEF Compared
<1>3. FlaggedAt(p, ratio)
  BY <1>1, <1>2 DEF EarlierCompared
<1>4. FlaggedAt(p, ratio)'
  BY <1>3, FlaggedStays
<1> QED
  BY <1>1, <1>4 DEF FlaggedAt

-----------------------------------------------------------------------------
(* Steps of the transactions.                                              *)

\* A step of r that leaves its transaction as t.
Leaves(r, t) == requests' = [requests EXCEPT ![r] = t]

\* A step of r that commits nothing.
LEMMA UncommittedStep ==
  ASSUME DInv, NEW r \in Requests, NEW t \in Request, Leaves(r, t),
         UNCHANGED <<papers, candidates, reviews>>,
         Underway(r)', Compares(r)', EarlierCompared(r)',
         \A s \in Requests \ {r} :
           Active(s) /\ t.pc \in {"search", "commit"} => t.paper # requests[s].paper
  PROVE DInv'
<1>1. requests'[r] = t /\ \A s \in Requests : s # r => requests'[s] = requests[s]
  BY DEF Leaves, DInv, Typed
<1>2. Typed' /\ Committed'
  BY DEF Leaves, DInv, Typed, Committed
<1>3. CommittedGrows
  BY DEF CommittedGrows
<1>4. ASSUME NEW s \in Requests, s # r
      PROVE Underway(s)' /\ Compares(s)' /\ EarlierCompared(s)'
  <2>1. requests'[s] = requests[s]
    BY <1>1, <1>4
  <2>2. Typed /\ Underway(s) /\ Compares(s) /\ EarlierCompared(s)
    BY DEF DInv, EarlierIsCompared, EarlierCompared
  <2>3. Underway(s)'
    BY <1>1, <1>4, <2>1, <2>2 DEF Underway, Active
  <2> QED
    BY <1>3, <2>1, <2>2, <2>3, ComparesStay, EarlierStays
<1>5. EarlierIsCompared'
  BY <1>4 DEF EarlierIsCompared, EarlierCompared
<1>6. \A v \in Reviewers : Reviewed(v)'
  BY DEF DInv, Reviewed, Last
<1> QED
  BY <1>2, <1>4, <1>5, <1>6 DEF DInv

LEMMA BeginStep ==
  ASSUME DInv, NEW r \in Requests, NEW p \in Papers, NEW title \in Titles \cup {None},
         NEW repeat \in BOOLEAN, Begin(r, p, title, repeat)
  PROVE DInv'
<1> PICK row : row = Registered(p, title, repeat)
  OBVIOUS
<1> PICK pc : pc = IF papers[p].there THEN "commit" ELSE "search"
  OBVIOUS
<1> PICK fresh : fresh = ~papers[p].there
  OBVIOUS
<1> PICK before : before = Titled
  OBVIOUS
<1> DEFINE t == [NewRequest EXCEPT !.pc = pc, !.paper = p, !.row = row, !.fresh = fresh,
                                   !.before = before]
<1>1. Leaves(r, t)
  BY DEF Begin, Leaves
<1>2. /\ t.pc = pc /\ t.paper = p /\ t.row = row /\ t.fresh = fresh /\ t.before = before
      /\ t.match = None /\ t.score = 0
  BY DEF NewRequest
<1>3. /\ Typed /\ TitleOK(papers[p]) /\ papers[p] \in Paper
      /\ repeat => papers[p].there
  BY DEF DInv, Typed, Committed, Begin
<1>4. /\ row \in Paper /\ TitleOK(row) /\ row.there
      /\ papers[p].norm # None => row.norm = papers[p].norm
  <2>1. CASE papers[p].there /\ (repeat \/ ~Adopts(p, title))
    BY <1>3, <2>1 DEF Registered
  <2>2. CASE ~(papers[p].there /\ (repeat \/ ~Adopts(p, title)))
    <3>1. row = [there |-> TRUE, title |-> title, norm |-> NormalTitle(title)]
      BY <2>2 DEF Registered
    <3>2. papers[p].norm = None
      BY <1>3, <2>2 DEF Adopts, TitleOK
    <3> QED
      BY <3>1, <3>2, NormTypes DEF Paper, TitleOK
  <2> QED
    BY <2>1, <2>2
<1>5. t \in Request
  <2>1. before \in SUBSET Papers /\ pc \in {"search", "commit"} /\ fresh \in BOOLEAN
    BY DEF Titled
  <2> QED
    BY <1>4, <2>1 DEF NewRequest, Request
<1> HIDE DEF t
<1>6. requests'[r] = t /\ \A s \in Requests : s # r => requests'[s] = requests[s]
  BY <1>1, <1>3 DEF Leaves, Typed
<1>7. UNCHANGED <<papers, candidates, reviews>> /\ requests[r].pc = "new"
  BY DEF Begin
<1>8. \A s \in Requests \ {r} : Active(s) => requests[s].paper # p
  BY DEF Begin, Locked, Active
<1>9. Underway(r)'
  BY <1>2, <1>4, <1>6, <1>7, <1>8, ZenonT(30) DEF Underway, Active
<1>10. Compares(r)'
  <2>1. fresh => p \notin before
    BY <1>3 DEF Titled, TitleOK
  <2>2. pc \in {"search", "commit"} /\ (pc = "search" => fresh) /\ (pc = "commit" => ~fresh)
    OBVIOUS
  <2>3. before = Titled'
    BY <1>7 DEF Titled
  <2> QED
    BY <1>2, <1>6, <2>1, <2>2, <2>3 DEF Compares, Active
<1>11. EarlierCompared(r)'
  BY <1>2, <1>6 DEF EarlierCompared
<1> QED
  BY <1>1, <1>2, <1>5, <1>7, <1>8, <1>9, <1>10, <1>11, UncommittedStep

LEMMA FindStep ==
  ASSUME DInv, NEW r \in Requests, FindPossibleDuplicate(r)
  PROVE DInv'
<1> PICK t0 \in Request : t0 = requests[r]
  BY DEF DInv, Typed
<1>1. /\ t0.pc = "search" /\ Typed /\ Underway(r) /\ Compares(r)
      /\ t0.match = None /\ t0.fresh
      /\ UNCHANGED <<papers, candidates, reviews>>
  BY DEF FindPossibleDuplicate, DInv, Compares
<1>2. PICK match, score :
        /\ Leaves(r, [t0 EXCEPT !.pc = "commit", !.match = match, !.score = score])
        /\ \/ Similar(r) = {} /\ match = None /\ score = t0.score
           \/ match \in Papers /\ BestMatch(r, match) /\ score = Ratio(r, match)
  <2>1. CASE /\ Similar(r) = {}
             /\ requests' = [requests EXCEPT ![r].pc = "commit"]
    <3>1. Leaves(r, [t0 EXCEPT !.pc = "commit", !.match = None, !.score = t0.score])
      <4>1. [t0 EXCEPT !.pc = "commit", !.match = None, !.score = t0.score]
              = [t0 EXCEPT !.pc = "commit"]
        BY <1>1 DEF Request
      <4> QED
        BY <2>1, <4>1 DEF Leaves
    <3> QED
      BY <2>1, <3>1
  <2>2. CASE \E q \in Papers :
               /\ BestMatch(r, q)
               /\ requests' = [requests EXCEPT ![r].pc = "commit", ![r].match = q,
                                               ![r].score = Ratio(r, q)]
    BY <2>2 DEF Leaves
  <2> QED
    BY <2>1, <2>2 DEF FindPossibleDuplicate
<1> DEFINE t == [t0 EXCEPT !.pc = "commit", !.match = match, !.score = score]
<1>3. /\ t.pc = "commit" /\ t.match = match /\ t.score = score /\ t.paper = t0.paper
      /\ t.row = t0.row /\ t.fresh = t0.fresh /\ t.before = t0.before
  BY DEF Request
<1>4. match # None =>
        /\ match \in Similar(r) /\ score = Ratio(r, match) /\ match \in Papers
        /\ \A q \in Similar(r) : Ratio(r, q) <= score
  BY <1>2 DEF BestMatch
<1>5. ASSUME match # None
      PROVE Compared(r) /\ match \in Titled \ {t0.paper} /\ score >= Threshold
  BY <1>4, <1>5 DEF Similar
<1>6. match \in Papers \cup {None} /\ score \in Nat
  <2>1. CASE Similar(r) = {} /\ match = None /\ score = t0.score
    BY <2>1 DEF Request
  <2>2. CASE match \in Papers /\ BestMatch(r, match) /\ score = Ratio(r, match)
    <3>1. Compared(r) /\ match \in Titled
      BY <2>2 DEF BestMatch, Similar
    <3> QED
      BY <1>1, <2>2, <3>1, RatioTypes
  <2> QED
    BY <1>2, <2>1, <2>2
<1>7. t \in Request
  BY <1>6 DEF Request
<1>8. Leaves(r, t)
  BY <1>2
<1> HIDE DEF t
<1>9. requests'[r] = t /\ \A s \in Requests : s # r => requests'[s] = requests[s]
  BY <1>1, <1>8 DEF Leaves, Typed
<1>10. \A s \in Requests \ {r} : Active(s) => requests[s].paper # t0.paper
  BY <1>1 DEF Underway, Active
<1>11. Underway(r)'
  BY <1>1, <1>3, <1>9, <1>10 DEF Underway, Active
<1>12. \A q : Ratio(r, q)' = Ratio(r, q)
  BY <1>1, <1>3, <1>9 DEF Ratio
<1>13. Compared(r)' = Compared(r) /\ Titled' = Titled
  BY <1>1, <1>3, <1>9 DEF Compared, Titled
<1>14. Compares(r)'
  <2>1. ASSUME Compared(r), NEW q \in t0.before, Ratio(r, q) >= Threshold
        PROVE match # None /\ score >= Ratio(r, q)
    <3>1. q \in Titled \ {t0.paper} /\ q \in Papers
      BY <1>1 DEF Compares, Active, Titled
    <3>2. q \in Similar(r)
      BY <2>1, <3>1 DEF Similar
    <3>3. match # None
      BY <1>2, <3>2, DuplicateAssumption DEF DuplicateAssumption
    <3>4. Ratio(r, q) \in Nat
      BY <1>1, <2>1, <3>1, RatioTypes
    <3> QED
      BY <1>4, <1>6, <3>2, <3>3, <3>4
  <2>2. match # None => score = Ratio(r, match)
    BY <1>4
  <2>3. t.match # None =>
          /\ t.fresh /\ Compared(r)'
          /\ t.match \in Titled' \ {t.paper}
          /\ t.score >= Threshold
          /\ t.score = Ratio(r, t.match)'
    BY <1>1, <1>3, <1>5, <1>12, <1>13, <2>2
  <2>4. Compared(r)' =>
          \A q \in t.before :
            Ratio(r, q)' >= Threshold => t.match # None /\ t.score >= Ratio(r, q)'
    BY <1>3, <1>12, <1>13, <2>1
  <2>5. t.before \subseteq Titled' /\ t.paper \notin t.before
    BY <1>1, <1>3, <1>13 DEF Compares, Active
  <2>6. Ratio(r, t.match)' = Ratio(r, requests[r].match)'
    BY <1>9 DEF Ratio
  <2> QED
    BY <1>3, <1>9, <2>3, <2>4, <2>5 DEF Compares, Ratio
<1>15. EarlierCompared(r)'
  BY <1>3, <1>9 DEF EarlierCompared
<1> QED
  BY <1>1, <1>3, <1>7, <1>8, <1>10, <1>11, <1>14, <1>15, UncommittedStep

LEMMA DieStep ==
  ASSUME DInv, NEW r \in Requests, Die(r)
  PROVE DInv'
<1> PICK t0 \in Request : t0 = requests[r]
  BY DEF DInv, Typed
<1> DEFINE t == [t0 EXCEPT !.pc = "dead"]
<1>1. Typed /\ Compares(r) /\ UNCHANGED <<papers, candidates, reviews>>
  BY DEF Die, DInv
<1>2. t.pc = "dead" /\ t.before = t0.before /\ t \in Request
  BY DEF Request
<1>3. Leaves(r, t)
  BY DEF Die, Leaves
<1> HIDE DEF t
<1>4. requests'[r] = t
  BY <1>1, <1>3 DEF Leaves, Typed
<1>5. Underway(r)' /\ Compares(r)' /\ EarlierCompared(r)'
  BY <1>1, <1>2, <1>4 DEF Underway, Active, Compares, Titled, EarlierCompared
<1> QED
  BY <1>1, <1>2, <1>3, <1>5, UncommittedStep

LEMMA CommitStep ==
  ASSUME DInv, NEW r \in Requests, Commit(r)
  PROVE DInv'
<1> PICK t0 \in Request : t0 = requests[r]
  BY DEF DInv, Typed
<1> PICK p : p = t0.paper
  OBVIOUS
<1> PICK q0 : q0 = t0.match
  OBVIOUS
<1> DEFINE t == [t0 EXCEPT !.pc = "done"]
           new == [status |-> "pending", score |-> t0.score]
<1>1. /\ t0.pc = "commit" /\ Typed /\ Committed /\ Underway(r) /\ Compares(r)
      /\ papers' = [papers EXCEPT ![p] = t0.row]
      /\ candidates' = CreateCandidate(r)
      /\ UNCHANGED reviews
  BY DEF Commit, DInv
<1>2. /\ p \in Papers /\ TitleOK(t0.row) /\ t0.row.there
      /\ papers[p].norm # None => t0.row.norm = papers[p].norm
      /\ t0.fresh => ~papers[p].there
      /\ \A s \in Requests \ {r} : Active(s) => requests[s].paper # p
  BY <1>1 DEF Underway, Active
<1>3. /\ t.pc = "done" /\ t.before = t0.before /\ t.paper = p /\ t.row = t0.row
      /\ t.fresh = t0.fresh /\ t \in Request
  BY DEF Request
<1>4. Leaves(r, t)
  BY DEF Commit, Leaves
<1> HIDE DEF t
<1>5. requests'[r] = t /\ \A s \in Requests : s # r => requests'[s] = requests[s]
  BY <1>1, <1>4 DEF Leaves, Typed
<1>6. papers'[p] = t0.row /\ \A q \in Papers : q # p => papers'[q] = papers[q]
  BY <1>1, <1>2 DEF Typed
<1>7. q0 # None =>
        /\ t0.fresh /\ Compared(r) /\ q0 \in Titled \ {p} /\ q0 \in Papers
        /\ t0.score >= Threshold /\ t0.score = Ratio(r, q0)
        /\ {p, q0} \in Pairs
  <2>1. q0 # None =>
          /\ t0.fresh /\ Compared(r) /\ q0 \in Titled \ {p} /\ q0 \in Papers
          /\ t0.score >= Threshold /\ t0.score = Ratio(r, q0)
    BY <1>1 DEF Compares, Titled
  <2> QED
    BY <1>2, <2>1, PairOf
<1>8. q0 # None => candidates[{p, q0}] = NoCandidate
  BY <1>1, <1>2, <1>7 DEF Committed
<1>9. \/ q0 = None /\ candidates' = candidates
      \/ q0 # None /\ candidates' = [candidates EXCEPT ![{p, q0}] = new]
  BY <1>1, <1>8 DEF CreateCandidate
<1>10. new # NoCandidate /\ new \in Candidate /\ new.score = t0.score /\ new.status = "pending"
  BY DEF NoCandidate, Candidate, ReviewStatuses, Request
<1>11. \A pair \in Pairs :
          \/ candidates'[pair] = candidates[pair]
          \/ q0 # None /\ pair = {p, q0} /\ candidates'[pair] = new
  BY <1>1, <1>7, <1>9 DEF Typed
<1>12. CommittedGrows
  <2>1. \A q \in Papers : papers[q].norm # None => papers'[q].norm = papers[q].norm
    BY <1>2, <1>6
  <2>2. ASSUME NEW pair \in Pairs, candidates[pair] # NoCandidate
        PROVE candidates'[pair] = candidates[pair]
    BY <1>8, <1>11, <2>2
  <2> QED
    BY <2>1, <2>2 DEF CommittedGrows
<1>13. Typed'
  <2>1. t0.row \in Paper
    BY DEF Request
  <2> QED
    BY <1>1, <1>3, <1>4, <1>9, <1>10, <2>1 DEF Typed, Leaves
<1>14. Committed'
  <2>1. \A q \in Papers : TitleOK(papers'[q])
    BY <1>1, <1>2, <1>6 DEF Committed
  <2>2. ASSUME NEW a \in Papers, NEW b \in Papers, a # b, candidates'[{a, b}] # NoCandidate
        PROVE /\ papers'[a].there /\ papers'[a].norm # None
              /\ candidates'[{a, b}].score >= Threshold
              /\ candidates'[{a, b}].score
                   \in {Score[<<papers'[a].norm, papers'[b].norm>>],
                        Score[<<papers'[b].norm, papers'[a].norm>>]}
    <3>1. {a, b} \in Pairs
      BY <2>2, PairOf
    <3>2. CASE candidates'[{a, b}] = candidates[{a, b}]
      <4>1. /\ papers[a].there /\ papers[a].norm # None
            /\ papers[b].norm # None
            /\ candidates[{a, b}].score >= Threshold
            /\ candidates[{a, b}].score
                 \in {Score[<<papers[a].norm, papers[b].norm>>],
                      Score[<<papers[b].norm, papers[a].norm>>]}
        <5>1. {a, b} = {b, a}
          OBVIOUS
        <5> QED
          BY <1>1, <2>2, <3>2, <5>1 DEF Committed
      <4>2. papers'[a].norm = papers[a].norm /\ papers'[b].norm = papers[b].norm
        BY <4>1, <1>12 DEF CommittedGrows
      <4>3. papers'[a].there
        BY <1>2, <1>6, <4>1
      <4> QED
        BY <3>2, <4>1, <4>2, <4>3
    <3>3. CASE q0 # None /\ {a, b} = {p, q0} /\ candidates'[{a, b}] = new
      <4>1. /\ papers'[q0] = papers[q0] /\ papers[q0].norm # None
            /\ papers'[p].norm # None /\ papers'[p].there
        BY <1>2, <1>6, <1>7, <3>3 DEF Titled, Compared
      <4>2. papers[q0].there
        BY <1>1, <1>7, <3>3, <4>1 DEF Committed, TitleOK
      <4>3. t0.score = Score[<<papers'[p].norm, papers'[q0].norm>>]
        BY <1>6, <1>7, <3>3, <4>1 DEF Ratio
      <4>4. (a = p /\ b = q0) \/ (a = q0 /\ b = p)
        BY <2>2, <3>3
      <4>5. candidates'[{a, b}].score = t0.score
        BY <1>10, <3>3
      <4> QED
        BY <1>7, <3>3, <4>1, <4>2, <4>3, <4>4, <4>5
    <3> QED
      BY <1>11, <3>1, <3>2, <3>3
  <2>3. ASSUME NEW pair \in Pairs, candidates'[pair] # NoCandidate
        PROVE candidates'[pair].status # "none"
    BY <1>1, <1>10, <1>11, <2>3 DEF Committed
  <2> QED
    BY <2>1, <2>2, <2>3 DEF Committed
<1>15. ASSUME NEW s \in Requests, s # r
       PROVE Underway(s)' /\ Compares(s)' /\ EarlierCompared(s)'
  <2>1. requests'[s] = requests[s]
    BY <1>5, <1>15
  <2>2. Typed /\ Underway(s) /\ Compares(s) /\ EarlierCompared(s)
    BY DEF DInv, EarlierIsCompared, EarlierCompared
  <2>3. Active(s) => papers'[requests[s].paper] = papers[requests[s].paper]
    BY <1>2, <1>6, <1>15, <2>2 DEF Underway
  <2>4. \A u \in Requests : Active(u)' => Active(u) /\ requests'[u] = requests[u]
    BY <1>3, <1>5 DEF Active
  <2>5. Underway(s)'
    BY <2>1, <2>2, <2>3, <2>4 DEF Underway
  <2> QED
    BY <1>12, <2>1, <2>2, <2>5, ComparesStay, EarlierStays
<1>16. Underway(r)' /\ Compares(r)'
  <2>1. Titled \subseteq Titled'
    BY <1>12 DEF CommittedGrows, Titled
  <2> QED
    BY <1>1, <1>2, <1>3, <1>5, <2>1 DEF Underway, Active, Compares
<1>17. EarlierCompared(r)'
  <2> SUFFICES ASSUME t0.fresh, Compared(r)', NEW q \in t0.before,
                      Ratio(r, q)' >= Threshold
               PROVE FlaggedAt(p, Ratio(r, q))'
    BY <1>3, <1>5 DEF EarlierCompared
  <2> PICK ratio : ratio = Ratio(r, q)
    OBVIOUS
  <2>1. q \in Titled /\ q \in Papers
    BY <1>1 DEF Compares, Titled
  <2>2. Ratio(r, q)' = ratio
    BY <1>3, <1>5, <1>12, <2>1 DEF Ratio, CommittedGrows, Titled
  <2>3. Compared(r)
    BY <1>3, <1>5 DEF Compared
  <2>4. q0 # None /\ t0.score >= ratio
    BY <1>1, <2>2, <2>3 DEF Compares
  <2>5. candidates'[{p, q0}] = new
    BY <1>1, <1>7, <1>9, <2>4 DEF Typed
  <2>6. FlaggedAt(p, ratio)'
    BY <1>7, <1>10, <2>4, <2>5, ZenonT(30) DEF FlaggedAt
  <2> QED
    BY <2>2, <2>6 DEF FlaggedAt
<1>18. EarlierIsCompared'
  BY <1>15, <1>17 DEF EarlierIsCompared, EarlierCompared
<1>19. ASSUME NEW v \in Reviewers
       PROVE Reviewed(v)'
  <2>1. Reviewed(v)
    BY DEF DInv
  <2>2. reviews[v].pc # "new" =>
          candidates'[reviews[v].pair] = candidates[reviews[v].pair]
    BY <1>8, <1>11, <2>1 DEF Reviewed
  <2> QED
    BY <1>1, <2>1, <2>2 DEF Reviewed, Last
<1> QED
  BY <1>13, <1>14, <1>15, <1>16, <1>18, <1>19 DEF DInv

-----------------------------------------------------------------------------
(* Steps of the reviewers.                                                 *)

\* A step of v that leaves its review as t, and at most the status of one
\* candidate changed.
LEMMA ReviewStep ==
  ASSUME DInv, NEW v \in Reviewers, NEW t \in Review,
         reviews' = [reviews EXCEPT ![v] = t], UNCHANGED <<papers, requests>>,
         candidates' \in [Pairs -> Candidate],
         \A pair \in Pairs :
           /\ candidates'[pair].score = candidates[pair].score
           /\ candidates'[pair].status = "none" <=> candidates[pair].status = "none"
           /\ candidates'[pair] = candidates[pair] \/ candidates'[pair].status # "none",
         \A u \in Reviewers : Reviewed(u)'
  PROVE DInv'
<1>1. Typed /\ Committed
  BY DEF DInv
<1>2. \A pair \in Pairs :
         candidates'[pair] # NoCandidate <=> candidates[pair] # NoCandidate
  BY <1>1 DEF Committed, NoCandidate, Typed, Candidate
<1>3. CommittedGrows
  BY <1>2 DEF CommittedGrows
<1>4. Typed'
  BY <1>1 DEF Typed
<1>5. Committed'
  <2>1. \A p, q \in Papers : p # q => {p, q} \in Pairs
    BY PairOf
  <2>2. \A pair \in Pairs : candidates'[pair] # NoCandidate => candidates'[pair].status # "none"
    BY <1>1, <1>2 DEF Committed
  <2> QED
    BY <1>1, <1>2, <2>1, <2>2, SMTT(30) DEF Committed
<1>6. ASSUME NEW r \in Requests
      PROVE Underway(r)' /\ Compares(r)' /\ EarlierCompared(r)'
  <2>1. Underway(r) /\ Compares(r) /\ EarlierCompared(r) /\ requests'[r] = requests[r]
    BY DEF DInv, EarlierIsCompared, EarlierCompared
  <2>2. Underway(r)'
    BY <2>1 DEF Underway, Active
  <2> QED
    BY <1>1, <1>3, <2>1, <2>2, ComparesStay, EarlierStays
<1> QED
  BY <1>4, <1>5, <1>6 DEF DInv, EarlierIsCompared, EarlierCompared

LEMMA LoadReviewStep ==
  ASSUME DInv, NEW v \in Reviewers, NEW pair \in Pairs, NEW wanted \in ReviewStatuses,
         LoadReview(v, pair, wanted)
  PROVE DInv'
<1> PICK loaded : loaded = candidates[pair].status
  OBVIOUS
<1> PICK before : before = {u \in Reviewers : reviews[u].pc = "done"}
  OBVIOUS
<1> PICK t : t = [pc |-> "loaded", pair |-> pair, loaded |-> loaded, wanted |-> wanted,
                  before |-> before]
  OBVIOUS
<1>1. /\ reviews[v].pc = "new" /\ candidates[pair] # NoCandidate /\ Typed
      /\ reviews' = [reviews EXCEPT ![v] = t]
      /\ UNCHANGED <<papers, candidates, requests>>
  BY DEF LoadReview, DInv
<1>2. t \in Review
  BY <1>1 DEF Typed, Candidate, Review
<1>3. reviews'[v] = t /\ \A u \in Reviewers : u # v => reviews'[u] = reviews[u]
  BY <1>1 DEF Typed
<1>4. ASSUME NEW u \in Reviewers, u # v
      PROVE Reviewed(u)'
  <2>1. Reviewed(u) /\ reviews'[u] = reviews[u]
    BY <1>3, <1>4 DEF DInv
  <2>2. \A x \in reviews[u].before : x \in Reviewers /\ x # v
    BY <1>1, <2>1 DEF Reviewed, Typed, Review
  <2>3. Last(u)' => Last(u)
    BY <1>1, <1>3, <2>1 DEF Last
  <2> QED
    BY <1>1, <1>3, <2>1, <2>2, <2>3 DEF Reviewed
<1>5. Reviewed(v)'
  BY <1>1, <1>3 DEF Reviewed
<1>6. \A u \in Reviewers : Reviewed(u)'
  BY <1>4, <1>5
<1> QED
  BY <1>1, <1>2, <1>6, ReviewStep DEF Typed

LEMMA CommitReviewStep ==
  ASSUME DInv, NEW v \in Reviewers, CommitReview(v)
  PROVE DInv'
<1> PICK t0 \in Review : t0 = reviews[v]
  BY DEF DInv, Typed
<1> PICK t : t = [t0 EXCEPT !.pc = "done"]
  OBVIOUS
<1>1. /\ t0.pc = "loaded" /\ Typed /\ Reviewed(v)
      /\ reviews' = [reviews EXCEPT ![v] = t]
      /\ candidates' = IF t0.wanted # t0.loaded
                       THEN [candidates EXCEPT ![t0.pair].status = t0.wanted]
                       ELSE candidates
      /\ UNCHANGED <<papers, requests>>
  BY DEF CommitReview, Changes, DInv
<1>2. /\ t \in Review /\ t.pc = "done" /\ t.pair = t0.pair /\ t.before = t0.before
      /\ t.wanted = t0.wanted
  BY DEF Review
<1>3. reviews'[v] = t /\ \A u \in Reviewers : u # v => reviews'[u] = reviews[u]
  BY <1>1 DEF Typed
<1>4. /\ t0.pair \in Pairs /\ candidates[t0.pair] # NoCandidate
      /\ candidates[t0.pair].status # "none" /\ t0.wanted # "none"
      /\ t0.wanted \in ReviewStatuses
  BY <1>1 DEF Reviewed, DInv, Committed, Review, ReviewStatuses
<1>5. /\ candidates' \in [Pairs -> Candidate]
      /\ \A pair \in Pairs : pair # t0.pair => candidates'[pair] = candidates[pair]
      /\ candidates'[t0.pair].score = candidates[t0.pair].score
      /\ candidates'[t0.pair].status = IF t0.wanted # t0.loaded THEN t0.wanted
                                       ELSE candidates[t0.pair].status
  BY <1>1, <1>4 DEF Typed, Candidate
<1>6. candidates'[t0.pair] # NoCandidate
  BY <1>4, <1>5 DEF NoCandidate
<1>7. ASSUME NEW u \in Reviewers, u # v
      PROVE Reviewed(u)'
  <2>1. Reviewed(u) /\ reviews'[u] = reviews[u] /\ v \notin reviews[u].before
    BY <1>1, <1>3, <1>7 DEF DInv, Reviewed
  <2>2. \A x \in reviews[u].before : reviews'[x].pc = "done"
    BY <1>1, <1>3, <2>1 DEF Reviewed, Typed, Review
  <2>3. CASE reviews[u].pair = t0.pair /\ reviews[u].pc # "new"
    <3>1. ~Last(u)'
      <4>1. /\ v \in Reviewers \ {u} /\ reviews'[v].pc # "new"
            /\ reviews'[v].pair = reviews'[u].pair /\ v \notin reviews'[u].before
        BY <1>2, <1>3, <1>7, <2>1, <2>3
      <4> QED
        BY <4>1 DEF Last
    <3> QED
      BY <1>4, <1>6, <2>1, <2>2, <2>3, <3>1 DEF Reviewed
  <2>4. CASE reviews[u].pair # t0.pair \/ reviews[u].pc = "new"
    <3>1. Last(u)' => Last(u)
      BY <1>1, <1>2, <1>3, <2>1 DEF Last
    <3>2. reviews[u].pc # "new" => candidates'[reviews[u].pair] = candidates[reviews[u].pair]
      BY <1>5, <2>1, <2>4 DEF Reviewed
    <3> QED
      BY <2>1, <2>2, <3>1, <3>2 DEF Reviewed
  <2> QED
    BY <2>3, <2>4
<1>8. Reviewed(v)'
  <2>1. Last(v)' => Last(v)
    BY <1>2, <1>3 DEF Last
  <2>2. Last(v)' => candidates'[t0.pair].status = t0.wanted
    BY <1>1, <1>5, <2>1 DEF Reviewed
  <2>3. \A x \in t0.before : reviews'[x].pc = "done"
    BY <1>1, <1>2, <1>3 DEF Reviewed, Review
  <2> QED
    BY <1>2, <1>3, <1>4, <1>6, <2>2, <2>3 DEF Reviewed
<1>9. \A u \in Reviewers : Reviewed(u)'
  BY <1>7, <1>8
<1>10. \A pair \in Pairs :
         /\ candidates'[pair].score = candidates[pair].score
         /\ candidates'[pair].status = "none" <=> candidates[pair].status = "none"
         /\ candidates'[pair] = candidates[pair] \/ candidates'[pair].status # "none"
  BY <1>4, <1>5
<1> QED
  BY <1>1, <1>2, <1>5, <1>9, <1>10, ReviewStep

-----------------------------------------------------------------------------
(* The invariant.                                                          *)

LEMMA DuplicateInit == Init => DInv
<1> SUFFICES ASSUME Init
             PROVE DInv
  OBVIOUS
<1>1. NoPaper \in Paper /\ TitleOK(NoPaper)
  BY NormTypes DEF NoPaper, Paper, TitleOK
<1>2. NoCandidate \in Candidate
  BY DEF NoCandidate, Candidate
<1>3. NewRequest \in Request /\ NewRequest.pc = "new" /\ NewRequest.before = {}
  BY <1>1 DEF NewRequest, Request
<1>4. NewReview \in Review /\ NewReview.pc = "new" /\ NewReview.before = {}
  BY DEF NewReview, Review, ReviewStatuses
<1>5. Typed
  BY <1>1, <1>2, <1>3, <1>4 DEF Init, Typed
<1>6. Committed
  <2>1. \A p, q \in Papers : p # q => {p, q} \in Pairs
    BY PairOf
  <2> QED
    BY <1>1, <2>1 DEF Init, Committed
<1>7. \A r \in Requests : Underway(r) /\ Compares(r)
  BY <1>3 DEF Init, Underway, Compares, Active
<1>8. EarlierIsCompared
  BY <1>3 DEF Init, EarlierIsCompared
<1>9. \A v \in Reviewers : Reviewed(v)
  BY <1>4 DEF Init, Reviewed
<1> QED
  BY <1>5, <1>6, <1>7, <1>8, <1>9 DEF DInv

LEMMA StutterStep ==
  ASSUME DInv, UNCHANGED vars
  PROVE DInv'
<1>1. UNCHANGED <<papers, candidates, requests, reviews>> /\ Typed
  BY DEF vars, DInv
<1>2. Typed' /\ Committed' /\ EarlierIsCompared'
  BY <1>1 DEF DInv, Typed, Committed, EarlierIsCompared, Compared, Ratio, FlaggedAt
<1>3. CommittedGrows
  BY <1>1 DEF CommittedGrows
<1>4. \A r \in Requests : Compares(r)'
  BY <1>1, <1>3, ComparesStay DEF DInv
<1>5. \A r \in Requests : Underway(r)'
  BY <1>1 DEF DInv, Underway, Active
<1>6. \A v \in Reviewers : Reviewed(v)'
  BY <1>1 DEF DInv, Reviewed, Last
<1> QED
  BY <1>2, <1>4, <1>5, <1>6 DEF DInv

\* Transactions and reviewers agree with the tables, in any order of steps.
THEOREM DuplicateInvariant == Spec => []DInv
<1>1. Init => DInv
  BY DuplicateInit
<1>2. DInv /\ [Next]_vars => DInv'
  <2> SUFFICES ASSUME DInv, [Next]_vars
               PROVE DInv'
    OBVIOUS
  <2>1. CASE UNCHANGED vars
    BY <2>1, StutterStep
  <2>2. ASSUME NEW r \in Requests, NEW p \in Papers, NEW title \in Titles \cup {None},
               NEW repeat \in BOOLEAN, Begin(r, p, title, repeat)
        PROVE DInv'
    BY <2>2, BeginStep
  <2>3. ASSUME NEW r \in Requests, FindPossibleDuplicate(r) \/ Commit(r) \/ Die(r)
        PROVE DInv'
    BY <2>3, FindStep, CommitStep, DieStep
  <2>4. ASSUME NEW v \in Reviewers, NEW pair \in Pairs, NEW wanted \in ReviewStatuses,
               LoadReview(v, pair, wanted)
        PROVE DInv'
    BY <2>4, LoadReviewStep
  <2>5. ASSUME NEW v \in Reviewers, CommitReview(v)
        PROVE DInv'
    BY <2>5, CommitReviewStep
  <2> QED
    BY <2>1, <2>2, <2>3, <2>4, <2>5 DEF Next, Quiescent
<1> QED
  BY <1>1, <1>2, PTL DEF Spec

\* A new paper that has a title is compared with every paper whose title was
\* there before it (_register, find_possible_duplicate).
THEOREM EarlierPapersAreCompared == Spec => []EarlierIsCompared
<1>1. DInv => EarlierIsCompared
  BY DEF DInv
<1> QED
  BY <1>1, DuplicateInvariant, PTL

\* The score of a candidate is that of the titles the two papers still have
\* (create_candidate, _register).
THEOREM CandidatesAreTrue == Spec => []CandidatesStayTrue
<1>1. DInv => CandidatesStayTrue
  <2> SUFFICES ASSUME DInv, NEW p \in Papers, NEW q \in Papers, p # q,
                      candidates[{p, q}] # NoCandidate
               PROVE /\ papers[p].there /\ papers[q].there
                     /\ candidates[{p, q}].score >= Threshold
                     /\ candidates[{p, q}].score
                          \in {Score[<<papers[p].norm, papers[q].norm>>],
                               Score[<<papers[q].norm, papers[p].norm>>]}
    BY DEF CandidatesStayTrue
  <2>1. {p, q} = {q, p}
    OBVIOUS
  <2>2. papers[q].there
    BY <2>1 DEF DInv, Committed
  <2> QED
    BY <2>2 DEF DInv, Committed
<1> QED
  BY <1>1, DuplicateInvariant, PTL

\* A reviewer that began after every other reviewer of the candidate was
\* answered has the last word (update_duplicate).
THEOREM LastReviewStands == Spec => []ReviewStands
<1>1. DInv => ReviewStands
  BY DEF DInv, Reviewed, Last, ReviewStands
<1> QED
  BY <1>1, DuplicateInvariant, PTL
=============================================================================
