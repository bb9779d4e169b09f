------------------------- MODULE DuplicateDetection -------------------------
(***************************************************************************)
(* Possible duplicates among registered papers.  The transaction that      *)
(* registers a new paper compares its normalised title with those of the   *)
(* other papers it can see, and records the best match as a candidate.     *)
(* Later transactions may give a paper its first title, and reviewers set  *)
(* the status of candidates through PATCH /v1/duplicates/{id}.             *)
(*                                                                         *)
(* A transaction sees what is committed (READ COMMITTED) and holds the     *)
(* advisory lock of its paper_id.  Conflicts on DOI and arXiv id, versions *)
(* and synchronisation are in module Ingestion.                            *)
(***************************************************************************)
EXTENDS Naturals, FiniteSets

CONSTANTS Papers,      \* paper_id of the submissions
          Requests,    \* submissions, one transaction each
          Reviewers,   \* calls of PATCH /v1/duplicates/{id}
          None,        \* no title, no match
          Titles,      \* titles as submitted
          Blank,       \* the normalised title without a letter or digit
          Normal,      \* [Titles -> normalised titles]
          Score,       \* SequenceMatcher's ratio of two normalised titles
          Threshold,   \* 0.92
          MaxDeaths    \* bound on transactions lost with their process

Norms == {Normal[t] : t \in Titles} \cup {Blank}

ASSUME DuplicateAssumption ==
  /\ None \notin Titles \cup Norms \cup Papers
  /\ Score \in [Norms \X Norms -> Nat]
  /\ Threshold \in Nat \ {0}
  /\ MaxDeaths \in Nat

VARIABLES papers,      \* the table papers: canonical and normalised titles
          candidates,  \* the table duplicate_candidates, by pair
          requests,    \* the transactions of registrations
          reviews,     \* the calls of reviewers
          deaths

vars == <<papers, candidates, requests, reviews, deaths>>

Pairs == {pair \in SUBSET Papers : \E p, q \in Papers : p # q /\ pair = {p, q}}
ReviewStatuses == {"pending", "confirmed", "rejected", "merged"}

NoPaper == [there |-> FALSE, title |-> None, norm |-> None]
NoCandidate == [status |-> "none", score |-> 0]

(* "fresh" tells a registration from a new version; "before" are the       *)
(* papers whose titles were committed when the transaction took its lock.  *)
NewRequest == [pc |-> "new", paper |-> None, row |-> NoPaper, fresh |-> FALSE,
               before |-> {}, match |-> None, score |-> 0]

(* "before" are the reviewers that had their answer when this one began.   *)
NewReview == [pc |-> "new", pair |-> {}, loaded |-> "pending",
              wanted |-> "pending", before |-> {}]

Init ==
  /\ papers = [p \in Papers |-> NoPaper]
  /\ candidates = [pair \in Pairs |-> NoCandidate]
  /\ requests = [r \in Requests |-> NewRequest]
  /\ reviews = [v \in Reviewers |-> NewReview]
  /\ deaths = 0

(* normalize_title: lower case, every run of other characters than a-z and *)
(* 0-9 a blank.  A title in another script leaves nothing behind.          *)
NormalTitle(title) == IF title = None THEN None ELSE Normal[title]

Locked(p) == \E r \in Requests : /\ requests[r].pc \in {"search", "commit"}
                                 /\ requests[r].paper = p

Titled == {p \in Papers : papers[p].norm # None}

(* A new version that always brings its title along.                       *)
AdoptsAlways(p, title) == title # None

(* A paper takes the title of a new version if it had none.                *)
Adopts(p, title) == title # None /\ papers[p].title = None

(* The row of the paper as the transaction leaves it: a new paper, a new   *)
(* version, or (with the content unchanged) the row as it was.             *)
Registered(p, title, repeat) ==
  IF papers[p].there /\ (repeat \/ ~Adopts(p, title))
  THEN papers[p]
  ELSE [there |-> TRUE, title |-> title, norm |-> NormalTitle(title)]

(* _register up to the search: lock, read the paper, flush the new row.    *)
Begin(r, p, title, repeat) ==
  /\ requests[r].pc = "new"
  /\ ~Locked(p)
  /\ repeat => papers[p].there
  /\ requests' = [requests EXCEPT ![r] =
       [NewRequest EXCEPT !.pc = IF papers[p].there THEN "commit" ELSE "search",
                          !.paper = p,
                          !.row = Registered(p, title, repeat),
                          !.fresh = ~papers[p].there,
                          !.before = Titled]]
  /\ UNCHANGED <<papers, candidates, reviews, deaths>>

Ratio(r, q) == Score[<<requests[r].row.norm, papers[q].norm>>]

Compared(r) == requests[r].row.norm \notin {None, Blank}

Similar(r) ==
  IF Compared(r)
  THEN {q \in Titled \ {requests[r].paper} : Ratio(r, q) >= Threshold}
  ELSE {}

(* A search that stops at the first match.                                 *)
FirstMatch(r, q) == q \in Similar(r)

(* The rows come in no particular order, so of several best matches any.   *)
BestMatch(r, q) ==
  /\ q \in Similar(r)
  /\ \A other \in Similar(r) : Ratio(r, other) <= Ratio(r, q)

(* find_possible_duplicate                                                 *)
FindPossibleDuplicate(r) ==
  /\ requests[r].pc = "search"
  /\ \/ /\ Similar(r) = {}
        /\ requests' = [requests EXCEPT ![r].pc = "commit"]
     \/ \E q \in Papers :
          /\ BestMatch(r, q)
          /\ requests' = [requests EXCEPT ![r].pc = "commit",
                                          ![r].match = q,
                                          ![r].score = Ratio(r, q)]
  /\ UNCHANGED <<papers, candidates, reviews, deaths>>

(* create_candidate: the pair is sorted, and one already there is kept.    *)
CreateCandidate(r) ==
  LET pair == {requests[r].paper, requests[r].match}
  IN  IF requests[r].match = None \/ candidates[pair] # NoCandidate
      THEN candidates
      ELSE [candidates EXCEPT ![pair] = [status |-> "pending",
                                         score |-> requests[r].score]]

(* The commit of submit, after which the client has its answer.            *)
Commit(r) ==
  /\ requests[r].pc = "commit"
  /\ papers' = [papers EXCEPT ![requests[r].paper] = requests[r].row]
  /\ candidates' = CreateCandidate(r)
  /\ requests' = [requests EXCEPT ![r].pc = "done"]
  /\ UNCHANGED <<reviews, deaths>>

(* The process dies and the database rolls the transaction back.           *)
Die(r) ==
  /\ deaths < MaxDeaths
  /\ requests[r].pc \in {"search", "commit"}
  /\ requests' = [requests EXCEPT ![r].pc = "dead"]
  /\ deaths' = deaths + 1
  /\ UNCHANGED <<papers, candidates, reviews>>

(* update_duplicate reads the candidate,                                   *)
LoadReview(v, pair, wanted) ==
  /\ reviews[v].pc = "new"
  /\ candidates[pair] # NoCandidate
  /\ reviews' = [reviews EXCEPT ![v] =
       [pc |-> "loaded", pair |-> pair, loaded |-> candidates[pair].status,
        wanted |-> wanted,
        before |-> {u \in Reviewers : reviews[u].pc = "done"}]]
  /\ UNCHANGED <<papers, candidates, requests, deaths>>

(* A flush that takes a status to be pending until it is told otherwise.   *)
ChangesPending(v) == reviews[v].wanted # "pending"

(* The session writes a column only when it differs from what was read.    *)
Changes(v) == reviews[v].wanted # reviews[v].loaded

(* and commits; the answer repeats the status asked for either way.        *)
CommitReview(v) ==
  /\ reviews[v].pc = "loaded"
  /\ candidates' = IF Changes(v)
                   THEN [candidates EXCEPT ![reviews[v].pair].status = reviews[v].wanted]
                   ELSE candidates
  /\ reviews' = [reviews EXCEPT ![v].pc = "done"]
  /\ UNCHANGED <<papers, requests, deaths>>

(* Everybody has an answer.                                                *)
Quiescent ==
  /\ \A r \in Requests : requests[r].pc \in {"done", "dead"}
  /\ UNCHANGED vars

Next ==
  \/ \E r \in Requests :
       \/ \E p \in Papers, title \in Titles \cup {None}, repeat \in BOOLEAN :
            Begin(r, p, title, repeat)
       \/ FindPossibleDuplicate(r)
       \/ Commit(r)
       \/ Die(r)
  \/ \E v \in Reviewers :
       \/ \E pair \in Pairs, wanted \in ReviewStatuses : LoadReview(v, pair, wanted)
       \/ CommitReview(v)
  \/ Quiescent

Spec == Init /\ [][Next]_vars

-----------------------------------------------------------------------------
(* The tables have their types, and a title is stored with its normalised  *)
(* form.                                                                   *)
TypeOK ==
  /\ \A p \in Papers :
       /\ papers[p].there \in BOOLEAN
       /\ papers[p].title \in Titles \cup {None}
       /\ papers[p].norm = NormalTitle(papers[p].title)
  /\ \A pair \in Pairs : candidates[pair].status \in ReviewStatuses \cup {"none"}
  /\ \A r \in Requests : requests[r].match \in Papers \cup {None}
  /\ deaths \in 0..MaxDeaths

(* Some candidate of p records a ratio of at least this.                   *)
FlaggedAt(p, score) ==
  \E q \in Papers \ {p} : /\ candidates[{p, q}] # NoCandidate
                          /\ candidates[{p, q}].score >= score

(* A new paper is compared with every paper whose title was there before   *)
(* it: if one of them is similar, the paper has a candidate at least as    *)
(* similar.  Two similar papers without one were either registered at the  *)
(* same time, or one of them got its title later (_register).              *)
EarlierIsCompared ==
  \A r \in Requests :
    requests[r].pc = "done" /\ requests[r].fresh /\ Compared(r) =>
      \A q \in requests[r].before :
        Ratio(r, q) >= Threshold => FlaggedAt(requests[r].paper, Ratio(r, q))

(* A candidate names two registered papers, and its score is that of the   *)
(* titles they still have: no later transaction changes a title that was   *)
(* compared, and a transaction that is rolled back takes its candidate     *)
(* with it.                                                                *)
CandidatesStayTrue ==
  \A p, q \in Papers :
    p # q /\ candidates[{p, q}] # NoCandidate =>
      /\ papers[p].there /\ papers[q].there
      /\ candidates[{p, q}].score >= Threshold
      /\ candidates[{p, q}].score \in {Score[<<papers[p].norm, papers[q].norm>>],
                                       Score[<<papers[q].norm, papers[p].norm>>]}

(* A reviewer that began after every other reviewer of the candidate had   *)
(* an answer, has the last word.  (Of two at the same time, one that asks  *)
(* for the status it read writes nothing, whoever is answered last.)       *)
ReviewStands ==
  \A v \in Reviewers :
    /\ reviews[v].pc = "done"
    /\ \A u \in Reviewers \ {v} :
         reviews[u].pc # "new" /\ reviews[u].pair = reviews[v].pair
           => u \in reviews[v].before
    => candidates[reviews[v].pair].status = reviews[v].wanted
=============================================================================
