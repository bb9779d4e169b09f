----------------------------- MODULE JobListing -----------------------------
(***************************************************************************)
(* Listing workflow jobs page by page (GET /v1/workflow-jobs) while other  *)
(* requests commit new jobs and workers move jobs from status to status.   *)
(* Every page is a SELECT of its own, newest creation time first, cut out  *)
(* with OFFSET and LIMIT; nothing ties the pages of one client together.   *)
(*                                                                         *)
(* A row gets its creation time when it is flushed, and becomes visible    *)
(* when its transaction commits, so rows need not become visible in the    *)
(* order of their times.  Creation times are taken to be distinct.         *)
(***************************************************************************)
EXTENDS Naturals, FiniteSets

CONSTANTS Jobs,       \* the jobs requests may create
          Owners,     \* owners of jobs and of clients
          None,       \* no owner, no filter
          Statuses,   \* the statuses of a job
          PageSize,   \* page_size of the client
          MaxMoves    \* bound on the changes of status

ASSUME ListingAssumption ==
  /\ None \notin Owners \cup Statuses
  /\ "queued" \in Statuses
  /\ PageSize \in Nat \ {0}
  /\ MaxMoves \in Nat

VARIABLES rows,    \* the table workflow_jobs, with the rows in flight
          clock,   \* utcnow, as the number of creation times given out
          moves,   \* how often a status has changed
          client   \* the client that pages through the list

vars == <<rows, clock, moves, client>>

Scopes == {"private", "shared", "public"}
NoRow == [state |-> "none", created |-> 0, owner |-> None,
          scope |-> "private", status |-> "queued"]

(* The client: who it is, what it asks for, and what it has got so far.    *)
(* "start" are the jobs it could have listed when it began, "left" those   *)
(* it could not at some later moment; "leavings" and "arrivals" count the  *)
(* rows that stopped or began to be in its list since then.                *)
NewClient == [state |-> "idle", admin |-> FALSE, owner |-> None,
              ownerFilter |-> None, statusFilter |-> None, page |-> 1,
              seen |-> {}, repeats |-> 0, start |-> {}, left |-> {},
              leavings |-> 0, arrivals |-> 0]

Init ==
  /\ rows = [j \in Jobs |-> NoRow]
  /\ clock = 0
  /\ moves = 0
  /\ client = NewClient

(* The WHERE clause of list_jobs.  Only an administrator's owner_id        *)
(* narrows the list; another client's is checked and then not used.  (The  *)
(* source_type of a job never changes, and filters as its owner does.)     *)
InScope(c, row) ==
  CASE c.admin          -> c.ownerFilter \in {None, row.owner}
    [] c.owner = None   -> row.scope = "public"
    [] OTHER            -> row.scope = "public" \/ row.owner = c.owner

Matches(c, row) ==
  /\ row.state = "committed"
  /\ c.statusFilter \in {None, row.status}
  /\ InScope(c, row)

Listed(c, table) == {j \in Jobs : Matches(c, table[j])}

(* ORDER BY created_at DESC: how many rows of the list come before j.      *)
Rank(c, j) ==
  Cardinality({k \in Listed(c, rows) : rows[k].created > rows[j].created})

(* The offset of pages counted from zero, for pages counted from one.      *)
OffsetFromZero(c) == c.page * PageSize

Offset(c) == (c.page - 1) * PageSize

(* Pages that overlap by a row.                                            *)
OverlappingPage(c) ==
  LET from == IF c.page = 1 THEN 0 ELSE Offset(c) - 1
  IN  {j \in Listed(c, rows) : Rank(c, j) >= from /\ Rank(c, j) < from + PageSize}

PageRows(c) == {j \in Listed(c, rows) :
                  Rank(c, j) >= Offset(c) /\ Rank(c, j) < Offset(c) + PageSize}

(* An access check for owners that forgets the scopes.                     *)
OwnerAccess(c, row) == c.admin \/ (c.owner # None /\ c.owner = row.owner)

(* _can_access, which decides whether a single job may be read.            *)
CanAccess(c, row) ==
  \/ c.admin
  \/ row.scope = "public"
  \/ row.scope = "shared" /\ c.owner # None
  \/ c.owner # None /\ c.owner = row.owner

(* What a change of the table means for the client's list.                 *)
Watch(table) ==
  LET before == Listed(client, rows)
      after == Listed(client, table)
  IN  IF client.state # "paging" THEN client
      ELSE [client EXCEPT
              !.left = @ \cup (before \ after),
              !.leavings = @ + Cardinality(before \ after),
              !.arrivals = @ + Cardinality(after \ before)]

Update(table) ==
  /\ rows' = table
  /\ client' = Watch(table)

(* A request adds a job and flushes it: created_at is set here.            *)
Insert(j, owner, scope) ==
  /\ rows[j].state = "none"
  /\ Update([rows EXCEPT ![j] = [NoRow EXCEPT !.state = "flushed",
                                               !.created = clock + 1,
                                               !.owner = owner,
                                               !.scope = scope]])
  /\ clock' = clock + 1
  /\ UNCHANGED moves

Commit(j) ==
  /\ rows[j].state = "flushed"
  /\ Update([rows EXCEPT ![j].state = "committed"])
  /\ UNCHANGED <<clock, moves>>

(* The transaction fails or its process dies.                              *)
Rollback(j) ==
  /\ rows[j].state = "flushed"
  /\ Update([rows EXCEPT ![j] = [NoRow EXCEPT !.state = "dropped"]])
  /\ UNCHANGED <<clock, moves>>

(* A worker or a cancel commits another status.  Which follows which is    *)
(* the subject of WorkflowRunner; here any may follow any.                 *)
Move(j, status) ==
  /\ moves < MaxMoves
  /\ rows[j].state = "committed"
  /\ rows[j].status # status
  /\ Update([rows EXCEPT ![j].status = status])
  /\ moves' = moves + 1
  /\ UNCHANGED clock

(* A client that names itself asks for the first page.  Another owner's    *)
(* id from a client that has one of its own is refused with 403.           *)
Begin(admin, owner, ownerFilter, statusFilter) ==
  LET c == [NewClient EXCEPT !.state = "paging", !.admin = admin,
                             !.owner = owner, !.ownerFilter = ownerFilter,
                             !.statusFilter = statusFilter]
  IN  /\ client.state = "idle"
      /\ admin \/ owner = None \/ ownerFilter \in {None, owner}
      /\ client' = [c EXCEPT !.start = Listed(c, rows)]
      /\ UNCHANGED <<rows, clock, moves>>

(* One SELECT.  A client that pages to the end stops at a short page.      *)
ListJobs ==
  LET items == PageRows(client)
  IN  /\ client.state = "paging"
      /\ client' = [client EXCEPT
                      !.seen = @ \cup items,
                      !.repeats = @ + Cardinality(items \cap client.seen),
                      !.page = @ + 1,
                      !.state = IF Cardinality(items) < PageSize
                                THEN "done" ELSE "paging"]
      /\ UNCHANGED <<rows, clock, moves>>

Quiescent ==
  /\ client.state = "done"
  /\ UNCHANGED vars

Next ==
  \/ \E j \in Jobs : \/ \E owner \in Owners, scope \in Scopes : Insert(j, owner, scope)
                     \/ Commit(j)
                     \/ Rollback(j)
                     \/ \E status \in Statuses : Move(j, status)
  \/ \E admin \in BOOLEAN, owner, ownerFilter \in Owners \cup {None},
        statusFilter \in Statuses \cup {None} :
       Begin(admin, owner, ownerFilter, statusFilter)
  \/ ListJobs
  \/ Quiescent

Spec == Init /\ [][Next]_vars

-----------------------------------------------------------------------------
Missed == {j \in client.start : j \notin client.seen /\ j \notin client.left}

(* A client that pages to the end misses, of the jobs that were in its     *)
(* list throughout, at most as many as left the list under its feet.       *)
(* Without a status filter nothing ever leaves, so nothing is missed,      *)
(* however many jobs are committed between two pages and in whatever order *)
(* of their times (list_jobs, ORDER BY created_at DESC).                   *)
MissedForCause ==
  client.state = "done" => Cardinality(Missed) <= client.leavings

(* A job is listed a second time only because another arrived meanwhile.   *)
RepeatedForCause == client.repeats <= client.arrivals

(* Whatever the list shows, get_job_for_client lets the client read.       *)
ListedCanBeRead == \A j \in client.seen : CanAccess(client, rows[j])
=============================================================================
