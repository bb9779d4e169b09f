------------------------------ MODULE Ingestion ------------------------------
(***************************************************************************)
(* Registration of papers (POST /v1/ingestion/jobs): one transaction finds *)
(* out whether the content is new, writes the paper, its version and a     *)
(* job, and commits; then the job is sent to the workers if it has         *)
(* anything to synchronise.  Requests are handled at the same time, on     *)
(* PostgreSQL: a transaction holds the advisory lock of its paper until it *)
(* ends, and a violated unique constraint rolls it back.                   *)
(*                                                                         *)
(* A content stands for its hash and all that is submitted with it.  Jobs  *)
(* are numbered in the order of their commits, which for one paper is the  *)
(* order of created_at.  KnowledgeSync adds the workers.                   *)
(***************************************************************************)
EXTENDS Naturals, Sequences, FiniteSets

CONSTANTS
    Requests,
    Papers,          \* values of paper_id
    Contents,
    Clashing,        \* sets of papers that share a DOI or an arXiv id
    WithDocuments,   \* contents with knowledge_documents
    WithGraph,       \* contents with a graph
    EnableDify,      \* Dify sync is switched on, with its key and dataset
    EnableNeo4j,     \* Neo4j sync is switched on, with its password
    None,            \* no row, nothing read
    MaxAttempts      \* registrations tried before the error is the answer: 6

ASSUME IngestionAssumption ==
    /\ IsFiniteSet(Requests)
    /\ Clashing \subseteq SUBSET Papers
    /\ WithDocuments \subseteq Contents
    /\ WithGraph \subseteq Contents
    /\ EnableDify \in BOOLEAN
    /\ EnableNeo4j \in BOOLEAN
    /\ None \notin Papers \cup Contents
    /\ None \notin [hash : Contents, version : Nat]
    /\ MaxAttempts \in Nat \ {0}

VARIABLES
    papers,     \* the row of a paper: latest_content_hash, latest_version
    versions,   \* rows of paper_versions
    jobs,       \* rows of ingestion_jobs, in the order of their commits
    queue,      \* jobs whose message waits for a worker
    req         \* where each request is in its handler
registry == <<papers, versions, jobs, queue, req>>

PCs == {"new", "register", "commit", "dispatch", "done"}

NewRequest == [pc |-> "new", paper |-> None, hash |-> None, seen |-> None,
               attempt |-> 1, job |-> 0, answer |-> "none"]

Init ==
    /\ papers = [p \in Papers |-> None]
    /\ versions = {}
    /\ jobs = <<>>
    /\ queue = {}
    /\ req = [r \in Requests |-> NewRequest]

VersionsOf(p) == {v \in versions : v.paper = p}

\* The version with the highest number.
LatestVersion(p) ==
    CHOOSE v \in VersionsOf(p) : \A w \in VersionsOf(p) : w.number <= v.number

JobsFor(p, h) == {j \in DOMAIN jobs : jobs[j].paper = p /\ jobs[j].hash = h}

-----------------------------------------------------------------------------
Submit(r, p, h) ==
    /\ req[r].pc = "new"
    /\ req' = [req EXCEPT ![r].pc = "register", ![r].paper = p, ![r].hash = h]
    /\ UNCHANGED <<papers, versions, jobs, queue>>

\* Slip: papers are registered without the lock.
NobodyWaits(p) == TRUE

LockFree(p) == \A s \in Requests : req[s].paper = p => req[s].pc # "commit"

\* The transaction takes the lock of the paper and reads its row.
Register(r) ==
    /\ req[r].pc = "register"
    /\ LockFree(req[r].paper)
    /\ req' = [req EXCEPT ![r].pc = "commit", ![r].seen = papers[req[r].paper]]
    /\ UNCHANGED <<papers, versions, jobs, queue>>

\* What the transaction decides from the row it read.
IsNew(r) == req[r].seen = None
IsExisting(r) == req[r].seen # None /\ req[r].seen.hash = req[r].hash
VersionNumber(r) == IF IsNew(r) THEN 1 ELSE req[r].seen.version + 1

\* Slip: a content is not unique among the versions of a paper.
NumberConflicts(r) ==
    \/ IsNew(r) /\ papers[req[r].paper] # None
    \/ ~IsExisting(r) /\ \E v \in VersionsOf(req[r].paper) :
                            v.number = VersionNumber(r)

\* The unique constraints: paper_id, doi and arxiv_id of papers, number and
\* content of a paper's versions.
Conflicts(r) ==
    LET p == req[r].paper IN
    \/ IsNew(r) /\ papers[p] # None
    \/ IsNew(r) /\ \E q \in Papers : q # p /\ {p, q} \in Clashing /\ papers[q] # None
    \/ ~IsExisting(r) /\ \E v \in VersionsOf(p) :
                            v.number = VersionNumber(r) \/ v.hash = req[r].hash

\* The job of a content that is to be synchronised.
FreshJob(r) ==
    LET h == req[r].hash IN
    [paper |-> req[r].paper, hash |-> h, status |-> "received",
     dedup |-> IF IsNew(r) THEN "new" ELSE "new_version",
     kb |-> IF h \notin WithDocuments THEN "skipped"
            ELSE IF EnableDify THEN "pending" ELSE "disabled",
     graph |-> IF h \notin WithGraph THEN "skipped"
               ELSE IF EnableNeo4j THEN "pending" ELSE "disabled"]

\* The job of a content that is there: it copies what its predecessor tells.
RepeatedJob(r) ==
    LET prior == JobsFor(req[r].paper, req[r].hash)
        last == CHOOSE j \in prior : \A k \in prior : k <= j IN
    [paper |-> req[r].paper, hash |-> req[r].hash, status |-> "completed",
     dedup |-> "existing",
     kb |-> IF prior = {} THEN "skipped" ELSE jobs[last].kb,
     graph |-> IF prior = {} THEN "skipped" ELSE jobs[last].graph]

\* Slip: latest_content_hash stays that of the first version.
CommitFreshKeepingHash(r) ==
    LET p == req[r].paper
        row == [hash |-> req[r].hash, version |-> VersionNumber(r)] IN
    /\ req[r].pc = "commit"
    /\ ~IsExisting(r)
    /\ ~Conflicts(r)
    /\ papers' = [papers EXCEPT ![p] =
                    IF IsNew(r) THEN row ELSE [@ EXCEPT !.version = row.version]]
    /\ versions' = versions \cup
          {[paper |-> p, number |-> row.version, hash |-> row.hash]}
    /\ jobs' = Append(jobs, FreshJob(r))
    /\ req' = [req EXCEPT ![r].pc = "dispatch", ![r].seen = None,
                          ![r].job = Len(jobs')]
    /\ UNCHANGED queue

CommitFresh(r) ==
    LET p == req[r].paper
        row == [hash |-> req[r].hash, version |-> VersionNumber(r)] IN
    /\ req[r].pc = "commit"
    /\ ~IsExisting(r)
    /\ ~Conflicts(r)
    /\ papers' = [papers EXCEPT ![p] = row]
    /\ versions' = versions \cup
          {[paper |-> p, number |-> row.version, hash |-> row.hash]}
    /\ jobs' = Append(jobs, FreshJob(r))
    /\ req' = [req EXCEPT ![r].pc = "dispatch", ![r].seen = None,
                          ![r].job = Len(jobs')]
    /\ UNCHANGED queue

\* Nothing is dispatched for a content that is there.
CommitExisting(r) ==
    /\ req[r].pc = "commit"
    /\ IsExisting(r)
    /\ jobs' = Append(jobs, RepeatedJob(r))
    /\ req' = [req EXCEPT ![r].pc = "done", ![r].seen = None,
                          ![r].answer = "202", ![r].job = Len(jobs')]
    /\ UNCHANGED <<papers, versions, queue>>

\* A violated constraint rolls the transaction back, and it is tried again.
Conflict(r) ==
    /\ req[r].pc = "commit"
    /\ Conflicts(r)
    /\ req' = [req EXCEPT
                 ![r] = IF @.attempt < MaxAttempts
                        THEN [@ EXCEPT !.pc = "register", !.seen = None,
                                       !.attempt = req[r].attempt + 1]
                        ELSE [@ EXCEPT !.pc = "done", !.seen = None, !.answer = "500"]]
    /\ UNCHANGED <<papers, versions, jobs, queue>>

Dispatch(r) ==
    /\ req[r].pc = "dispatch"
    /\ queue' = queue \cup {req[r].job}
    /\ req' = [req EXCEPT ![r].pc = "done", ![r].answer = "202"]
    /\ UNCHANGED <<papers, versions, jobs>>

\* The broker cannot be reached, or its confirmation is lost; a process that
\* dies here leaves the same tables and queue behind.
DispatchFails(r) ==
    /\ req[r].pc = "dispatch"
    /\ queue' \in {queue, queue \cup {req[r].job}}
    /\ req' = [req EXCEPT ![r].pc = "done", ![r].answer = "500"]
    /\ UNCHANGED <<papers, versions, jobs>>

Handle(r) ==
    \/ Register(r) \/ CommitFresh(r) \/ CommitExisting(r) \/ Conflict(r)
    \/ Dispatch(r) \/ DispatchFails(r)

RegistryNext ==
    \E r \in Requests :
        \/ \E p \in Papers, h \in Contents : Submit(r, p, h)
        \/ Handle(r)

-----------------------------------------------------------------------------
SyncStatuses == {"pending", "skipped", "disabled", "completed", "failed"}

Job == [paper : Papers, hash : Contents,
        dedup : {"new", "existing", "new_version"},
        status : {"received", "syncing", "completed", "partial_success", "failed"},
        kb : SyncStatuses, graph : SyncStatuses]

Row == [hash : Contents, version : Nat]

Request == [pc : PCs, paper : Papers \cup {None}, hash : Contents \cup {None},
            seen : Row \cup {None}, attempt : 1..MaxAttempts, job : Nat,
            answer : {"none", "202", "500"}]

RegistryTypeOK ==
    /\ papers \in [Papers -> Row \cup {None}]
    /\ versions \subseteq [paper : Papers, number : Nat, hash : Contents]
    /\ jobs \in Seq(Job)
    /\ queue \subseteq DOMAIN jobs
    /\ req \in [Requests -> Request]

\* The versions of a paper are numbered from 1 without a gap, and the paper's
\* row gives the number and the content of the last one.
VersionsInOrder ==
    \A p \in Papers :
        LET numbers == {v.number : v \in VersionsOf(p)} IN
        IF papers[p] = None THEN numbers = {}
        ELSE /\ numbers = 1..papers[p].version
             /\ Cardinality(VersionsOf(p)) = papers[p].version
             /\ LatestVersion(p).hash = papers[p].hash

\* README.md:221: however often a content is submitted, and by however many
\* requests at a time, one job at most is there to synchronise it.
OneSyncPerContent ==
    \A p \in Papers, h \in Contents :
        Cardinality({j \in JobsFor(p, h) : jobs[j].dedup # "existing"}) <= 1

\* A paper that is refused after all attempts is one that no attempt could
\* register: its content is that of an earlier version, or another paper has
\* its DOI.  Requests for one paper never use up each other's attempts.
RefusedForCause ==
    \A r \in Requests :
        req[r].answer = "500" /\ req[r].job = 0 =>
            \/ \E v \in VersionsOf(req[r].paper) :
                  v.hash = req[r].hash /\ v.number < papers[req[r].paper].version
            \/ \E q \in Papers : {req[r].paper, q} \in Clashing /\ papers[q] # None

\* README.md:95: a request that repeats an earlier one is answered "existing".
RepeatIsExisting ==
    \A r, s \in Requests :
        /\ req[s].answer = "202"
        /\ req[r].answer # "none"
        /\ req[r].paper = req[s].paper
        /\ req[r].hash = req[s].hash
        /\ jobs[req[s].job].dedup # "existing"
        /\ r # s
        => req[r].answer = "202" /\ jobs[req[r].job].dedup = "existing"
=============================================================================
