----------------------------- MODULE DocumentSync -----------------------------
(***************************************************************************)
(* The second transaction of sync_job, one document at a time.  For each   *)
(* document of the latest version DifyKnowledgeProvider looks its row up   *)
(* by document_key, creates or updates a document in Dify, polls its       *)
(* indexing and changes the row; the transaction commits after the last.   *)
(* The session autoflushes: looking the next document up writes the row of *)
(* the one before, and PostgreSQL holds the lock of a written row until    *)
(* the transaction ends.  Whoever writes the same key waits for it, and of *)
(* tasks that wait for each other one is aborted.  A flush that fails      *)
(* takes the transaction with it, but not the task: the error is caught,   *)
(* and the session closes the dead transaction without raising.            *)
(*                                                                         *)
(* Registration is the counter latest; how jobs go on after this           *)
(* transaction is the subject of KnowledgeSync.                            *)
(***************************************************************************)
EXTENDS Naturals, Sequences, FiniteSetsExt

CONSTANTS
    Papers,
    Keys,          \* values of document_key
    Histories,     \* what may be registered: for each paper, the document keys
                   \* of its versions
    Workers,
    Statuses,      \* what polling may say (completed, error, timeout, unknown) of
                   \* the document of each key
    None,          \* no row
    MaxFaults      \* bound: calls of Dify that fail after all retries, tasks that
                   \* die with their worker, and messages that are delivered
                   \* again while in work

\* A job, and the content it was registered for: a version of a paper.
Jobs == UNION {{p} \X DOMAIN history[p] : p \in Papers, history \in Histories}

Row == [key : Keys, doc : Nat, content : Jobs, status : UNION {Statuses[k] : k \in Keys}]

ASSUME DocumentAssumption ==
    /\ Histories \subseteq [Papers -> Seq(Seq(Keys))]
    /\ None \notin Row
    /\ MaxFaults \in Nat

VARIABLES
    History,   \* the papers that come to be registered: never changes
    latest,    \* the number of the latest version of each paper
    queue,     \* jobs whose message waits for a worker
    kb,        \* kb_status of each job
    table,     \* the committed row of kb_documents of each key
    remote,    \* what Dify's documents hold, in the order of their creation
    sent,      \* all that Dify was ever sent: key, document, content
    told,      \* all that polling ever said: key, document, content, status
    alone,     \* no two tasks of the paper have ever been at work at once
    task,
    faults
vars == <<History, latest, queue, kb, table, remote, sent, told, alone, task, faults>>
dify == <<remote, sent, told>>

\* todo: keys of the documents to come; seen: the row that was looked up;
\* pending: the new state of it, not flushed; waits: the place in the
\* line of the flushes that wait for a lock, from 1;
\* written: rows flushed, uncommitted.
Idle == [pc |-> "idle", job |-> None, content |-> None, todo |-> <<>>,
         seen |-> None, doc |-> 0, pending |-> None, waits |-> 0,
         written |-> {}, result |-> "pending"]

Init ==
    /\ History \in Histories
    /\ latest = [p \in Papers |-> 0]
    /\ queue = {}
    /\ kb = [j \in Jobs |-> "none"]
    /\ table = [k \in Keys |-> None]
    /\ remote = <<>>
    /\ sent = {}
    /\ told = {}
    /\ alone = [p \in Papers |-> TRUE]
    /\ task = [w \in Workers |-> Idle]
    /\ faults = 0

KeysOf(j) == History[j[1]][j[2]]

Register(p) ==
    LET j == <<p, latest[p] + 1>> IN
    /\ latest[p] < Len(History[p])
    /\ latest' = [latest EXCEPT ![p] = @ + 1]
    /\ queue' = queue \cup {j}
    /\ kb' = [kb EXCEPT ![j] = "pending"]
    /\ UNCHANGED <<table, dify, task, alone, faults>>

-----------------------------------------------------------------------------
\* kb_status as long as no document fails.
FirstResult(v) == IF KeysOf(v) = <<>> THEN "skipped" ELSE "completed"

\* The task begins the transaction and reads the latest version.
Begin(w) ==
    /\ task[w].pc = "idle"
    /\ \E j \in queue :
          LET v == <<j[1], latest[j[1]]>> IN
          /\ queue' = queue \ {j}
          /\ task' = [task EXCEPT ![w] =
                        [Idle EXCEPT !.pc = "look", !.job = j, !.content = v,
                                     !.todo = KeysOf(v),
                                     !.result = FirstResult(v)]]
          /\ alone' = [alone EXCEPT ![j[1]] =
                         @ /\ \A v0 \in Workers : task[v0].pc = "idle" \/ task[v0].job[1] # j[1]]
    /\ UNCHANGED <<latest, kb, table, dify, faults>>

Pending(w) == task[w].pc = "look" /\ task[w].pending # None

\* The tasks before whom this one cannot flush its row: those that hold the
\* lock, and those that came to wait for it earlier.
Blockers(w) ==
    {v \in Workers \ {w} :
        /\ Pending(w)
        /\ \/ \E row \in task[v].written : row.key = task[w].pending.key
           \/ /\ task[v].waits > 0
              /\ task[w].waits = 0 \/ task[v].waits < task[w].waits
              /\ task[v].pending.key = task[w].pending.key}

Wait(w) ==
    /\ task[w].waits = 0
    /\ Blockers(w) # {}
    /\ task' = [task EXCEPT ![w].waits = 1 + Max({task[v].waits : v \in Workers})]
    /\ UNCHANGED <<latest, queue, kb, table, dify, alone, faults>>

\* An insert that finds the key taken.
Conflicts(w) ==
    /\ Pending(w)
    /\ task[w].seen = None
    /\ table[task[w].pending.key] # None

CanFlush(w) == Blockers(w) = {} /\ ~Conflicts(w)

\* Slip: an update forgets indexing_status.
FlushedWithoutStatus(w) ==
    LET new == task[w].pending
        old == task[w].seen
        now == table[new.key] IN
    IF old = None THEN new
    ELSE [key     |-> new.key,
          doc     |-> IF new.doc # old.doc THEN new.doc ELSE now.doc,
          content |-> IF new.content # old.content THEN new.content ELSE now.content,
          status  |-> now.status]

\* An insert writes the row; an update writes the columns that differ from what
\* was loaded over the row as it is now.
FlushedRow(w) ==
    LET new == task[w].pending
        old == task[w].seen
        now == table[new.key] IN
    IF old = None THEN new
    ELSE [key     |-> new.key,
          doc     |-> IF new.doc # old.doc THEN new.doc ELSE now.doc,
          content |-> IF new.content # old.content THEN new.content ELSE now.content,
          status  |-> IF new.status # old.status THEN new.status ELSE now.status]

Flushed(w) ==
    task[w].written \cup (IF task[w].pending = None THEN {} ELSE {FlushedRow(w)})

\* Slip: the key of a document is enough to leave it alone.
KnownKey(w, row) == row # None

UpToDate(w, row) == row # None /\ row.content = task[w].content

\* Look the next document up: first the row of the one before is written.
LookUp(w) ==
    LET row == table[Head(task[w].todo)] IN
    /\ task[w].pc = "look"
    /\ task[w].todo # <<>>
    /\ CanFlush(w)
    /\ task' = [task EXCEPT ![w] =
                  IF UpToDate(w, row)
                  THEN [@ EXCEPT !.written = Flushed(w), !.pending = None,
                                 !.waits = 0, !.seen = None,
                                 !.todo = Tail(task[w].todo)]
                  ELSE [@ EXCEPT !.written = Flushed(w), !.pending = None,
                                 !.waits = 0, !.seen = row, !.pc = "send"]]
    /\ UNCHANGED <<latest, queue, kb, table, dify, alone, faults>>

\* Create a document, or update the one of the row.
Target(w) == IF task[w].seen = None THEN Len(remote) + 1 ELSE task[w].seen.doc

Post(w) ==
    LET holds == [key |-> Head(task[w].todo), content |-> task[w].content] IN
    /\ remote' = IF Target(w) > Len(remote) THEN Append(remote, holds)
                 ELSE [remote EXCEPT ![Target(w)] = holds]
    /\ sent' = sent \cup {<<holds.key, Target(w), holds.content>>}

Send(w) ==
    /\ task[w].pc = "send"
    /\ Post(w)
    /\ task' = [task EXCEPT ![w].pc = "poll", ![w].doc = Target(w)]
    /\ UNCHANGED <<latest, queue, kb, table, told, alone, faults>>

\* Slip: the row gets the content that is the latest by now.
LatestContent(w) == <<task[w].job[1], latest[task[w].job[1]]>>

RecordedContent(w) == task[w].content

\* Whatever polling says, also that the time is up, the document counts as
\* synchronised.
Poll(w) ==
    /\ task[w].pc = "poll"
    /\ \E status \in Statuses[Head(task[w].todo)] :
          LET row == [key |-> Head(task[w].todo), doc |-> task[w].doc,
                      content |-> RecordedContent(w), status |-> status] IN
          /\ told' = told \cup {row}
          /\ task' = [task EXCEPT ![w].pc = "look", ![w].pending = row,
                                  ![w].todo = Tail(@)]
    /\ UNCHANGED <<latest, queue, kb, table, remote, sent, alone, faults>>

\* Slip: a document that fails is passed over.
CallFailsOnward(w) ==
    /\ task[w].pc \in {"send", "poll"}
    /\ faults < MaxFaults
    /\ faults' = faults + 1
    /\ UNCHANGED <<remote, sent>>
    /\ task' = [task EXCEPT ![w].pc = "look", ![w].todo = Tail(@)]
    /\ UNCHANGED <<latest, queue, kb, table, told, alone>>

\* A call fails, or only its answer is lost: the loop ends, and what it did for
\* the documents before is kept.
CallFails(w) ==
    /\ task[w].pc \in {"send", "poll"}
    /\ faults < MaxFaults
    /\ faults' = faults + 1
    /\ \/ UNCHANGED <<remote, sent>>
       \/ task[w].pc = "send" /\ Post(w)
    /\ task' = [task EXCEPT ![w].pc = "look", ![w].todo = <<>>,
                            ![w].result = "failed"]
    /\ UNCHANGED <<latest, queue, kb, table, told, alone>>

\* Slip: the status is written before the transaction dies, and goes with it.
RollBackSilently(w) == task' = [task EXCEPT ![w] = Idle]

\* The transaction is rolled back and the loop ends.  The session still knows
\* that kb_status is to be written, which the next commit of the task does.
RollBack(w) ==
    task' = [task EXCEPT ![w].todo = <<>>, ![w].seen = None, ![w].pending = None,
                         ![w].waits = 0, ![w].written = {}, ![w].result = "failed"]

\* The last flush, and the commit with kb_status.
Commit(w) ==
    /\ task[w].pc = "look"
    /\ task[w].todo = <<>>
    /\ CanFlush(w)
    /\ table' = [k \in Keys |->
                   IF \E row \in Flushed(w) : row.key = k
                   THEN CHOOSE row \in Flushed(w) : row.key = k
                   ELSE table[k]]
    /\ kb' = [kb EXCEPT ![task[w].job] = task[w].result]
    /\ task' = [task EXCEPT ![w] = Idle]
    /\ UNCHANGED <<latest, queue, dify, alone, faults>>

\* IntegrityError.
Raise(w) ==
    /\ Conflicts(w)
    /\ Blockers(w) = {}
    /\ RollBack(w)
    /\ UNCHANGED <<latest, queue, kb, table, dify, alone, faults>>

\* PostgreSQL aborts one of the tasks that wait for each other.
Deadlock(w) ==
    /\ \E circle \in SUBSET Workers :
          /\ w \in circle
          /\ \A v \in circle : task[v].waits > 0 /\ Blockers(v) \cap circle # {}
    /\ RollBack(w)
    /\ UNCHANGED <<latest, queue, kb, table, dify, alone, faults>>

\* The worker dies: its message is delivered again.
Die(w) ==
    /\ task[w].pc # "idle"
    /\ faults < MaxFaults
    /\ faults' = faults + 1
    /\ task' = [task EXCEPT ![w] = Idle]
    /\ queue' = queue \cup {task[w].job}
    /\ UNCHANGED <<latest, kb, table, dify, alone>>

\* The message was not acknowledged in time: it is delivered again, although its
\* task is at work.
Redeliver(w) ==
    /\ task[w].pc # "idle"
    /\ faults < MaxFaults
    /\ faults' = faults + 1
    /\ queue' = queue \cup {task[w].job}
    /\ UNCHANGED <<latest, kb, table, dify, task, alone>>

\* Everything is registered and synchronised.
Quiescent ==
    /\ \A p \in Papers : latest[p] = Len(History[p])
    /\ queue = {}
    /\ \A w \in Workers : task[w].pc = "idle"
    /\ UNCHANGED vars

Work(w) ==
    \/ Begin(w) \/ Wait(w) \/ LookUp(w) \/ Send(w) \/ Poll(w) \/ CallFails(w)
    \/ Commit(w) \/ Raise(w) \/ Deadlock(w)

Next ==
    /\ \/ \E p \in Papers : Register(p)
       \/ \E w \in Workers : Work(w) \/ Die(w) \/ Redeliver(w)
       \/ Quiescent
    /\ UNCHANGED History

Spec == Init /\ [][Next]_vars

\* Calls and polls have timeouts, and PostgreSQL looks for deadlocks.
FairSpec == Spec /\ \A w \in Workers : WF_vars(Work(w) /\ UNCHANGED History)

-----------------------------------------------------------------------------
\* A row of kb_documents names a document of Dify that was sent this document
\* with this content, whoever wrote which of its columns last.
RowsWereSent ==
    \A k \in Keys :
        table[k] # None => <<k, table[k].doc, table[k].content>> \in sent

\* A job whose kb_status is "completed" has all documents of its version or of
\* one later version in Dify: those that it sent and those that it found in
\* the table, through deaths, conflicts and deadlocks.
CompletedCoversDocuments ==
    \A j \in Jobs :
        kb[j] = "completed" =>
            \E n \in j[2]..latest[j[1]] :
                \A i \in DOMAIN History[j[1]][n] :
                    \E s \in sent : s[1] = History[j[1]][n][i] /\ s[3] = <<j[1], n>>

\* Again and again all jobs have their answer: although tasks wait for each
\* other's rows, and lose their transaction to a conflict or a deadlock, no job
\* is left for ever without what became of its documents.
JobsAnswered ==
    []<>\A p \in Papers : \A n \in 1..latest[p] : kb[<<p, n>>] \notin {"none", "pending"}

\* As long as the tasks of a paper have come one after the other: when the job
\* of its latest version has completed, each document is in Dify with the
\* content of this version, under the identifier that the table gives; a task
\* that is tried again late never puts an old one back.
LatestInDify ==
    \A p \in Papers :
        LET j == <<p, latest[p]>> IN
        alone[p] /\ latest[p] > 0 /\ kb[j] = "completed" =>
            \A i \in DOMAIN KeysOf(j) :
                LET row == table[KeysOf(j)[i]] IN
                /\ row # None /\ row.content = j
                /\ remote[row.doc] = [key |-> row.key, content |-> j]

\* README.md:183-190: indexing_status of a row is what Dify said of the very
\* content the row names, also after an attempt that was rolled back, and as
\* long as no second task changed some of the columns.
StatusWasTold ==
    \A k \in Keys :
        table[k] # None /\ alone[table[k].content[1]] => table[k] \in told
=============================================================================
