----------------------- MODULE WorkflowAdmissionProofs -----------------------
(***************************************************************************)
(* What WorkflowAdmission promises for any number of requests, owners,     *)
(* keys and files, and any limits: one job per Idempotency-Key, complete   *)
(* uploads until they are deleted, no file without a reason to be there,   *)
(* and a bound on how far an owner can get past the limit.                 *)
(***************************************************************************)
EXTENDS WorkflowAdmission, FiniteSetTheorems, TLAPS

\* A request that has been read has an owner.
Owned == \A r \in Requests : req[r].pc # "new" => req[r].owner \in Owners

\* A row is the one its request asked for, and its key is its own.
RowsMatch ==
    /\ \A j \in Requests :
          /\ req[j].pc = "dispatch" => rows[j] # None
          /\ rows[j] # None =>
                /\ req[j].pc \in {"dispatch", "done"}
                /\ rows[j].key = req[j].key
                /\ rows[j].files = Manifest(j)
    /\ \A j, k \in Requests :
          /\ rows[j] # None /\ rows[k] # None
          /\ rows[j].key = rows[k].key /\ rows[j].key # None
          => j = k

\* An accepted request names a job that has its key.
Answered ==
    \A r \in Requests :
        req[r].answer = "202" =>
            /\ req[r].pc = "done"
            /\ req[r].job \in Requests
            /\ rows[req[r].job] # None
            /\ rows[req[r].job].key = req[r].key

\* The files of a request are on disk one after the other, until somebody
\* begins to delete them.
FilesStored ==
    \A r \in Requests :
        /\ req[r].stored <= Len(req[r].files)
        /\ req[r].pc \in {"new", "lookup", "count"} => req[r].stored = 0
        /\ \A i \in Nat : <<r, i>> \in disk => i \in 1..req[r].stored
        /\ req[r].pc = "store" => \A i \in 1..req[r].stored : <<r, i>> \in disk
        /\ rows[r] # None /\ r \notin cleaned =>
              \A i \in 1..Len(req[r].files) : <<r, i>> \in disk

\* Files are deleted of a job that has a row; those that are left were tried.
Deleted ==
    /\ \A j \in cleaned : rows[j] # None
    /\ \A f \in disk : f[1] \in cleaned => f \in stuck

\* Requests that were admitted and have not inserted their row yet.
Passing(o) == {r \in Requests : req[r].owner = o /\ req[r].pc = "store"}

\* Those count against the bound as well.
Limits ==
    /\ Cardinality(InFlight) <= MaxInFlight
    /\ \A o \in Owners :
          Cardinality(FreshJobs(o)) + Cardinality(Passing(o))
              <= MaxConcurrent - 1 + MaxInFlight

AInv ==
    /\ TypeOK
    /\ Owned
    /\ RowsMatch
    /\ Answered
    /\ FilesStored
    /\ Deleted
    /\ FilesAccountedFor
    /\ Limits

\* The actions that leave rows and files alone.
Quiet(r) ==
    \/ LookupFinds(r) \/ LookupMisses(r) \/ RejectForm(r)
    \/ CountAdmits(r) \/ CountRefuses(r) \/ RejectFile(r)
    \/ InsertConflicts(r) \/ Dispatch(r) \/ DispatchFails(r) \/ Crash(r)
-----------------------------------------------------------------------------
(* How the actions change a request.                                       *)

\* Goto moves one request and leaves the others alone.
LEMMA GotoMoves ==
    ASSUME TypeOK, NEW r \in Requests, NEW l \in PCs, Goto(r, l)
    PROVE  /\ req' \in [Requests -> Request]
           /\ \A q \in Requests \ {r} : req'[q] = req[q]
           /\ req'[r].pc = l
           /\ req'[r].owner = req[r].owner
           /\ req'[r].key = req[r].key
           /\ req'[r].files = req[r].files
           /\ req'[r].stored = req[r].stored
           /\ req'[r].answer = req[r].answer
           /\ req'[r].job = req[r].job
<1>1. req \in [Requests -> Request] /\ req[r] \in Request
  BY DEF TypeOK
<1>2. req' = [req EXCEPT ![r].pc = l]
  BY DEF Goto
<1>3. [req[r] EXCEPT !.pc = l] \in Request
  BY <1>1 DEF Request
<1>4. req' = [req EXCEPT ![r] = [req[r] EXCEPT !.pc = l]]
  BY <1>1, <1>2
<1>5. req'[r] = [req[r] EXCEPT !.pc = l] /\ req' \in [Requests -> Request]
  BY <1>1, <1>3, <1>4
<1>6. \A q \in Requests \ {r} : req'[q] = req[q]
  BY <1>1, <1>4
<1> QED
  BY <1>1, <1>5, <1>6 DEF Request

\* Answer ends one request and leaves the others alone.
LEMMA AnswerEnds ==
    ASSUME TypeOK, NEW r \in Requests, NEW a \in Answers,
           NEW j \in Requests \cup {None}, Answer(r, a, j)
    PROVE  /\ req' \in [Requests -> Request]
           /\ \A q \in Requests \ {r} : req'[q] = req[q]
           /\ req'[r].pc = "done"
           /\ req'[r].owner = req[r].owner
           /\ req'[r].key = req[r].key
           /\ req'[r].files = req[r].files
           /\ req'[r].stored = req[r].stored
           /\ req'[r].answer = a
           /\ req'[r].job = j
<1> DEFINE new == [req[r] EXCEPT !.pc = "done", !.answer = a, !.job = j]
<1>1. req \in [Requests -> Request] /\ req[r] \in Request
  BY DEF TypeOK
<1>2. req' = [req EXCEPT ![r] = new]
  BY <1>1 DEF Answer
<1>3. new \in Request
  BY <1>1 DEF Request, PCs
<1>4. req'[r] = new /\ req' \in [Requests -> Request]
  BY <1>1, <1>2, <1>3
<1>5. \A q \in Requests \ {r} : req'[q] = req[q]
  BY <1>1, <1>2
<1>6. /\ new.pc = "done" /\ new.owner = req[r].owner /\ new.key = req[r].key
      /\ new.files = req[r].files /\ new.stored = req[r].stored
      /\ new.answer = a /\ new.job = j
  BY <1>1 DEF Request
<1> QED
  BY <1>4, <1>5, <1>6

\* Submit fills one new request in and leaves the others alone.
LEMMA SubmitFills ==
    ASSUME TypeOK, NEW r \in Requests, NEW o \in Owners,
           NEW k \in Keys \cup {None}, NEW f \in Shapes, Submit(r, o, k, f)
    PROVE  /\ UNCHANGED <<rows, storage, sent, crashes>>
           /\ req[r].pc = "new" /\ Cardinality(InFlight) < MaxInFlight
           /\ req' \in [Requests -> Request]
           /\ \A q \in Requests \ {r} : req'[q] = req[q]
           /\ req'[r].pc = "lookup" /\ req'[r].owner = o /\ req'[r].key = k
           /\ req'[r].files = f /\ req'[r].stored = 0
           /\ req'[r].answer = "none" /\ req'[r].job = None
<1> DEFINE new == [NewRequest EXCEPT !.pc = "lookup", !.owner = o,
                                     !.key = k, !.files = f]
<1>1. req \in [Requests -> Request]
  BY DEF TypeOK
<1>2. f \in Seq(Verdicts)
  BY AdmissionAssumption
<1>3. NewRequest \in Request
  <2>1. <<>> \in Seq(Verdicts)
    OBVIOUS
  <2> QED
    BY <2>1 DEF NewRequest, Request, PCs, Answers
<1>4. new \in Request
  BY <1>2, <1>3 DEF Request, PCs
<1>5. req' = [req EXCEPT ![r] = new]
  BY DEF Submit
<1>6. req'[r] = new /\ req' \in [Requests -> Request]
  BY <1>1, <1>4, <1>5
<1>7. \A q \in Requests \ {r} : req'[q] = req[q]
  BY <1>1, <1>5
<1>8. /\ new.pc = "lookup" /\ new.owner = o /\ new.key = k /\ new.files = f
      /\ new.stored = 0 /\ new.answer = "none" /\ new.job = None
  BY <1>3 DEF NewRequest, Request
<1>9. /\ UNCHANGED <<rows, storage, sent, crashes>>
      /\ req[r].pc = "new" /\ Cardinality(InFlight) < MaxInFlight
  BY DEF Submit
<1> QED
  BY <1>6, <1>7, <1>8, <1>9

\* StoreFile advances one request by one file and leaves the others alone.
LEMMA StoreFileAdvances ==
    ASSUME TypeOK, NEW r \in Requests, StoreFile(r)
    PROVE  /\ UNCHANGED <<rows, cleaned, stuck, sent, crashes>>
           /\ disk' = disk \cup {<<r, req[r].stored + 1>>}
           /\ req[r].pc = "store" /\ req[r].stored + 1 <= Len(req[r].files)
           /\ req' \in [Requests -> Request]
           /\ \A q \in Requests \ {r} : req'[q] = req[q]
           /\ req'[r].pc = "store"
           /\ req'[r].owner = req[r].owner
           /\ req'[r].key = req[r].key
           /\ req'[r].files = req[r].files
           /\ req'[r].stored = req[r].stored + 1
           /\ req'[r].answer = req[r].answer
           /\ req'[r].job = req[r].job
<1> DEFINE n == req[r].stored + 1
           new == [req[r] EXCEPT !.stored = n]
<1>1. req \in [Requests -> Request] /\ req[r] \in Request /\ req[r].pc = "store"
  BY DEF TypeOK, StoreFile
<1>2. n \in Nat
  BY <1>1 DEF Request
<1>3. req' = [req EXCEPT ![r] = new]
  BY <1>1 DEF StoreFile
<1> HIDE DEF n
<1>4. new \in Request
  BY <1>1, <1>2 DEF Request
<1>5. req'[r] = new /\ req' \in [Requests -> Request]
  BY <1>1, <1>3, <1>4
<1>6. \A q \in Requests \ {r} : req'[q] = req[q]
  BY <1>1, <1>3
<1>7. /\ new.pc = "store" /\ new.owner = req[r].owner /\ new.key = req[r].key
      /\ new.files = req[r].files /\ new.stored = n
      /\ new.answer = req[r].answer /\ new.job = req[r].job
  BY <1>1 DEF Request
<1>8. /\ UNCHANGED <<rows, cleaned, stuck, sent, crashes>>
      /\ disk' = disk \cup {<<r, n>>}
      /\ n <= Len(req[r].files)
  BY DEF StoreFile, NextFile, n
<1> QED
  BY <1>1, <1>5, <1>6, <1>7, <1>8 DEF n

\* A quiet action moves one request forward, and accepts it only with a job of
\* its key, or with its own job.
LEMMA QuietMoves ==
    ASSUME TypeOK, NEW r \in Requests, Quiet(r)
    PROVE  /\ rows' = rows /\ UNCHANGED storage
           /\ sent' \subseteq Requests /\ crashes' \in Nat
           /\ req' \in [Requests -> Request]
           /\ \A q \in Requests \ {r} : req'[q] = req[q]
           /\ req'[r].owner = req[r].owner
           /\ req'[r].key = req[r].key
           /\ req'[r].files = req[r].files
           /\ req'[r].stored = req[r].stored
           /\ req[r].pc \notin {"new", "done"}
           /\ \/ req[r].pc = "lookup" /\ req'[r].pc = "count"
              \/ /\ req[r].pc = "count" /\ req'[r].pc = "store"
                 /\ Cardinality(ActiveJobs(req[r].owner)) < MaxConcurrent
              \/ req'[r].pc = "done"
           /\ \/ req'[r].answer = req[r].answer /\ req'[r].job = req[r].job
              \/ req'[r].pc = "done" /\ req'[r].answer # "202"
              \/ /\ req[r].pc = "lookup" /\ req'[r].pc = "done"
                 /\ req'[r].job \in JobsWithKey(req[r].key)
              \/ /\ req[r].pc = "dispatch" /\ req'[r].pc = "done"
                 /\ req'[r].job = r
<1>0. sent \subseteq Requests /\ crashes \in Nat
  BY DEF TypeOK
<1>1. CASE LookupFinds(r)
  <2>1. PICK j \in JobsWithKey(req[r].key) : Answer(r, "202", j)
    BY <1>1 DEF LookupFinds
  <2>2. j \in Requests
    BY DEF JobsWithKey
  <2> QED
    BY <1>0, <1>1, <2>1, <2>2, AnswerEnds DEF LookupFinds, Answers
<1>2. CASE LookupMisses(r)
  BY <1>0, <1>2, GotoMoves DEF LookupMisses, PCs
<1>3. CASE RejectForm(r)
  BY <1>0, <1>3, AnswerEnds DEF RejectForm, Answers
<1>4. CASE CountAdmits(r)
  BY <1>0, <1>4, GotoMoves DEF CountAdmits, PCs
<1>5. CASE CountRefuses(r)
  BY <1>0, <1>5, AnswerEnds DEF CountRefuses, Answers
<1>6. CASE RejectFile(r)
  BY <1>0, <1>6, AnswerEnds DEF RejectFile, Answers
<1>7. CASE InsertConflicts(r)
  BY <1>0, <1>7, AnswerEnds DEF InsertConflicts, Answers
<1>8. CASE Dispatch(r)
  BY <1>0, <1>8, AnswerEnds DEF Dispatch, Answers
<1>9. CASE DispatchFails(r)
  BY <1>0, <1>9, AnswerEnds DEF DispatchFails, Answers
<1>10. CASE Crash(r)
  BY <1>0, <1>10, GotoMoves DEF Crash, PCs, InFlight
<1> QED
  BY <1>1, <1>2, <1>3, <1>4, <1>5, <1>6, <1>7, <1>8, <1>9, <1>10 DEF Quiet

\* An inserted row is the one the request asks for, and the first with its key.
LEMMA RowInserted ==
    ASSUME TypeOK, NEW r \in Requests, InsertRow(r)
    PROVE  /\ rows' = [rows EXCEPT ![r] = NewRow(r)]
           /\ UNCHANGED storage /\ sent' = sent /\ crashes' = crashes
           /\ req' \in [Requests -> Request]
           /\ \A q \in Requests \ {r} : req'[q] = req[q]
           /\ req[r].pc = "store" /\ req'[r].pc = "dispatch"
           /\ req'[r].owner = req[r].owner
           /\ req'[r].key = req[r].key
           /\ req'[r].files = req[r].files
           /\ req'[r].stored = req[r].stored
           /\ req'[r].answer = req[r].answer
           /\ req'[r].job = req[r].job
           /\ req[r].stored = Len(req[r].files)
           /\ JobsWithKey(req[r].key) = {}
  BY GotoMoves DEF InsertRow, PCs, Stored

\* What is inserted is a row, and no null.
LEMMA RowIsNew ==
    ASSUME TypeOK, Owned, NEW r \in Requests, InsertRow(r)
    PROVE  NewRow(r) \in Row /\ NewRow(r) # None
<1>1. req \in [Requests -> Request]
  BY DEF TypeOK
<1>2. Manifest(r) \subseteq Requests \X Nat
  BY <1>1 DEF Manifest, Request
<1>3. req[r].owner \in Owners
  BY RowInserted DEF Owned
<1>4. NewRow(r) \in Row
  BY <1>1, <1>2, <1>3 DEF NewRow, Row, Request
<1>5. None \notin Row
  BY AdmissionAssumption DEF Row
<1> QED
  BY <1>4, <1>5

\* A job that ends or is revived keeps its row, apart from the state.
LEMMA JobMoves ==
    ASSUME TypeOK, NEW r \in Requests, JobEnds(r) \/ JobRevives(r)
    PROVE  /\ UNCHANGED <<storage, sent, req, crashes>>
           /\ rows' \in [Requests -> Row \cup {None}]
           /\ \A q \in Requests \ {r} : rows'[q] = rows[q]
           /\ rows[r] # None /\ rows'[r] # None
           /\ rows'[r].owner = rows[r].owner
           /\ rows'[r].key = rows[r].key
           /\ rows'[r].files = rows[r].files
           /\ \/ rows'[r].state = "ended" /\ r \in cleaned
              \/ rows'[r].state = "revived"
<1>1. rows \in [Requests -> Row \cup {None}] /\ rows[r] # None
  BY DEF TypeOK, JobEnds, JobRevives
<1>2. rows[r] \in Row
  BY <1>1
<1>3. PICK state \in {"ended", "revived"} :
          /\ rows' = [rows EXCEPT ![r].state = state]
          /\ state = "ended" => r \in cleaned
  BY DEF JobEnds, JobRevives
<1> DEFINE row == [rows[r] EXCEPT !.state = state]
<1>4. row \in Row
  BY <1>2 DEF Row
<1>5. row # None
  BY <1>4, AdmissionAssumption DEF Row
<1>6. /\ row.state = state /\ row.owner = rows[r].owner
      /\ row.key = rows[r].key /\ row.files = rows[r].files
  BY <1>2 DEF Row
<1>7. rows' = [rows EXCEPT ![r] = row]
  BY <1>1, <1>3
<1> HIDE DEF row
<1>8. /\ rows'[r] = row /\ rows' \in [Requests -> Row \cup {None}]
      /\ \A q \in Requests \ {r} : rows'[q] = rows[q]
  BY <1>1, <1>4, <1>7
<1>9. UNCHANGED <<storage, sent, req, crashes>>
  BY DEF JobEnds, JobRevives
<1> QED
  BY <1>1, <1>3, <1>5, <1>6, <1>8, <1>9

\* Files that are deleted are the job's; those that stay on disk were tried.
LEMMA FilesGo ==
    ASSUME TypeOK, RowsMatch, FilesStored, NEW r \in Requests, DeleteFiles(r)
    PROVE  /\ UNCHANGED <<rows, sent, req, crashes>>
           /\ rows[r] # None
           /\ cleaned' = cleaned \cup {r}
           /\ disk' \subseteq disk
           /\ stuck' \subseteq Requests \X Nat
           /\ \A f \in disk :
                 f[1] # r => f \in disk' /\ (f \in stuck => f \in stuck')
           /\ \A f \in disk' : f[1] = r => f \in stuck'
<1>1. PICK failed \in SUBSET (rows[r].files \cap disk) :
          /\ disk' = disk \ (rows[r].files \ failed)
          /\ stuck' = (stuck \ rows[r].files) \cup failed
  BY DEF DeleteFiles
<1>2. rows[r] # None /\ rows[r].files = Manifest(r)
  BY DEF DeleteFiles, RowsMatch
<1>3. /\ disk \subseteq Requests \X Nat /\ stuck \subseteq Requests \X Nat
      /\ \A f \in disk : f = <<f[1], f[2]>> /\ f[2] \in Nat
  BY DEF TypeOK
<1>4. \A f \in disk : f[1] = r => f \in Manifest(r)
  <2>1. \A i \in Nat : <<r, i>> \in disk => i \in 1..Len(req[r].files)
    BY DEF FilesStored, TypeOK, Request
  <2> QED
    BY <1>3, <2>1 DEF Manifest
<1>5. \A f \in Manifest(r) : f[1] = r
  BY DEF Manifest
<1> QED
  BY <1>1, <1>2, <1>3, <1>4, <1>5 DEF DeleteFiles

\* Every step is one of these.
LEMMA Steps ==
    ASSUME [Next]_vars
    PROVE  \/ \E r \in Requests, o \in Owners, k \in Keys \cup {None}, f \in Shapes :
                 Submit(r, o, k, f)
           \/ \E r \in Requests :
                 \/ Quiet(r) \/ StoreFile(r) \/ InsertRow(r)
                 \/ DeleteFiles(r) \/ JobEnds(r) \/ JobRevives(r)
           \/ UNCHANGED vars
  BY DEF Next, Step, Quiescent, Quiet

-----------------------------------------------------------------------------
(* Each part of the invariant is kept by every step.                       *)

\* Types, and the owner that a row needs.
LEMMA KeepsTypes ==
    ASSUME TypeOK, Owned, RowsMatch, FilesStored, [Next]_vars
    PROVE  TypeOK' /\ Owned'
<1>0. /\ req \in [Requests -> Request] /\ rows \in [Requests -> Row \cup {None}]
      /\ disk \subseteq Requests \X Nat /\ stuck \subseteq Requests \X Nat
      /\ cleaned \subseteq Requests /\ sent \subseteq Requests /\ crashes \in Nat
  BY DEF TypeOK
<1>1. ASSUME NEW r \in Requests, NEW o \in Owners, NEW k \in Keys \cup {None},
             NEW f \in Shapes, Submit(r, o, k, f)
      PROVE  TypeOK' /\ Owned'
  <2>1. /\ UNCHANGED <<rows, disk, cleaned, stuck, sent, crashes>>
        /\ req' \in [Requests -> Request] /\ req'[r].owner \in Owners
        /\ \A q \in Requests \ {r} : req'[q] = req[q]
    BY <1>1, SubmitFills DEF storage
  <2> QED
    BY <1>0, <2>1 DEF TypeOK, Owned
<1>2. ASSUME NEW r \in Requests, Quiet(r) PROVE TypeOK' /\ Owned'
  BY <1>0, <1>2, QuietMoves DEF TypeOK, Owned, storage
<1>3. ASSUME NEW r \in Requests, StoreFile(r) PROVE TypeOK' /\ Owned'
  <2>1. req[r].stored + 1 \in Nat
    BY <1>0 DEF Request
  <2> QED
    BY <1>0, <1>3, <2>1, StoreFileAdvances DEF TypeOK, Owned
<1>4. ASSUME NEW r \in Requests, InsertRow(r) PROVE TypeOK' /\ Owned'
  <2>1. NewRow(r) \in Row
    BY <1>4, RowIsNew
  <2>2. rows' \in [Requests -> Row \cup {None}]
    BY <1>0, <1>4, <2>1, RowInserted
  <2> QED
    BY <1>0, <1>4, <2>2, RowInserted DEF TypeOK, Owned, storage
<1>5. ASSUME NEW r \in Requests, JobEnds(r) \/ JobRevives(r) PROVE TypeOK' /\ Owned'
  BY <1>0, <1>5, JobMoves DEF TypeOK, Owned, storage
<1>6. ASSUME NEW r \in Requests, DeleteFiles(r) PROVE TypeOK' /\ Owned'
  BY <1>0, <1>6, FilesGo DEF TypeOK, Owned
<1>7. CASE UNCHANGED vars
  BY <1>0, <1>7 DEF vars, storage, TypeOK, Owned
<1> QED
  BY <1>1, <1>2, <1>3, <1>4, <1>5, <1>6, <1>7, Steps

\* A row is inserted once, by its request, and never gets another key.
LEMMA KeepsRows ==
    ASSUME TypeOK, Owned, RowsMatch, FilesStored, [Next]_vars
    PROVE  RowsMatch'
<1>0. /\ req \in [Requests -> Request] /\ rows \in [Requests -> Row \cup {None}]
  BY DEF TypeOK
<1>1. ASSUME NEW r \in Requests, NEW o \in Owners, NEW k \in Keys \cup {None},
             NEW f \in Shapes, Submit(r, o, k, f)
      PROVE  RowsMatch'
  BY <1>0, <1>1, SubmitFills DEF RowsMatch, Manifest
<1>2. ASSUME NEW r \in Requests, Quiet(r) PROVE RowsMatch'
  BY <1>0, <1>2, QuietMoves DEF RowsMatch, Manifest
<1>3. ASSUME NEW r \in Requests, StoreFile(r) PROVE RowsMatch'
  BY <1>0, <1>3, StoreFileAdvances DEF RowsMatch, Manifest
<1>4. ASSUME NEW r \in Requests, InsertRow(r) PROVE RowsMatch'
  <2>1. /\ rows'[r] = NewRow(r)
        /\ \A q \in Requests \ {r} : rows'[q] = rows[q] /\ req'[q] = req[q]
        /\ req'[r].pc = "dispatch" /\ req'[r].key = req[r].key
        /\ req'[r].files = req[r].files
    BY <1>0, <1>4, RowInserted
  <2>2. /\ NewRow(r).key = req[r].key /\ NewRow(r).files = Manifest(r)
    BY DEF NewRow
  <2>3. NewRow(r) # None
    BY <1>4, RowIsNew
  <2>4. \A q \in Requests : Manifest(q)' = Manifest(q)
    BY <2>1 DEF Manifest
  <2>5. \A j \in Requests : rows[j] # None /\ req[r].key # None => rows[j].key # req[r].key
    BY <1>4, RowInserted DEF JobsWithKey
  <2>6. \A j \in Requests :
          /\ req'[j].pc = "dispatch" => rows'[j] # None
          /\ rows'[j] # None =>
                /\ req'[j].pc \in {"dispatch", "done"}
                /\ rows'[j].key = req'[j].key
                /\ rows'[j].files = Manifest(j)'
    BY <2>1, <2>2, <2>3, <2>4 DEF RowsMatch
  <2>7. \A j, k \in Requests :
          /\ rows'[j] # None /\ rows'[k] # None
          /\ rows'[j].key = rows'[k].key /\ rows'[j].key # None
          => j = k
    BY <2>1, <2>2, <2>5 DEF RowsMatch
  <2> QED
    BY <2>6, <2>7 DEF RowsMatch
<1>5. ASSUME NEW r \in Requests, JobEnds(r) \/ JobRevives(r) PROVE RowsMatch'
  <2>1. \A q \in Requests : rows'[q] # None => rows[q] # None
                              /\ rows'[q].key = rows[q].key
                              /\ rows'[q].files = rows[q].files
    BY <1>5, JobMoves
  <2>2. req' = req /\ \A q \in Requests : rows[q] # None => rows'[q] # None
    BY <1>5, JobMoves
  <2> QED
    BY <2>1, <2>2 DEF RowsMatch, Manifest
<1>6. ASSUME NEW r \in Requests, DeleteFiles(r) PROVE RowsMatch'
  BY <1>6, FilesGo DEF RowsMatch, Manifest
<1>7. CASE UNCHANGED vars
  BY <1>7 DEF vars, RowsMatch, Manifest
<1> QED
  BY <1>1, <1>2, <1>3, <1>4, <1>5, <1>6, <1>7, Steps

\* An answered request stays answered, and its job stays in the database.
LEMMA KeepsAnswers ==
    ASSUME TypeOK, RowsMatch, Answered, FilesStored, [Next]_vars
    PROVE  Answered'
<1>0. /\ req \in [Requests -> Request] /\ rows \in [Requests -> Row \cup {None}]
  BY DEF TypeOK
<1>1. ASSUME NEW r \in Requests, NEW o \in Owners, NEW k \in Keys \cup {None},
             NEW f \in Shapes, Submit(r, o, k, f)
      PROVE  Answered'
  <2>1. /\ rows' = rows /\ req'[r].answer = "none"
        /\ \A q \in Requests \ {r} : req'[q] = req[q]
    BY <1>1, SubmitFills
  <2> QED
    BY <2>1 DEF Answered
<1>2. ASSUME NEW r \in Requests, Quiet(r) PROVE Answered'
  BY <1>0, <1>2, QuietMoves DEF Answered, RowsMatch, JobsWithKey
<1>3. ASSUME NEW r \in Requests, StoreFile(r) PROVE Answered'
  BY <1>0, <1>3, StoreFileAdvances DEF Answered
<1>4. ASSUME NEW r \in Requests, InsertRow(r) PROVE Answered'
  <2>1. rows[r] = None
    BY <1>4, RowInserted DEF RowsMatch
  <2>2. \A q \in Requests : rows[q] # None => rows'[q] = rows[q]
    BY <1>0, <1>4, <2>1, RowInserted
  <2> QED
    BY <1>4, <2>2, RowInserted DEF Answered
<1>5. ASSUME NEW r \in Requests, JobEnds(r) \/ JobRevives(r) PROVE Answered'
  <2>1. req' = req /\ \A q \in Requests : rows[q] # None => rows'[q] # None
                                           /\ rows'[q].key = rows[q].key
    BY <1>5, JobMoves
  <2> QED
    BY <2>1 DEF Answered
<1>6. ASSUME NEW r \in Requests, DeleteFiles(r) PROVE Answered'
  BY <1>6, FilesGo DEF Answered
<1>7. CASE UNCHANGED vars
  BY <1>7 DEF vars, Answered
<1> QED
  BY <1>1, <1>2, <1>3, <1>4, <1>5, <1>6, <1>7, Steps

\* Files are written in order before the row, and deleted by whoever ends the job.
LEMMA KeepsStored ==
    ASSUME TypeOK, RowsMatch, FilesStored, [Next]_vars
    PROVE  FilesStored'
<1>0. /\ req \in [Requests -> Request] /\ rows \in [Requests -> Row \cup {None}]
      /\ \A q \in Requests : Len(req[q].files) \in Nat /\ req[q].stored \in Nat
  BY DEF TypeOK, Request
<1>1. ASSUME NEW r \in Requests, NEW o \in Owners, NEW k \in Keys \cup {None},
             NEW f \in Shapes, Submit(r, o, k, f)
      PROVE  FilesStored'
  <2>1. /\ rows' = rows /\ disk' = disk /\ cleaned' = cleaned
        /\ req[r].pc = "new"
        /\ req'[r].pc = "lookup" /\ req'[r].stored = 0 /\ req'[r].files = f
        /\ \A q \in Requests \ {r} : req'[q] = req[q]
    BY <1>1, SubmitFills DEF storage
  <2>2. rows[r] = None /\ req[r].stored = 0
    BY <2>1 DEF RowsMatch, FilesStored
  <2>3. Len(f) \in Nat
    BY AdmissionAssumption
  <2> QED
    BY <1>0, <2>1, <2>2, <2>3 DEF FilesStored
<1>2. ASSUME NEW r \in Requests, Quiet(r) PROVE FilesStored'
  BY <1>0, <1>2, QuietMoves DEF FilesStored, storage
<1>3. ASSUME NEW r \in Requests, StoreFile(r) PROVE FilesStored'
  <2> DEFINE n == req[r].stored + 1
  <2>1. /\ rows' = rows /\ disk' = disk \cup {<<r, n>>} /\ cleaned' = cleaned
        /\ req[r].pc = "store" /\ n <= Len(req[r].files)
        /\ req'[r].pc = "store" /\ req'[r].stored = n
        /\ req'[r].files = req[r].files
        /\ \A q \in Requests \ {r} : req'[q] = req[q]
    BY <1>3, StoreFileAdvances
  <2>2. rows[r] = None
    BY <2>1 DEF RowsMatch
  <2>3. 1..n = 1..req[r].stored \cup {n}
    BY <1>0
  <2>4. n \in 1..n
    BY <1>0
  <2>5. \A q \in Requests \ {r}, i \in Nat : <<q, i>> \in disk' <=> <<q, i>> \in disk
    BY <2>1
  <2>6. \A i \in Nat : <<r, i>> \in disk' <=> i = n \/ <<r, i>> \in disk
    BY <1>0, <2>1
  <2> HIDE DEF n
  <2>7. \A i \in Nat : <<r, i>> \in disk' => i \in 1..n
    BY <2>3, <2>4, <2>6 DEF FilesStored
  <2>8. \A i \in 1..n : <<r, i>> \in disk'
    BY <2>1, <2>3 DEF FilesStored
  <2> QED
    BY <1>0, <2>1, <2>2, <2>5, <2>7, <2>8 DEF FilesStored
<1>4. ASSUME NEW r \in Requests, InsertRow(r) PROVE FilesStored'
  <2>1. /\ disk' = disk /\ cleaned' = cleaned
        /\ req[r].pc = "store" /\ req'[r].pc = "dispatch"
        /\ req'[r].stored = req[r].stored /\ req'[r].files = req[r].files
        /\ req[r].stored = Len(req[r].files)
        /\ \A q \in Requests \ {r} : req'[q] = req[q] /\ rows'[q] = rows[q]
    BY <1>0, <1>4, RowInserted DEF storage
  <2> QED
    BY <2>1 DEF FilesStored
<1>5. ASSUME NEW r \in Requests, JobEnds(r) \/ JobRevives(r) PROVE FilesStored'
  <2>1. /\ req' = req /\ disk' = disk /\ cleaned' = cleaned
        /\ \A q \in Requests : rows'[q] # None => rows[q] # None
    BY <1>5, JobMoves DEF storage
  <2> QED
    BY <2>1 DEF FilesStored
<1>6. ASSUME NEW r \in Requests, DeleteFiles(r) PROVE FilesStored'
  <2>1. /\ req' = req /\ rows' = rows /\ rows[r] # None
        /\ cleaned' = cleaned \cup {r} /\ disk' \subseteq disk
    BY <1>6, FilesGo
  <2>2. req[r].pc # "store"
    BY <2>1 DEF RowsMatch
  <2>3. \A q \in Requests \ {r}, i \in Nat : <<q, i>> \in disk => <<q, i>> \in disk'
    BY <1>6, FilesGo
  <2> QED
    BY <1>0, <2>1, <2>2, <2>3 DEF FilesStored
<1>7. CASE UNCHANGED vars
  BY <1>7 DEF vars, storage, FilesStored
<1> QED
  BY <1>1, <1>2, <1>3, <1>4, <1>5, <1>6, <1>7, Steps

\* Nobody deletes files before there is a row, or adds files afterwards.
LEMMA KeepsDeleted ==
    ASSUME TypeOK, RowsMatch, FilesStored, Deleted, [Next]_vars
    PROVE  Deleted'
<1>0. disk \subseteq Requests \X Nat /\ cleaned \subseteq Requests
      /\ rows \in [Requests -> Row \cup {None}]
  BY DEF TypeOK
<1>1. ASSUME NEW r \in Requests, NEW o \in Owners, NEW k \in Keys \cup {None},
             NEW f \in Shapes, Submit(r, o, k, f)
      PROVE  Deleted'
  BY <1>1, SubmitFills DEF Deleted, storage
<1>2. ASSUME NEW r \in Requests, Quiet(r) PROVE Deleted'
  BY <1>2, QuietMoves DEF Deleted, storage
<1>3. ASSUME NEW r \in Requests, StoreFile(r) PROVE Deleted'
  <2>1. rows[r] = None
    BY <1>3, StoreFileAdvances DEF RowsMatch
  <2>2. /\ rows' = rows /\ cleaned' = cleaned /\ stuck' = stuck
        /\ disk' = disk \cup {<<r, req[r].stored + 1>>}
    BY <1>3, StoreFileAdvances
  <2> QED
    BY <2>1, <2>2 DEF Deleted
<1>4. ASSUME NEW r \in Requests, InsertRow(r) PROVE Deleted'
  <2>1. /\ UNCHANGED storage
        /\ \A q \in Requests \ {r} : rows'[q] = rows[q]
        /\ req[r].pc = "store"
    BY <1>0, <1>4, RowInserted
  <2>2. rows[r] = None
    BY <2>1 DEF RowsMatch
  <2> QED
    BY <1>0, <2>1, <2>2 DEF Deleted, storage
<1>5. ASSUME NEW r \in Requests, JobEnds(r) \/ JobRevives(r) PROVE Deleted'
  <2>1. UNCHANGED storage /\ \A q \in Requests : rows[q] # None => rows'[q] # None
    BY <1>5, JobMoves
  <2> QED
    BY <1>0, <2>1 DEF Deleted, storage
<1>6. ASSUME NEW r \in Requests, DeleteFiles(r) PROVE Deleted'
  BY <1>6, FilesGo DEF Deleted
<1>7. CASE UNCHANGED vars
  BY <1>7 DEF vars, storage, Deleted
<1> QED
  BY <1>1, <1>2, <1>3, <1>4, <1>5, <1>6, <1>7, Steps

\* Files outlive their job only if they never had one, or could not be deleted.
LEMMA KeepsAccounts ==
    ASSUME TypeOK, Owned, RowsMatch, Answered, FilesStored, Deleted,
           FilesAccountedFor, [Next]_vars
    PROVE  FilesAccountedFor'
<1> DEFINE Accounted(r) == \/ rows[r] # None /\ rows[r].state # "ended"
                           \/ rows[r] = None /\ (r \in InFlight \/ req[r].answer # "202")
<1>0. \A f \in disk : f[1] \in Requests /\ f[2] \in Nat /\ f = <<f[1], f[2]>>
  BY DEF TypeOK
<1>A. \A f \in disk : Accounted(f[1]) \/ f \in stuck
  BY DEF FilesAccountedFor
<1>B. SUFFICES \A f \in disk' : Accounted(f[1])' \/ f \in stuck'
  BY DEF FilesAccountedFor
<1> HIDE DEF Accounted
<1>1. ASSUME NEW r \in Requests, NEW o \in Owners, NEW k \in Keys \cup {None},
             NEW f \in Shapes, Submit(r, o, k, f)
      PROVE  \A g \in disk' : Accounted(g[1])' \/ g \in stuck'
  <2>1. /\ rows' = rows /\ disk' = disk /\ stuck' = stuck /\ req'[r].pc = "lookup"
        /\ req[r].pc = "new" /\ \A q \in Requests \ {r} : req'[q] = req[q]
    BY <1>1, SubmitFills DEF storage
  <2> QED
    BY <1>0, <1>A, <2>1 DEF Accounted, RowsMatch, InFlight
<1>2. ASSUME NEW r \in Requests, Quiet(r)
      PROVE  \A g \in disk' : Accounted(g[1])' \/ g \in stuck'
  <2>1. rows' = rows /\ UNCHANGED <<disk, stuck>> /\ \A q \in Requests \ {r} : req'[q] = req[q]
    BY <1>2, QuietMoves DEF storage
  <2>2. ASSUME NEW g \in disk, g[1] # r PROVE Accounted(g[1])' \/ g \in stuck'
    BY <1>0, <1>A, <2>1, <2>2 DEF Accounted, InFlight
  <2>3. ASSUME NEW g \in disk, g[1] = r, rows[r] = None PROVE Accounted(g[1])'
    <3>1. req[r].pc # "lookup"
      BY <1>0, <2>3 DEF FilesStored
    <3>2. req[r].pc # "dispatch"
      BY <2>3 DEF RowsMatch
    <3>3. req[r].answer = "202" => req[r].pc = "done"
      BY DEF Answered
    <3>4. \/ req'[r].pc \notin {"new", "done"}
          \/ req'[r].answer # "202"
      BY <1>2, <3>1, <3>2, <3>3, QuietMoves
    <3> QED
      BY <2>1, <2>3, <3>4 DEF Accounted, InFlight
  <2>4. ASSUME NEW g \in disk, g[1] = r, rows[r] # None PROVE Accounted(g[1])' \/ g \in stuck'
    BY <1>A, <2>1, <2>4 DEF Accounted
  <2> QED
    BY <2>1, <2>2, <2>3, <2>4
<1>3. ASSUME NEW r \in Requests, StoreFile(r)
      PROVE  \A g \in disk' : Accounted(g[1])' \/ g \in stuck'
  <2>1. /\ rows' = rows /\ stuck' = stuck
        /\ disk' = disk \cup {<<r, req[r].stored + 1>>}
        /\ req[r].pc = "store" /\ req'[r].pc = "store"
        /\ \A q \in Requests \ {r} : req'[q] = req[q]
    BY <1>3, StoreFileAdvances
  <2>2. rows[r] = None
    BY <2>1 DEF RowsMatch
  <2>3. Accounted(r)'
    BY <2>1, <2>2 DEF Accounted, InFlight
  <2>4. ASSUME NEW g \in disk, g[1] # r PROVE Accounted(g[1])' \/ g \in stuck'
    BY <1>0, <1>A, <2>1, <2>4 DEF Accounted, InFlight
  <2> QED
    BY <2>1, <2>3, <2>4
<1>4. ASSUME NEW r \in Requests, InsertRow(r)
      PROVE  \A g \in disk' : Accounted(g[1])' \/ g \in stuck'
  <2>1. /\ UNCHANGED <<disk, stuck>> /\ req'[r].pc = "dispatch" /\ rows'[r] = NewRow(r)
        /\ \A q \in Requests \ {r} : req'[q] = req[q] /\ rows'[q] = rows[q]
    BY <1>4, RowInserted DEF TypeOK, storage
  <2>2. Accounted(r)'
    BY <1>4, <2>1, RowIsNew DEF Accounted, NewRow
  <2>3. ASSUME NEW g \in disk, g[1] # r PROVE Accounted(g[1])' \/ g \in stuck'
    BY <1>0, <1>A, <2>1, <2>3 DEF Accounted, InFlight
  <2> QED
    BY <2>1, <2>2, <2>3
<1>5. ASSUME NEW r \in Requests, JobEnds(r) \/ JobRevives(r)
      PROVE  \A g \in disk' : Accounted(g[1])' \/ g \in stuck'
  <2>1. /\ req' = req /\ UNCHANGED <<disk, stuck>>
        /\ \A q \in Requests \ {r} : rows'[q] = rows[q]
        /\ rows'[r] # None
        /\ \/ rows'[r].state = "ended" /\ r \in cleaned
           \/ rows'[r].state = "revived"
    BY <1>5, JobMoves DEF storage
  <2>2. ASSUME NEW g \in disk, g[1] # r PROVE Accounted(g[1])' \/ g \in stuck'
    BY <1>0, <1>A, <2>1, <2>2 DEF Accounted, InFlight
  <2>3. ASSUME NEW g \in disk, g[1] = r PROVE Accounted(g[1])' \/ g \in stuck'
    BY <2>1, <2>3 DEF Accounted, Deleted
  <2> QED
    BY <2>1, <2>2, <2>3
<1>6. ASSUME NEW r \in Requests, DeleteFiles(r)
      PROVE  \A g \in disk' : Accounted(g[1])' \/ g \in stuck'
  <2>1. req' = req /\ rows' = rows /\ disk' \subseteq disk
    BY <1>6, FilesGo
  <2>2. ASSUME NEW g \in disk', g[1] # r PROVE Accounted(g[1])' \/ g \in stuck'
    BY <1>6, <1>A, <2>1, <2>2, FilesGo DEF Accounted, InFlight
  <2> QED
    BY <1>6, <2>2, FilesGo
<1>7. CASE UNCHANGED vars
  BY <1>7, <1>A DEF vars, storage, Accounted, InFlight
<1> QED
  BY <1>1, <1>2, <1>3, <1>4, <1>5, <1>6, <1>7, Steps

\* Admitting a request, or inserting its row, keeps an owner under the bound.
LEMMA KeepsLimits ==
    ASSUME TypeOK, Owned, RowsMatch, FilesStored, Limits, [Next]_vars
    PROVE  Limits'
<1>0. /\ IsFiniteSet(Requests) /\ MaxConcurrent \in Nat \ {0} /\ MaxInFlight \in Nat \ {0}
      /\ rows \in [Requests -> Row \cup {None}]
  BY AdmissionAssumption DEF TypeOK
<1>F. ASSUME NEW S, NEW T, S \subseteq T, T \subseteq Requests
      PROVE  /\ IsFiniteSet(S) /\ IsFiniteSet(T)
             /\ Cardinality(S) \in Nat /\ Cardinality(T) \in Nat
             /\ Cardinality(S) <= Cardinality(T)
  <2>1. IsFiniteSet(T)
    BY <1>0, <1>F, FS_Subset
  <2>2. IsFiniteSet(S) /\ Cardinality(S) <= Cardinality(T)
    BY <1>F, <2>1, FS_Subset
  <2> QED
    BY <2>1, <2>2, FS_CardinalityType
<1>S. /\ InFlight \subseteq Requests /\ InFlight' \subseteq Requests
      /\ \A o \in Owners :
            /\ FreshJobs(o) \subseteq Requests /\ FreshJobs(o)' \subseteq Requests
            /\ Passing(o) \subseteq InFlight /\ Passing(o)' \subseteq InFlight'
            /\ Passing(o) \subseteq Requests /\ Passing(o)' \subseteq Requests
  BY DEF InFlight, FreshJobs, Passing
<1>D. ASSUME InFlight' \subseteq InFlight,
             \A o \in Owners : /\ FreshJobs(o)' \subseteq FreshJobs(o)
                               /\ Passing(o)' \subseteq Passing(o)
      PROVE  Limits'
  <2>1. Cardinality(InFlight)' <= MaxInFlight
    BY <1>0, <1>F, <1>S, <1>D DEF Limits
  <2>2. ASSUME NEW o \in Owners
        PROVE  Cardinality(FreshJobs(o)') + Cardinality(Passing(o)')
                  <= MaxConcurrent - 1 + MaxInFlight
    <3>1. /\ Cardinality(FreshJobs(o)') \in Nat /\ Cardinality(FreshJobs(o)) \in Nat
          /\ Cardinality(FreshJobs(o)') <= Cardinality(FreshJobs(o))
      BY <1>F, <1>S, <1>D
    <3>2. /\ Cardinality(Passing(o)') \in Nat /\ Cardinality(Passing(o)) \in Nat
          /\ Cardinality(Passing(o)') <= Cardinality(Passing(o))
      BY <1>F, <1>S, <1>D
    <3> QED
      BY <1>0, <3>1, <3>2 DEF Limits
  <2> QED
    BY <2>1, <2>2 DEF Limits
<1>1. ASSUME NEW r \in Requests, NEW o \in Owners, NEW k \in Keys \cup {None},
             NEW f \in Shapes, Submit(r, o, k, f)
      PROVE  Limits'
  <2>1. /\ rows' = rows /\ req'[r].pc = "lookup" /\ req[r].pc = "new"
        /\ \A q \in Requests \ {r} : req'[q] = req[q]
        /\ Cardinality(InFlight) < MaxInFlight
    BY <1>1, SubmitFills
  <2>2. InFlight' = InFlight \cup {r} /\ r \notin InFlight
    BY <2>1 DEF InFlight
  <2>3. Cardinality(InFlight') = Cardinality(InFlight) + 1
    BY <2>2, <1>F, <1>S, FS_AddElement
  <2>4. Cardinality(InFlight') <= MaxInFlight
    BY <1>0, <1>F, <1>S, <2>1, <2>3
  <2>5. \A p \in Owners : FreshJobs(p)' = FreshJobs(p) /\ Passing(p)' = Passing(p)
    BY <2>1 DEF FreshJobs, Passing
  <2> QED
    BY <2>4, <2>5 DEF Limits
<1>2. ASSUME NEW r \in Requests, Quiet(r) PROVE Limits'
  <2>1. /\ rows' = rows /\ req'[r].owner = req[r].owner
        /\ req[r].pc \notin {"new", "done"}
        /\ \A q \in Requests \ {r} : req'[q] = req[q]
    BY <1>2, QuietMoves
  <2>2. InFlight' \subseteq InFlight /\ r \in InFlight
    BY <2>1 DEF InFlight
  <2>3. \A p \in Owners : FreshJobs(p)' = FreshJobs(p)
    BY <2>1 DEF FreshJobs
  <2>4. CASE req'[r].pc # "store"
    <3>1. \A p \in Owners : Passing(p)' \subseteq Passing(p)
      BY <2>1, <2>4 DEF Passing
    <3> QED
      BY <1>D, <2>2, <2>3, <3>1
  <2>5. CASE req'[r].pc = "store"
    <3>1. PICK o \in Owners : o = req[r].owner
      BY <2>1 DEF Owned
    <3>2. /\ req[r].pc = "count" /\ Cardinality(FreshJobs(o)) < MaxConcurrent
      <4>1. /\ req[r].pc = "count" /\ Cardinality(ActiveJobs(o)) < MaxConcurrent
        BY <1>2, <2>5, <3>1, QuietMoves
      <4>2. FreshJobs(o) \subseteq ActiveJobs(o) /\ ActiveJobs(o) \subseteq Requests
        BY DEF FreshJobs, ActiveJobs
      <4>3. /\ Cardinality(FreshJobs(o)) \in Nat /\ Cardinality(ActiveJobs(o)) \in Nat
            /\ Cardinality(FreshJobs(o)) <= Cardinality(ActiveJobs(o))
        BY <1>F, <4>2
      <4> QED
        BY <1>0, <4>1, <4>3
    <3>3. r \in InFlight' /\ InFlight' = InFlight
      BY <2>1, <2>5 DEF InFlight
    <3>4. Cardinality(Passing(o)') <= MaxInFlight
      BY <1>0, <1>F, <1>S, <3>3 DEF Limits
    <3>5. Cardinality(FreshJobs(o)') + Cardinality(Passing(o)')
             <= MaxConcurrent - 1 + MaxInFlight
      <4>1. Cardinality(FreshJobs(o)') \in Nat /\ Cardinality(Passing(o)') \in Nat
        BY <1>F, <1>S
      <4>2. Cardinality(FreshJobs(o)') < MaxConcurrent
        BY <2>3, <3>2
      <4> QED
        BY <1>0, <4>1, <4>2, <3>4
    <3>6. \A p \in Owners \ {o} : Passing(p)' = Passing(p)
      BY <2>1, <3>1 DEF Passing
    <3> QED
      BY <2>3, <3>3, <3>5, <3>6 DEF Limits
  <2> QED
    BY <2>4, <2>5
<1>3. ASSUME NEW r \in Requests, StoreFile(r) PROVE Limits'
  <2>1. /\ rows' = rows /\ req[r].pc = "store" /\ req'[r].pc = "store"
        /\ req'[r].owner = req[r].owner
        /\ \A q \in Requests \ {r} : req'[q] = req[q]
    BY <1>3, StoreFileAdvances
  <2> QED
    BY <2>1, <1>D DEF InFlight, FreshJobs, Passing
<1>4. ASSUME NEW r \in Requests, InsertRow(r) PROVE Limits'
  <2>1. /\ req[r].pc = "store" /\ req'[r].pc = "dispatch"
        /\ req'[r].owner = req[r].owner
        /\ \A q \in Requests \ {r} : req'[q] = req[q] /\ rows'[q] = rows[q]
        /\ rows'[r] = NewRow(r)
    BY <1>0, <1>4, RowInserted
  <2>2. InFlight' = InFlight
    BY <2>1 DEF InFlight
  <2>3. PICK o \in Owners : o = req[r].owner
    BY <2>1 DEF Owned
  <2>4. rows[r] = None
    BY <2>1 DEF RowsMatch
  <2>5. FreshJobs(o)' = FreshJobs(o) \cup {r} /\ r \notin FreshJobs(o)
    BY <1>4, <2>1, <2>3, <2>4, RowIsNew DEF FreshJobs, NewRow
  <2>6. Passing(o)' = Passing(o) \ {r} /\ r \in Passing(o)
    BY <2>1, <2>3 DEF Passing
  <2>7. \A p \in Owners \ {o} : /\ FreshJobs(p)' = FreshJobs(p)
                                /\ Passing(p)' = Passing(p)
    BY <2>1, <2>3, <2>4 DEF FreshJobs, NewRow, Passing
  <2>8. /\ Cardinality(FreshJobs(o)') = Cardinality(FreshJobs(o)) + 1
        /\ Cardinality(Passing(o)') = Cardinality(Passing(o)) - 1
    <3>1. IsFiniteSet(FreshJobs(o)) /\ IsFiniteSet(Passing(o))
      BY <1>F, <1>S, <2>3
    <3>2. Cardinality(FreshJobs(o) \cup {r}) = Cardinality(FreshJobs(o)) + 1
      BY <3>1, <2>5, FS_AddElement
    <3>3. Cardinality(Passing(o) \ {r}) = Cardinality(Passing(o)) - 1
      BY <3>1, <2>6, FS_RemoveElement
    <3> QED
      BY <3>2, <3>3, <2>5, <2>6
  <2>9. Cardinality(FreshJobs(o)) \in Nat /\ Cardinality(Passing(o)) \in Nat
    BY <1>F, <1>S, <2>3
  <2>10. Cardinality(FreshJobs(o)') + Cardinality(Passing(o)')
            <= MaxConcurrent - 1 + MaxInFlight
    BY <1>0, <2>3, <2>8, <2>9 DEF Limits
  <2> QED
    BY <2>2, <2>7, <2>10 DEF Limits
<1>5. ASSUME NEW r \in Requests, JobEnds(r) \/ JobRevives(r) PROVE Limits'
  <2>1. /\ req' = req /\ rows'[r].state # "active"
        /\ \A q \in Requests \ {r} : rows'[q] = rows[q]
    BY <1>5, JobMoves
  <2> QED
    BY <2>1, <1>D DEF InFlight, FreshJobs, Passing
<1>6. ASSUME NEW r \in Requests, DeleteFiles(r) PROVE Limits'
  <2>1. req' = req /\ rows' = rows
    BY <1>6, FilesGo
  <2> QED
    BY <2>1 DEF Limits, InFlight, FreshJobs, Passing
<1>7. CASE UNCHANGED vars
  BY <1>7 DEF vars, Limits, InFlight, FreshJobs, Passing
<1> QED
  BY <1>1, <1>2, <1>3, <1>4, <1>5, <1>6, <1>7, Steps

-----------------------------------------------------------------------------
\* At first there are no rows, no files and no answers.
LEMMA Initially == Init => AInv
<1> SUFFICES ASSUME Init PROVE AInv
  OBVIOUS
<1>0. <<>> \in Seq(Verdicts) /\ Len(<<>>) = 0
  OBVIOUS
<1>1. NewRequest \in Request
  BY <1>0 DEF NewRequest, Request, PCs, Answers
<1>2. \A r \in Requests : /\ req[r] = NewRequest /\ rows[r] = None
                          /\ req[r].pc = "new" /\ req[r].answer = "none"
                          /\ req[r].stored = 0 /\ req[r].files = <<>>
  BY DEF Init, NewRequest
<1>3. TypeOK
  BY <1>1 DEF Init, TypeOK
<1>4. Owned /\ RowsMatch /\ Answered
  BY <1>2 DEF Owned, RowsMatch, Answered
<1>5. FilesStored /\ Deleted /\ FilesAccountedFor
  BY <1>0, <1>2 DEF Init, FilesStored, Deleted, FilesAccountedFor
<1>6. Limits
  <2>1. InFlight = {} /\ \A o \in Owners : FreshJobs(o) = {} /\ Passing(o) = {}
    BY <1>2 DEF InFlight, FreshJobs, Passing
  <2>2. Cardinality({}) = 0
    BY FS_EmptySet
  <2>3. 0 <= MaxInFlight /\ 0 + 0 <= MaxConcurrent - 1 + MaxInFlight
    BY AdmissionAssumption
  <2> QED
    BY <2>1, <2>2, <2>3 DEF Limits
<1> QED
  BY <1>3, <1>4, <1>5, <1>6 DEF AInv

\* The inductive invariant holds in every reachable state.
THEOREM AdmissionInvariant == Spec => []AInv
<1>1. AInv /\ [Next]_vars => AInv'
  BY KeepsTypes, KeepsRows, KeepsAnswers, KeepsStored, KeepsDeleted, KeepsAccounts,
     KeepsLimits
     DEF AInv
<1> QED
  BY Initially, <1>1, PTL DEF Spec

\* Rows, files on disk, messages and requests keep their types, at every step of
\* every handler.
THEOREM TypeCorrect == Spec => []TypeOK
<1>1. AInv => TypeOK
  BY DEF AInv
<1> QED
  BY AdmissionInvariant, <1>1, PTL

\* Two accepted requests with one Idempotency-Key get the same job, in whatever
\* order the lookups, inserts and answers of an API process interleave.
THEOREM OneJobPerKey == Spec => []SameKeySameJob
<1>1. AInv => SameKeySameJob
  BY DEF AInv, Answered, RowsMatch, SameKeySameJob
<1> QED
  BY AdmissionInvariant, <1>1, PTL

\* The limit of active jobs is exceeded by less than the number of requests
\* that the API process handles at the same time, not counting jobs that ended
\* and that an old copy of the row made active again.
THEOREM LimitNearlyKept == Spec => []OvershootBounded
<1>1. AInv => OvershootBounded
  <2> SUFFICES ASSUME AInv, NEW o \in Owners
               PROVE  Cardinality(FreshJobs(o)) <= MaxConcurrent - 1 + MaxInFlight
    BY DEF OvershootBounded
  <2>1. FreshJobs(o) \subseteq Requests /\ Passing(o) \subseteq Requests
    BY DEF FreshJobs, Passing
  <2>2. IsFiniteSet(FreshJobs(o)) /\ IsFiniteSet(Passing(o))
    BY <2>1, AdmissionAssumption, FS_Subset
  <2>3. Cardinality(FreshJobs(o)) \in Nat /\ Cardinality(Passing(o)) \in Nat
    BY <2>2, FS_CardinalityType
  <2>4. Cardinality(FreshJobs(o)) + Cardinality(Passing(o))
           <= MaxConcurrent - 1 + MaxInFlight
    BY DEF AInv, Limits
  <2> QED
    BY <2>3, <2>4, AdmissionAssumption
<1> QED
  BY AdmissionInvariant, <1>1, PTL

\* A job that nobody has begun to clean up has all the files of its upload, and
\* lists them, whatever workers die or commit in between.
THEOREM UploadsAreComplete == Spec => []UploadsComplete
<1>1. AInv => UploadsComplete
  BY DEF AInv, RowsMatch, FilesStored, Manifest, UploadsComplete
<1> QED
  BY AdmissionInvariant, <1>1, PTL

\* Only a request that is not accepted can leave files that nobody tries to
\* delete, whether files go before a job ends, after, or without its end.
THEOREM FilesHaveOwners == Spec => []FilesAccountedFor
<1>1. AInv => FilesAccountedFor
  BY DEF AInv
<1> QED
  BY AdmissionInvariant, <1>1, PTL
=============================================================================
