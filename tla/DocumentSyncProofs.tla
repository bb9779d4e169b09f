-------------------------- MODULE DocumentSyncProofs --------------------------
(***************************************************************************)
(* The table of documents and Dify agree, for any papers, histories,       *)
(* workers and faults.  What a row says was sent is a matter of locks and  *)
(* of column-wise updates (SInv); that it is the latest word of Dify is    *)
(* one of tasks that do not overlap and papers that share no document      *)
(* (LInv).                                                                 *)
(***************************************************************************)
EXTENDS DocumentSync, TLAPS

-----------------------------------------------------------------------------
(* Types.                                                                  *)

Document == [key : Keys, content : Jobs]

\* The waits are numbers only if there are finitely many workers; nothing here
\* depends on them.
Task(waits) ==
    [pc : {"idle", "look", "send", "poll"}, job : Jobs \cup {None},
     content : Jobs \cup {None}, todo : Seq(Keys), seen : Row \cup {None},
     doc : Nat, pending : Row \cup {None}, waits : waits,
     written : SUBSET Row,
     result : {"pending", "completed", "skipped", "failed"}]

\* A job that is registered.
Known(j) == j \in Jobs /\ j[2] <= latest[j[1]]

\* A task knows its job and a version that is not older.
TaskOK(t) ==
    /\ t.pc = "idle" => t.pending = None /\ t.written = {}
    /\ t.pc # "idle" =>
          /\ Known(t.job) /\ Known(t.content)
          /\ t.content[1] = t.job[1] /\ t.job[2] <= t.content[2]
    /\ t.pc \in {"send", "poll"} => t.todo # <<>> /\ t.pending = None

Typed ==
    /\ History \in Histories
    /\ latest \in [Papers -> Nat]
    /\ \A p \in Papers : latest[p] <= Len(History[p])
    /\ \A j \in queue : Known(j)
    /\ kb \in [Jobs -> {"none", "pending", "completed", "skipped", "failed"}]
    /\ table \in [Keys -> Row \cup {None}]
    /\ remote \in Seq(Document)
    /\ alone \in [Papers -> BOOLEAN]
    /\ \E waits : 0 \in waits /\ task \in [Workers -> Task(waits)]
    /\ \A w \in Workers : TaskOK(task[w])

-----------------------------------------------------------------------------
(* What was sent.                                                          *)

\* A row names a document of Dify, which holds some content of this key.
Sent(row) ==
    /\ <<row.key, row.doc, row.content>> \in sent
    /\ row.doc \in DOMAIN remote
    /\ remote[row.doc].key = row.key

\* The row that a task found for key k needs an update, and is there under the
\* same identifier: identifiers never change.
Found(t, k) ==
    t.seen # None =>
        /\ t.seen.content # t.content
        /\ table[k] # None
        /\ t.seen.doc = table[k].doc

TaskSent(t) ==
    /\ t.pc \in {"send", "poll"} => Found(t, Head(t.todo))
    /\ t.pc = "poll" =>
          /\ Sent([key |-> Head(t.todo), doc |-> t.doc, content |-> t.content])
          /\ t.seen # None => t.doc = t.seen.doc
    /\ t.pending # None =>
          /\ Sent(t.pending) /\ t.pending.content = t.content
          /\ Found(t, t.pending.key)
          /\ t.seen # None => t.pending.doc = t.seen.doc
    /\ \A row \in t.written :
          /\ Sent(row) /\ row.content = t.content
          /\ table[row.key] # None => table[row.key].doc = row.doc

TableSent ==
    \A k \in Keys : table[k] # None => table[k].key = k /\ Sent(table[k])

\* No two tasks hold the lock of a row.
Locked ==
    \A v, w \in Workers : \A a \in task[v].written, b \in task[w].written :
        a.key = b.key => v = w

\* What a task that is going to complete has behind it.
Covered(t) ==
    t.pc # "idle" /\ t.result = "completed" =>
        \A i \in DOMAIN KeysOf(t.content) :
            \/ \E m \in DOMAIN t.todo : t.todo[m] = KeysOf(t.content)[i]
            \/ \E d \in Nat : <<KeysOf(t.content)[i], d, t.content>> \in sent

SInv ==
    /\ Typed
    /\ TableSent
    /\ \A w \in Workers : TaskSent(task[w]) /\ Covered(task[w])
    /\ Locked
    /\ CompletedCoversDocuments

-----------------------------------------------------------------------------
(* Lemmas about jobs and documents.                                        *)

LEMMA JobParts ==
    ASSUME NEW j \in Jobs
    PROVE /\ j[1] \in Papers /\ j[2] \in Nat /\ j[2] >= 1
          /\ j = <<j[1], j[2]>>
<1>1. PICK p \in Papers, history \in Histories : j \in {p} \X DOMAIN history[p]
  BY DEF Jobs
<1>2. DOMAIN history[p] = 1..Len(history[p]) /\ Len(history[p]) \in Nat
  BY DocumentAssumption DEF DocumentAssumption
<1> QED
  BY <1>1, <1>2

\* A job is known by its paper and its version.
LEMMA SameJob ==
    ASSUME NEW i \in Jobs, NEW j \in Jobs,
           i[1] = j[1], i[2] <= j[2], j[2] <= i[2]
    PROVE i = j
<1>1. i[2] \in Nat /\ j[2] \in Nat
  BY JobParts
<1>2. i[2] = j[2]
  BY <1>1
<1>3. i = <<i[1], i[2]>> /\ j = <<j[1], j[2]>>
  BY JobParts
<1> QED
  BY <1>2, <1>3

LEMMA RegisteredVersion ==
    ASSUME Typed, NEW p \in Papers, NEW n \in 1..Len(History[p])
    PROVE <<p, n>> \in Jobs
<1>1. History[p] \in Seq(Seq(Keys))
  BY DocumentAssumption DEF DocumentAssumption, Typed
<1>2. n \in DOMAIN History[p]
  BY <1>1
<1>3. <<p, n>> \in {p} \X DOMAIN History[p]
  BY <1>2
<1>4. History \in Histories
  BY DEF Typed
<1> DEFINE part == {p} \X DOMAIN History[p]
           parts == {{q} \X DOMAIN history[q] : q \in Papers, history \in Histories}
<1>5. part \in parts
  BY <1>4
<1>6. ASSUME NEW job, NEW x, NEW s, job \in x, x \in s
      PROVE job \in UNION s
  BY <1>6
<1>7. <<p, n>> \in part
  BY <1>3
<1> HIDE DEF part
<1>8. <<p, n>> \in UNION parts
  BY <1>5, <1>6, <1>7
<1> QED
  BY <1>8 DEF Jobs

\* The documents of a registered job.
LEMMA KnownKeys ==
    ASSUME Typed, NEW j, Known(j)
    PROVE KeysOf(j) \in Seq(Keys)
<1>1. History[j[1]] \in Seq(Seq(Keys)) /\ j[1] \in Papers /\ j[2] \in Nat /\ j[2] >= 1
  BY JobParts, DocumentAssumption DEF DocumentAssumption, Typed, Known
<1>2. j[2] \in 1..Len(History[j[1]])
  <2>1. latest[j[1]] \in Nat /\ latest[j[1]] <= Len(History[j[1]]) /\ j[2] <= latest[j[1]]
    BY <1>1 DEF Typed, Known
  <2> QED
    BY <1>1, <2>1
<1> QED
  BY <1>1, <1>2 DEF KeysOf

\* The identifiers of a sequence with a member are the same after its head.
LEMMA TodoParts ==
    ASSUME NEW todo \in Seq(Keys), todo # <<>>
    PROVE /\ Head(todo) \in Keys /\ Tail(todo) \in Seq(Keys)
          /\ \A m \in DOMAIN todo :
                \/ todo[m] = Head(todo)
                \/ \E i \in DOMAIN Tail(todo) : Tail(todo)[i] = todo[m]
          /\ \A i \in DOMAIN Tail(todo) :
                \E m \in DOMAIN todo : todo[m] = Tail(todo)[i]
<1>1. Head(todo) \in Keys /\ Tail(todo) \in Seq(Keys)
  OBVIOUS
<1>2. ASSUME NEW m \in DOMAIN todo
      PROVE \/ todo[m] = Head(todo)
            \/ \E i \in DOMAIN Tail(todo) : Tail(todo)[i] = todo[m]
  <2>1. CASE m = 1
    BY <2>1
  <2>2. CASE m # 1
    <3>1. m - 1 \in DOMAIN Tail(todo) /\ Tail(todo)[m - 1] = todo[m]
      BY <2>2
    <3> QED
      BY <3>1
  <2> QED
    BY <2>1, <2>2
<1>3. ASSUME NEW i \in DOMAIN Tail(todo)
      PROVE \E m \in DOMAIN todo : todo[m] = Tail(todo)[i]
  <2>1. i + 1 \in DOMAIN todo /\ todo[i + 1] = Tail(todo)[i]
    OBVIOUS
  <2> QED
    BY <2>1
<1> QED
  BY <1>1, <1>2, <1>3

-----------------------------------------------------------------------------
(* What the rest of the world does to what a task or a row relies on.      *)

\* Documents of Dify are never removed, nor change their key.
DifyGrows ==
    /\ sent \subseteq sent'
    /\ DOMAIN remote \subseteq DOMAIN remote'
    /\ \A d \in DOMAIN remote : remote'[d].key = remote[d].key

\* Neither do rows, nor change their identifier.
TableKeeps ==
    \A k \in Keys : table[k] # None => table'[k] # None /\ table'[k].doc = table[k].doc

LEMMA SentStays ==
    ASSUME DifyGrows, NEW row, Sent(row)
    PROVE Sent(row)'
BY DEF DifyGrows, Sent

\* What other tasks know of the documents they sent remains true as long as
\* nobody writes the rows that they have locked.
LEMMA TaskSentStays ==
    ASSUME Typed, DifyGrows, TableKeeps, NEW v \in Workers, TaskSent(task[v]),
           task'[v] = task[v],
           \A row \in task[v].written : table'[row.key] = table[row.key]
    PROVE TaskSent(task[v])'
<1> PICK waits : 0 \in waits /\ task \in [Workers -> Task(waits)]
  BY DEF Typed
<1> DEFINE t == task[v]
<1>t. t \in Task(waits) /\ TaskOK(t)
  BY DEF Typed
<1>1. ASSUME t.pc \in {"send", "poll"}
      PROVE Found(t, Head(t.todo))'
  <2>1. Head(t.todo) \in Keys
    BY <1>1, <1>t, TodoParts DEF Task, TaskOK
  <2> QED
    BY <1>1, <2>1 DEF Found, TaskSent, TableKeeps
<1>2. ASSUME t.pc = "poll"
      PROVE Sent([key |-> Head(t.todo), doc |-> t.doc, content |-> t.content])'
  BY <1>2 DEF Sent, TaskSent, DifyGrows
<1>3. ASSUME t.pending # None
      PROVE Sent(t.pending)' /\ Found(t, t.pending.key)'
  <2>1. t.pending.key \in Keys
    BY <1>3, <1>t DEF Task, Row
  <2> QED
    BY <1>3, <2>1 DEF Found, TaskSent, TableKeeps, Sent, DifyGrows
<1>4. ASSUME NEW row \in t.written
      PROVE Sent(row)'
  BY <1>4, SentStays DEF TaskSent
<1> QED
  BY <1>1, <1>2, <1>3, <1>4 DEF TaskSent

LEMMA CoveredStays ==
    ASSUME DifyGrows, History' = History, NEW v \in Workers, Covered(task[v]),
           task'[v] = task[v]
    PROVE Covered(task[v])'
BY DEF DifyGrows, Covered, KeysOf

\* Nobody touches the table of documents or Dify.
Apart == UNCHANGED <<table, remote, sent>>

LEMMA ApartGrows ==
    ASSUME Apart
    PROVE /\ DifyGrows /\ TableKeeps
          /\ \A k : table'[k] = table[k]
BY DEF Apart, DifyGrows, TableKeeps

-----------------------------------------------------------------------------
(* Steps: what they preserve of the types.                                 *)

\* A step of w that leaves the task as t.
Leaves(w, t) == task' = [task EXCEPT ![w] = t]

LEMMA TasksTyped ==
    ASSUME Typed, NEW w \in Workers, NEW waits, 0 \in waits,
           task \in [Workers -> Task(waits)],
           NEW t \in Task(waits), Leaves(w, t), TaskOK(t)',
           History' = History, latest' = latest
    PROVE /\ \E some : 0 \in some /\ task' \in [Workers -> Task(some)]
          /\ \A v \in Workers : TaskOK(task[v])'
<1>1. task' \in [Workers -> Task(waits)]
  BY DEF Leaves
<1>2. ASSUME NEW v \in Workers
      PROVE TaskOK(task[v])'
  <2>1. CASE v = w
    <3>1. task'[v] = t
      BY <2>1 DEF Leaves
    <3> QED
      BY <3>1 DEF TaskOK, Known
  <2>2. CASE v # w
    <3>1. task'[v] = task[v]
      BY <2>2 DEF Leaves
    <3>2. TaskOK(task[v])
      BY DEF Typed
    <3> QED
      BY <3>1, <3>2 DEF TaskOK, Known
  <2> QED
    BY <2>1, <2>2
<1> QED
  BY <1>1, <1>2

\* TaskOK of a rigid t.
LEMMA TaskOKStays ==
    ASSUME NEW t, TaskOK(t), latest' = latest
    PROVE TaskOK(t)'
BY DEF TaskOK, Known

LEMMA IdleOK ==
    ASSUME NEW waits, 0 \in waits
    PROVE Idle \in Task(waits) /\ TaskOK(Idle) /\ Idle.pc = "idle"
BY DEF Idle, Task, TaskOK

-----------------------------------------------------------------------------
(* The row that is flushed.                                                *)

LEMMA FlushedRowIs ==
    ASSUME Typed, NEW w \in Workers, TaskSent(task[w]), task[w].pending # None
    PROVE /\ FlushedRow(w) \in Row
          /\ FlushedRow(w).key = task[w].pending.key
          /\ FlushedRow(w).doc = task[w].pending.doc
          /\ FlushedRow(w).content = task[w].pending.content
          /\ task[w].pending \in Row
<1> PICK waits : 0 \in waits /\ task \in [Workers -> Task(waits)]
  BY DEF Typed
<1> DEFINE new == task[w].pending
           old == task[w].seen
           now == table[new.key]
<1>1. new \in Row /\ old \in Row \cup {None}
  BY DEF Task
<1>2. CASE old = None
  BY <1>1, <1>2 DEF FlushedRow
<1>3. CASE old # None
  <2>1. /\ new.content = task[w].content
        /\ old.content # task[w].content
        /\ now # None /\ old.doc = now.doc /\ new.doc = old.doc
    BY <1>3 DEF TaskSent, Found
  <2>2. new.key \in Keys
    BY <1>1 DEF Row
  <2>3. now \in Row
    BY <2>1, <2>2 DEF Typed
  <2>4. FlushedRow(w) = [key |-> new.key, doc |-> new.doc, content |-> new.content,
                         status |-> IF new.status # old.status THEN new.status
                                                               ELSE now.status]
    BY <1>3, <2>1 DEF FlushedRow
  <2> QED
    BY <1>1, <2>3, <2>4 DEF Row
<1> QED
  BY <1>2, <1>3

\* The rows that a task writes are of what it sent, and nobody else has locked
\* one of them or written it since.
LEMMA FlushedIsSent ==
    ASSUME SInv, NEW w \in Workers, CanFlush(w), task[w].pc = "look"
    PROVE \A row \in Flushed(w) :
             /\ row \in Row /\ Sent(row) /\ row.content = task[w].content
             /\ table[row.key] # None => table[row.key].doc = row.doc
             /\ \A v \in Workers : \A b \in task[v].written : b.key = row.key => v = w
<1> PICK waits : 0 \in waits /\ task \in [Workers -> Task(waits)]
  BY DEF SInv, Typed
<1>1. TaskSent(task[w])
  BY DEF SInv
<1> SUFFICES ASSUME NEW row \in Flushed(w)
             PROVE /\ row \in Row /\ Sent(row) /\ row.content = task[w].content
                   /\ table[row.key] # None => table[row.key].doc = row.doc
                   /\ \A v \in Workers : \A b \in task[v].written : b.key = row.key => v = w
  OBVIOUS
<1>2. CASE row \in task[w].written
  <2>1. row \in Row
    BY <1>2 DEF Task
  <2> QED
    BY <1>1, <1>2, <2>1 DEF TaskSent, SInv, Locked
<1>3. CASE task[w].pending # None /\ row = FlushedRow(w)
  <2>1. /\ row \in Row /\ task[w].pending \in Row
        /\ row.key = task[w].pending.key /\ row.doc = task[w].pending.doc
        /\ row.content = task[w].pending.content
    BY <1>1, <1>3, FlushedRowIs DEF SInv
  <2>2. Sent(row) /\ row.content = task[w].content
    BY <1>1, <1>3, <2>1 DEF TaskSent, Sent
  <2>3. table[row.key] # None => table[row.key].doc = row.doc
    <3>1. CASE task[w].seen = None
      BY <1>3, <2>1, <3>1 DEF CanFlush, Conflicts, Pending
    <3>2. CASE task[w].seen # None
      BY <1>1, <1>3, <2>1, <3>2 DEF TaskSent, Found
    <3> QED
      BY <3>1, <3>2
  <2>4. ASSUME NEW v \in Workers, NEW b \in task[v].written, b.key = row.key, v # w
        PROVE FALSE
    <3>1. v \in Blockers(w)
      BY <1>3, <2>1, <2>4 DEF Blockers, Pending
    <3> QED
      BY <3>1 DEF CanFlush
  <2> QED
    BY <2>1, <2>2, <2>3, <2>4
<1> QED
  BY <1>2, <1>3 DEF Flushed

-----------------------------------------------------------------------------
(* The initial state.                                                      *)

LEMMA SentInit == Init => SInv
<1> SUFFICES ASSUME Init
             PROVE SInv
  OBVIOUS
<1>1. \A w \in Workers : task[w] = Idle
  BY DEF Init
<1>2. Typed
  <2>1. \E waits : 0 \in waits /\ task \in [Workers -> Task(waits)]
    <3>1. Idle \in Task(Nat)
      BY IdleOK
    <3>2. 0 \in Nat /\ task \in [Workers -> Task(Nat)]
      BY <3>1 DEF Init
    <3> QED
      BY <3>2
  <2>2. \A w \in Workers : TaskOK(task[w])
    BY <1>1 DEF TaskOK, Idle
  <2>3. \A p \in Papers : latest[p] <= Len(History[p])
    <3>1. ASSUME NEW p \in Papers
          PROVE History[p] \in Seq(Seq(Keys))
      BY DocumentAssumption DEF DocumentAssumption, Init
    <3> QED
      BY <3>1 DEF Init
  <2> QED
    BY <2>1, <2>2, <2>3 DEF Init, Typed
<1>3. TableSent
  BY DEF TableSent, Init
<1>4. ASSUME NEW w \in Workers
      PROVE TaskSent(task[w]) /\ Covered(task[w])
  BY <1>1 DEF TaskSent, Covered, Idle
<1>5. Locked
  BY <1>1 DEF Locked, Idle
<1>6. CompletedCoversDocuments
  BY DEF CompletedCoversDocuments, Init
<1> QED
  BY <1>2, <1>3, <1>4, <1>5, <1>6 DEF SInv

-----------------------------------------------------------------------------
(* The steps.                                                              *)

\* Completed jobs stay covered while nobody commits.
LEMMA CompletedStays ==
    ASSUME Typed, CompletedCoversDocuments, DifyGrows, History' = History,
           \A p \in Papers : latest'[p] \in Nat /\ latest[p] <= latest'[p],
           \A j \in Jobs : kb'[j] = "completed" => kb[j] = "completed"
    PROVE CompletedCoversDocuments'
<1> SUFFICES ASSUME NEW j \in Jobs, kb'[j] = "completed"
             PROVE \E n \in j[2]..latest'[j[1]] :
                      \A i \in DOMAIN History[j[1]][n] :
                          \E s \in sent' : /\ s[1] = History[j[1]][n][i]
                                           /\ s[3] = <<j[1], n>>
  BY DEF CompletedCoversDocuments
<1>1. PICK n \in j[2]..latest[j[1]] :
         \A i \in DOMAIN History[j[1]][n] :
             \E s \in sent : s[1] = History[j[1]][n][i] /\ s[3] = <<j[1], n>>
  BY DEF CompletedCoversDocuments
<1>2. n \in j[2]..latest'[j[1]]
  BY JobParts DEF Typed
<1>3. sent \subseteq sent'
  BY DEF DifyGrows
<1> QED
  BY <1>1, <1>2, <1>3

\* A step of w that keeps the table and leaves the task as t.
LEMMA TaskStep ==
    ASSUME SInv, NEW w \in Workers, NEW waits, 0 \in waits,
           task \in [Workers -> Task(waits)],
           NEW t \in Task(waits), Leaves(w, t), TaskOK(t), TaskSent(t)', Covered(t)',
           \A b \in t.written : \A v \in Workers : \A a \in task[v].written :
               a.key = b.key => v = w,
           UNCHANGED <<History, latest, table>>,
           kb' = kb, queue' \in SUBSET {j \in Jobs : Known(j)},
           alone' \in [Papers -> BOOLEAN],
           DifyGrows, remote' \in Seq(Document)
    PROVE SInv'
<1>1. Typed'
  <2>1. TaskOK(t)'
    BY TaskOKStays
  <2>2. /\ \E some : 0 \in some /\ task' \in [Workers -> Task(some)]
        /\ \A v \in Workers : TaskOK(task[v])'
    BY <2>1, TasksTyped DEF SInv
  <2>3. \A j \in queue' : Known(j)'
    BY DEF Known
  <2> QED
    BY <2>2, <2>3 DEF SInv, Typed
<1>2. TableSent'
  <2>1. TableSent
    BY DEF SInv
  <2> QED
    BY <2>1, SentStays DEF TableSent, Sent, DifyGrows
<1>3. task'[w] = t /\ \A v \in Workers : v # w => task'[v] = task[v]
  BY DEF Leaves
<1>4. ASSUME NEW v \in Workers
      PROVE TaskSent(task[v])' /\ Covered(task[v])'
  <2>1. CASE v = w
    <3>1. TaskSent(task[v])'
      BY <1>3, <2>1 DEF TaskSent, Sent, Found
    <3>2. Covered(task[v])'
      <4>1. Covered(t)' /\ task'[w] = t /\ v = w
        BY <1>3, <2>1
      <4> QED
        BY ONLY <4>1 DEF Covered, KeysOf
    <3> QED
      BY <3>1, <3>2
  <2>2. CASE v # w
    <3>1. task'[v] = task[v] /\ Typed /\ TaskSent(task[v]) /\ Covered(task[v])
      BY <1>3, <2>2 DEF SInv
    <3>2. TableKeeps /\ \A row \in task[v].written : table'[row.key] = table[row.key]
      BY DEF TableKeeps
    <3> QED
      BY <3>1, <3>2, TaskSentStays, CoveredStays
  <2> QED
    BY <2>1, <2>2
<1>5. Locked'
  <2>1. ASSUME NEW u \in Workers, NEW v \in Workers, NEW a \in task'[u].written,
               NEW b \in task'[v].written, a.key = b.key
        PROVE u = v
    <3>1. CASE v = w
      BY <1>3, <2>1, <3>1
    <3>2. CASE v # w /\ u = w
      BY <1>3, <2>1, <3>2
    <3>3. CASE v # w /\ u # w
      BY <1>3, <2>1, <3>3 DEF SInv, Locked
    <3> QED
      BY <3>1, <3>2, <3>3
  <2> QED
    BY <2>1 DEF Locked
<1>6. CompletedCoversDocuments'
  <2>1. \A p \in Papers : latest'[p] \in Nat /\ latest[p] <= latest'[p]
    BY DEF SInv, Typed
  <2> QED
    BY <2>1, CompletedStays DEF SInv
<1> QED
  BY <1>1, <1>2, <1>4, <1>5, <1>6 DEF SInv

\* The paper is registered, or its next version is.
LEMMA RegisterSent ==
    ASSUME SInv, NEW p \in Papers, Register(p), History' = History
    PROVE SInv'
<1> PICK j : j = <<p, latest[p] + 1>>
  OBVIOUS
<1>1. j \in Jobs
  BY RegisteredVersion DEF Register, SInv, Typed
<1>2. DifyGrows /\ TableKeeps /\ \A k : table'[k] = table[k]
  BY ApartGrows DEF Register, dify, Apart
<1>3. /\ latest' \in [Papers -> Nat]
      /\ \A q \in Papers : latest[q] <= latest'[q] /\ latest'[q] <= Len(History[q])
  BY DEF Register, SInv, Typed
<1>4. \A job : Known(job) => Known(job)'
  <2>1. ASSUME NEW job, Known(job)
        PROVE Known(job)'
    <3>1. job \in Jobs /\ job[2] <= latest[job[1]] /\ job[1] \in Papers /\ job[2] \in Nat
      BY <2>1, JobParts DEF Known
    <3>2. latest[job[1]] \in Nat /\ latest'[job[1]] \in Nat /\ latest[job[1]] <= latest'[job[1]]
      BY <1>3, <3>1 DEF SInv, Typed
    <3> QED
      BY <3>1, <3>2 DEF Known
  <2> QED
    BY <2>1
<1>5. Typed'
  <2>1. \A job \in queue' : Known(job)'
    <3>1. j[1] = p /\ j[2] = latest'[p]
      BY DEF Register, SInv, Typed
    <3>2. Known(j)'
      BY <1>1, <1>3, <3>1 DEF Known
    <3>3. queue' = queue \cup {j} /\ \A job \in queue : Known(job)
      BY DEF Register, SInv, Typed
    <3> QED
      BY <1>4, <3>2, <3>3
  <2>2. \A w \in Workers : TaskOK(task[w])'
    BY <1>4 DEF Register, SInv, Typed, TaskOK
  <2>3. kb' \in [Jobs -> {"none", "pending", "completed", "skipped", "failed"}]
    BY DEF Register, SInv, Typed
  <2>4. \E waits : 0 \in waits /\ task' \in [Workers -> Task(waits)]
    BY DEF Register, SInv, Typed
  <2> QED
    BY <1>3, <2>1, <2>2, <2>3, <2>4 DEF Register, SInv, Typed, dify
<1>6. TableSent' /\ Locked'
  BY DEF SInv, TableSent, Locked, Sent, Register, dify
<1>7. ASSUME NEW w \in Workers
      PROVE TaskSent(task[w])' /\ Covered(task[w])'
  <2>1. task'[w] = task[w] /\ Typed /\ TaskSent(task[w]) /\ Covered(task[w])
    BY DEF Register, SInv
  <2> QED
    BY <1>2, <2>1, TaskSentStays, CoveredStays
<1>8. CompletedCoversDocuments'
  <2>1. \A job \in Jobs : kb'[job] = "completed" => kb[job] = "completed"
    BY DEF Register, SInv, Typed
  <2>2. \A q \in Papers : latest'[q] \in Nat /\ latest[q] <= latest'[q]
    BY <1>3
  <2> QED
    BY <1>2, <2>1, <2>2, CompletedStays DEF SInv
<1> QED
  BY <1>5, <1>6, <1>7, <1>8 DEF SInv

LEMMA BeginSent ==
    ASSUME SInv, NEW w \in Workers, Begin(w), History' = History
    PROVE SInv'
<1> PICK waits : 0 \in waits /\ task \in [Workers -> Task(waits)]
  BY DEF SInv, Typed
<1> PICK j \in queue :
      /\ queue' = queue \ {j}
      /\ Leaves(w, [Idle EXCEPT !.pc = "look", !.job = j,
                                !.content = <<j[1], latest[j[1]]>>,
                                !.todo = KeysOf(<<j[1], latest[j[1]]>>),
                                !.result = FirstResult(<<j[1], latest[j[1]]>>)])
      /\ alone' = [alone EXCEPT ![j[1]] =
                     @ /\ \A v0 \in Workers : task[v0].pc = "idle" \/ task[v0].job[1] # j[1]]
  BY DEF Begin, Leaves
<1> PICK c : c = <<j[1], latest[j[1]]>>
  OBVIOUS
<1> PICK todo : todo = KeysOf(c)
  OBVIOUS
<1> PICK result : result = FirstResult(c)
  OBVIOUS
<1> DEFINE t == [Idle EXCEPT !.pc = "look", !.job = j, !.content = c, !.todo = todo,
                             !.result = result]
<1>1. Known(j) /\ j \in Jobs /\ j[1] \in Papers /\ j[2] \in Nat /\ j[2] >= 1
  BY JobParts DEF SInv, Typed, Known
<1>2. /\ latest[j[1]] \in 1..Len(History[j[1]]) /\ j[2] <= latest[j[1]]
      /\ c[1] = j[1] /\ c[2] = latest[j[1]]
  <2>1. History[j[1]] \in Seq(Seq(Keys))
    BY <1>1, DocumentAssumption DEF DocumentAssumption, SInv, Typed
  <2> QED
    BY <1>1, <2>1 DEF SInv, Typed, Known
<1>3. Known(c) /\ todo \in Seq(Keys)
  <2>1. c \in Jobs
    BY <1>1, <1>2, RegisteredVersion DEF SInv
  <2>2. Known(c)
    BY <1>1, <1>2, <2>1 DEF Known, SInv, Typed
  <2> QED
    BY <2>2, KnownKeys DEF SInv
<1>4. t \in Task(waits)
  BY <1>1, <1>3 DEF Task, Idle, FirstResult, Known
<1>5. TaskOK(t)
  BY <1>1, <1>2, <1>3 DEF TaskOK, Idle
<1>6. TaskSent(t)'
  BY DEF TaskSent, Idle
<1>7. Covered(t)'
  <2>1. todo = KeysOf(c)'
    BY DEF KeysOf
  <2> QED
    BY <2>1 DEF Covered, Idle
<1>8. DifyGrows
  BY ApartGrows DEF Begin, dify, Apart
<1>9. alone' \in [Papers -> BOOLEAN]
  <2>1. alone \in [Papers -> BOOLEAN]
    BY DEF SInv, Typed
  <2> QED
    BY <2>1
<1>10. Leaves(w, t)
  BY DEF Leaves
<1>11. \A b \in t.written : FALSE
  BY DEF Idle
<1>12. queue' \in SUBSET {job \in Jobs : Known(job)}
  BY DEF SInv, Typed, Known
<1>13. kb' = kb /\ remote' \in Seq(Document) /\ UNCHANGED <<History, latest, table>>
  BY DEF Begin, dify, SInv, Typed
<1> HIDE DEF t
<1> QED
  BY <1>4, <1>5, <1>6, <1>7, <1>8, <1>9, <1>10, <1>11, <1>12, <1>13, TaskStep

\* A task with the same version, keys ahead and result covers as much.
LEMMA CoveredAlike ==
    ASSUME NEW t, NEW u, Covered(t), UNCHANGED <<History, sent>>,
           u.pc = t.pc, u.result = t.result, u.content = t.content, u.todo = t.todo
    PROVE Covered(u)'
<1> PICK c : c = t.content /\ c = u.content
  OBVIOUS
<1> PICK todo : todo = t.todo /\ todo = u.todo
  OBVIOUS
<1> PICK keys : keys = KeysOf(c)
  OBVIOUS
<1>1. keys = KeysOf(c)'
  BY DEF KeysOf
<1>2. u.pc # "idle" /\ u.result = "completed" =>
          \A i \in DOMAIN keys :
              \/ \E m \in DOMAIN todo : todo[m] = keys[i]
              \/ \E d \in Nat : <<keys[i], d, c>> \in sent
  BY DEF Covered
<1>3. u.pc # "idle" /\ u.result = "completed" =>
          \A i \in DOMAIN keys :
              \/ \E m \in DOMAIN todo : todo[m] = keys[i]
              \/ \E d \in Nat : <<keys[i], d, c>> \in sent'
  BY <1>2
<1> QED
  BY <1>1, <1>3 DEF Covered

LEMMA WaitSent ==
    ASSUME SInv, NEW w \in Workers, Wait(w), History' = History
    PROVE SInv'
<1> PICK some : 0 \in some /\ task \in [Workers -> Task(some)]
  BY DEF SInv, Typed
<1> PICK place : place = 1 + Max({task[v].waits : v \in Workers})
  OBVIOUS
<1> PICK t0 : t0 = task[w]
  OBVIOUS
<1> DEFINE t == [t0 EXCEPT !.waits = place]
           waits == some \cup {place}
<1>1. Task(some) \subseteq Task(waits)
  BY DEF Task
<1>2. task \in [Workers -> Task(waits)] /\ 0 \in waits
  BY <1>1
<1>3. t0 \in Task(waits)
  BY <1>2
<1>4. t \in Task(waits)
  BY <1>3 DEF Task
<1>5. /\ t.pc = t0.pc /\ t.job = t0.job /\ t.content = t0.content /\ t.todo = t0.todo
      /\ t.seen = t0.seen /\ t.doc = t0.doc /\ t.pending = t0.pending
      /\ t.written = t0.written /\ t.result = t0.result
  BY <1>3 DEF Task
<1>6. Leaves(w, t)
  BY DEF Wait, Leaves
<1> HIDE DEF t, waits
<1>7. TaskOK(t)
  BY <1>5 DEF SInv, Typed, TaskOK
<1>8. DifyGrows
  BY ApartGrows DEF Wait, dify, Apart
<1>9. TaskSent(t)'
  BY <1>5 DEF TaskSent, Found, Sent, SInv, Wait, dify
<1>10. Covered(t)'
  <2>1. Covered(t0)
    BY DEF SInv
  <2>2. UNCHANGED <<History, sent>>
    BY DEF Wait, dify
  <2> QED
    BY <1>5, <2>1, <2>2, CoveredAlike
<1>11. \A b \in t.written : \A v \in Workers : \A a \in task[v].written :
           a.key = b.key => v = w
  BY <1>5 DEF SInv, Locked
<1>12. /\ queue' \in SUBSET {job \in Jobs : Known(job)}
       /\ alone' \in [Papers -> BOOLEAN]
  BY DEF SInv, Typed, Known, Wait
<1>13. kb' = kb /\ remote' \in Seq(Document) /\ UNCHANGED <<History, latest, table>>
  BY DEF Wait, dify, SInv, Typed
<1> QED
  BY <1>2, <1>4, <1>6, <1>7, <1>8, <1>9, <1>10, <1>11, <1>12, <1>13, TaskStep

LEMMA LookUpSent ==
    ASSUME SInv, NEW w \in Workers, LookUp(w), History' = History
    PROVE SInv'
<1> PICK waits : 0 \in waits /\ task \in [Workers -> Task(waits)]
  BY DEF SInv, Typed
<1> PICK t0 \in Task(waits) : t0 = task[w]
  OBVIOUS
<1> PICK row : row = table[Head(t0.todo)]
  OBVIOUS
<1> PICK written : written = Flushed(w)
  OBVIOUS
<1> PICK there \in BOOLEAN : there = (row # None /\ row.content = t0.content)
  OBVIOUS
<1> DEFINE t == IF there
                THEN [t0 EXCEPT !.written = written, !.pending = None, !.waits = 0,
                                !.seen = None, !.todo = Tail(t0.todo)]
                ELSE [t0 EXCEPT !.written = written, !.pending = None, !.waits = 0,
                                !.seen = row, !.pc = "send"]
<1>1. t0.pc = "look" /\ t0.todo # <<>> /\ CanFlush(w)
  BY DEF LookUp
<1>2. Leaves(w, t)
  <2>1. UpToDate(w, row) <=> there
    BY DEF UpToDate
  <2>2. CASE there
    BY <2>1, <2>2 DEF LookUp, Leaves
  <2>3. CASE ~there
    BY <2>1, <2>3 DEF LookUp, Leaves
  <2> QED
    BY <2>2, <2>3
<1>3. \A b \in written :
         /\ b \in Row /\ Sent(b) /\ b.content = t0.content
         /\ table[b.key] # None => table[b.key].doc = b.doc
         /\ \A v \in Workers : \A a \in task[v].written : a.key = b.key => v = w
  BY <1>1, FlushedIsSent
<1>4. /\ t0.todo \in Seq(Keys) /\ Head(t0.todo) \in Keys /\ Tail(t0.todo) \in Seq(Keys)
      /\ \A m \in DOMAIN t0.todo :
            \/ t0.todo[m] = Head(t0.todo)
            \/ \E i \in DOMAIN Tail(t0.todo) : Tail(t0.todo)[i] = t0.todo[m]
  BY <1>1, TodoParts DEF Task
<1>5. row \in Row \cup {None}
  BY <1>4 DEF SInv, Typed
<1>6. /\ t.job = t0.job /\ t.content = t0.content /\ t.pending = None
      /\ t.written = written /\ t.result = t0.result /\ t.doc = t0.doc
      /\ there => t.pc = "look" /\ t.seen = None /\ t.todo = Tail(t0.todo)
      /\ ~there => t.pc = "send" /\ t.seen = row /\ t.todo = t0.todo
  BY <1>1 DEF Task
<1>7. t \in Task(waits)
  <2>1. written \subseteq Row
    BY <1>3
  <2>2. CASE there
    BY <1>4, <2>1, <2>2 DEF Task
  <2>3. CASE ~there
    BY <1>5, <2>1, <2>3, ZenonT(30) DEF Task
  <2> QED
    BY <2>2, <2>3
<1> HIDE DEF t
<1>8. TaskOK(t)
  BY <1>1, <1>6 DEF SInv, Typed, TaskOK
<1>9. DifyGrows
  BY ApartGrows DEF LookUp, dify, Apart
<1>10. TaskSent(t)'
  <2>1. \A b \in written :
           /\ Sent(b)' /\ b.content = t.content
           /\ table'[b.key] # None => table'[b.key].doc = b.doc
    BY <1>3, <1>6, <1>9, SentStays DEF LookUp
  <2>2. ~there => Found(t, Head(t.todo))'
    BY <1>6 DEF Found, LookUp
  <2> QED
    BY <1>6, <2>1, <2>2 DEF TaskSent
<1>11. Covered(t)'
  <2>1. ASSUME t.result = "completed", NEW i \in DOMAIN KeysOf(t0.content)
        PROVE \/ \E m \in DOMAIN t.todo : t.todo[m] = KeysOf(t0.content)[i]
              \/ \E d \in Nat : <<KeysOf(t0.content)[i], d, t0.content>> \in sent
    <3> PICK k : k = KeysOf(t0.content)[i]
      OBVIOUS
    <3>1. \/ \E m \in DOMAIN t0.todo : t0.todo[m] = k
          \/ \E d \in Nat : <<k, d, t0.content>> \in sent
      BY <1>1, <1>6, <2>1 DEF SInv, Covered
    <3>2. CASE there /\ k = Head(t0.todo)
      <4>1. row.key = k /\ Sent(row) /\ row.content = t0.content /\ row \in Row
        BY <1>4, <1>5, <3>2 DEF SInv, TableSent
      <4> QED
        BY <4>1 DEF Sent, Row
    <3>3. CASE ~there
      BY <1>6, <3>1, <3>3
    <3>4. CASE there /\ k # Head(t0.todo)
      <4>1. CASE \E m \in DOMAIN t0.todo : t0.todo[m] = k
        <5>1. PICK m \in DOMAIN t0.todo : t0.todo[m] = k
          BY <4>1
        <5>2. PICK l \in DOMAIN Tail(t0.todo) : Tail(t0.todo)[l] = t0.todo[m]
          BY <1>4, <3>4, <5>1
        <5> QED
          BY <1>6, <3>4, <5>1, <5>2
      <4> QED
        BY <3>1, <4>1
    <3> QED
      BY <3>2, <3>3, <3>4
  <2>2. Covered(t)
    BY <1>6, <2>1 DEF Covered
  <2> QED
    BY <2>2 DEF Covered, KeysOf, LookUp, dify
<1>12. /\ queue' \in SUBSET {job \in Jobs : Known(job)}
       /\ alone' \in [Papers -> BOOLEAN]
  BY DEF SInv, Typed, Known, LookUp
<1>13. kb' = kb /\ remote' \in Seq(Document) /\ UNCHANGED <<History, latest, table>>
  BY DEF LookUp, dify, SInv, Typed
<1> QED
  BY <1>2, <1>3, <1>6, <1>7, <1>8, <1>9, <1>10, <1>11, <1>12, <1>13, TaskStep

\* What Post does to Dify.
LEMMA PostGrows ==
    ASSUME SInv, NEW w \in Workers, task[w].pc = "send", Post(w)
    PROVE /\ DifyGrows /\ remote' \in Seq(Document)
          /\ Target(w) \in Nat
          /\ <<Head(task[w].todo), Target(w), task[w].content>> \in sent'
          /\ Target(w) \in DOMAIN remote'
          /\ remote'[Target(w)] = [key |-> Head(task[w].todo), content |-> task[w].content]
          /\ task[w].seen # None =>
                Target(w) = task[w].seen.doc /\ Target(w) \in DOMAIN remote
          /\ task[w].seen = None => Target(w) \notin DOMAIN remote
          /\ \A d \in DOMAIN remote : d # Target(w) => remote'[d] = remote[d]
          /\ DOMAIN remote' \subseteq DOMAIN remote \cup {Target(w)}
<1> PICK waits : 0 \in waits /\ task \in [Workers -> Task(waits)]
  BY DEF SInv, Typed
<1> PICK d : d = Target(w)
  OBVIOUS
<1> PICK holds : holds = [key |-> Head(task[w].todo), content |-> task[w].content]
  OBVIOUS
<1>1. /\ remote' = IF d > Len(remote) THEN Append(remote, holds)
                   ELSE [remote EXCEPT ![d] = holds]
      /\ sent' = sent \cup {<<Head(task[w].todo), d, task[w].content>>}
  BY DEF Post
<1>2. /\ task[w].todo # <<>> /\ task[w].todo \in Seq(Keys) /\ task[w].content \in Jobs
      /\ Found(task[w], Head(task[w].todo))
  BY DEF SInv, Typed, TaskOK, Known, TaskSent, Task
<1>3. Head(task[w].todo) \in Keys
  BY <1>2, TodoParts
<1>4. holds \in Document
  BY <1>2, <1>3 DEF Document
<1>5. remote \in Seq(Document)
  BY DEF SInv, Typed
<1>6. CASE task[w].seen = None
  <2>1. d = Len(remote) + 1
    BY <1>6 DEF Target
  <2>2. remote' = Append(remote, holds)
    BY <1>1, <1>5, <2>1
  <2> QED
    BY <1>1, <1>4, <1>5, <1>6, <2>1, <2>2 DEF DifyGrows
<1>7. CASE task[w].seen # None
  <2>1. d = task[w].seen.doc
    BY <1>7 DEF Target
  <2>2. d \in DOMAIN remote /\ remote[d].key = Head(task[w].todo)
    <3>1. table[Head(task[w].todo)] # None /\ task[w].seen.doc = table[Head(task[w].todo)].doc
      BY <1>2, <1>7 DEF Found
    <3> QED
      BY <1>3, <2>1, <3>1 DEF SInv, TableSent, Sent
  <2>3. remote' = [remote EXCEPT ![d] = holds]
    BY <1>1, <1>5, <2>2
  <2> QED
    BY <1>1, <1>4, <1>5, <1>7, <2>1, <2>2, <2>3 DEF DifyGrows
<1> QED
  BY <1>6, <1>7

LEMMA SendSent ==
    ASSUME SInv, NEW w \in Workers, Send(w), History' = History
    PROVE SInv'
<1> PICK waits : 0 \in waits /\ task \in [Workers -> Task(waits)]
  BY DEF SInv, Typed
<1> PICK t0 \in Task(waits) : t0 = task[w]
  OBVIOUS
<1> PICK d : d = Target(w)
  OBVIOUS
<1> DEFINE t == [t0 EXCEPT !.pc = "poll", !.doc = d]
<1>1. t0.pc = "send" /\ TaskOK(t0) /\ TaskSent(t0) /\ Covered(t0)
  BY DEF Send, SInv, Typed
<1>2. /\ DifyGrows /\ remote' \in Seq(Document) /\ d \in Nat
      /\ <<Head(t0.todo), d, t0.content>> \in sent'
      /\ d \in DOMAIN remote'
      /\ remote'[d] = [key |-> Head(t0.todo), content |-> t0.content]
      /\ t0.seen # None => d = t0.seen.doc
  BY <1>1, PostGrows DEF Send
<1>3. /\ t.pc = "poll" /\ t.doc = d /\ t.job = t0.job /\ t.content = t0.content
      /\ t.todo = t0.todo /\ t.seen = t0.seen /\ t.pending = t0.pending
      /\ t.written = t0.written /\ t.result = t0.result
  BY DEF Task
<1>4. t \in Task(waits)
  BY <1>2, ZenonT(30) DEF Task
<1>5. Leaves(w, t)
  BY DEF Send, Leaves
<1> HIDE DEF t
<1>6. TaskOK(t) /\ t.pending = None
  BY <1>1, <1>3 DEF TaskOK
<1>7. TaskSent(t)'
  <2>1. Found(t, Head(t.todo))'
    BY <1>1, <1>3 DEF TaskSent, Found, Send
  <2>2. Sent([key |-> Head(t.todo), doc |-> t.doc, content |-> t.content])'
    BY <1>2, <1>3 DEF Sent
  <2>3. \A row \in t.written :
           /\ Sent(row)' /\ row.content = t.content
           /\ table'[row.key] # None => table'[row.key].doc = row.doc
    BY <1>1, <1>2, <1>3, SentStays DEF TaskSent, Send
  <2> QED
    BY <1>2, <1>3, <1>6, <2>1, <2>2, <2>3 DEF TaskSent
<1>8. Covered(t)'
  <2>1. Covered(t)
    BY <1>1, <1>3 DEF Covered
  <2> QED
    BY <1>2, <2>1 DEF Covered, KeysOf, DifyGrows
<1>9. \A b \in t.written : \A v \in Workers : \A a \in task[v].written :
          a.key = b.key => v = w
  BY <1>3 DEF SInv, Locked
<1>10. /\ queue' \in SUBSET {job \in Jobs : Known(job)}
       /\ alone' \in [Papers -> BOOLEAN]
  BY DEF SInv, Typed, Known, Send
<1>11. kb' = kb /\ UNCHANGED <<History, latest, table>>
  BY DEF Send
<1> QED
  BY <1>2, <1>4, <1>5, <1>6, <1>7, <1>8, <1>9, <1>10, <1>11, TaskStep

LEMMA PollSent ==
    ASSUME SInv, NEW w \in Workers, Poll(w), History' = History
    PROVE SInv'
<1> PICK waits : 0 \in waits /\ task \in [Workers -> Task(waits)]
  BY DEF SInv, Typed
<1> PICK t0 \in Task(waits) : t0 = task[w]
  OBVIOUS
<1>1. /\ t0.pc = "poll" /\ TaskOK(t0) /\ TaskSent(t0) /\ Covered(t0)
      /\ t0.todo # <<>> /\ Known(t0.content)
  BY DEF Poll, SInv, Typed, TaskOK
<1>2. /\ t0.todo \in Seq(Keys) /\ Head(t0.todo) \in Keys /\ Tail(t0.todo) \in Seq(Keys)
      /\ \A m \in DOMAIN t0.todo :
            \/ t0.todo[m] = Head(t0.todo)
            \/ \E i \in DOMAIN Tail(t0.todo) : Tail(t0.todo)[i] = t0.todo[m]
  BY <1>1, TodoParts DEF Task
<1> PICK status \in Statuses[Head(t0.todo)] :
      task' = [task EXCEPT ![w].pc = "look",
                 ![w].pending = [key |-> Head(t0.todo), doc |-> t0.doc,
                                 content |-> t0.content, status |-> status],
                 ![w].todo = Tail(@)]
  BY DEF Poll, RecordedContent
<1> PICK row : row = [key |-> Head(t0.todo), doc |-> t0.doc, content |-> t0.content,
                      status |-> status]
  OBVIOUS
<1>3. row \in Row
  <2>1. status \in UNION {Statuses[k] : k \in Keys}
    BY <1>2
  <2> QED
    BY <1>1, <1>2, <2>1 DEF Row, Task, Known
<1>4. row # None
  BY <1>3, DocumentAssumption DEF DocumentAssumption
<1> DEFINE t == [t0 EXCEPT !.pc = "look", !.pending = row, !.todo = Tail(t0.todo)]
<1>5. /\ t.pc = "look" /\ t.doc = t0.doc /\ t.job = t0.job /\ t.content = t0.content
      /\ t.todo = Tail(t0.todo) /\ t.seen = t0.seen /\ t.pending = row
      /\ t.written = t0.written /\ t.result = t0.result
  BY DEF Task
<1>6. t \in Task(waits)
  BY <1>2, <1>3 DEF Task
<1>7. Leaves(w, t)
  BY DEF Leaves
<1> HIDE DEF t
<1>8. TaskOK(t)
  BY <1>1, <1>5 DEF TaskOK
<1>9. DifyGrows
  BY ApartGrows DEF Poll, Apart
<1>10. TaskSent(t)'
  <2>1. /\ Sent(row)' /\ row.content = t.content
        /\ Found(t, row.key)'
        /\ t.seen # None => row.doc = t.seen.doc
    BY <1>1, <1>5 DEF TaskSent, Found, Sent, Poll
  <2>2. \A b \in t.written :
           /\ Sent(b)' /\ b.content = t.content
           /\ table'[b.key] # None => table'[b.key].doc = b.doc
    BY <1>1, <1>5, <1>9, SentStays DEF TaskSent, Poll
  <2> QED
    BY <1>5, <2>1, <2>2 DEF TaskSent
<1>11. Covered(t)
  <2>1. ASSUME t.result = "completed", NEW i \in DOMAIN KeysOf(t0.content)
        PROVE \/ \E m \in DOMAIN t.todo : t.todo[m] = KeysOf(t0.content)[i]
              \/ \E d \in Nat : <<KeysOf(t0.content)[i], d, t0.content>> \in sent
    <3> PICK k : k = KeysOf(t0.content)[i]
      OBVIOUS
    <3>1. \/ \E m \in DOMAIN t0.todo : t0.todo[m] = k
          \/ \E d \in Nat : <<k, d, t0.content>> \in sent
      BY <1>1, <1>5, <2>1 DEF Covered
    <3>2. CASE k = Head(t0.todo)
      BY <1>1, <3>2 DEF TaskSent, Sent, Task
    <3>3. CASE k # Head(t0.todo)
      <4>1. CASE \E m \in DOMAIN t0.todo : t0.todo[m] = k
        <5>1. PICK m \in DOMAIN t0.todo : t0.todo[m] = k
          BY <4>1
        <5>2. PICK l \in DOMAIN Tail(t0.todo) : Tail(t0.todo)[l] = t0.todo[m]
          BY <1>2, <3>3, <5>1
        <5> QED
          BY <1>5, <5>1, <5>2
      <4> QED
        BY <3>1, <4>1
    <3> QED
      BY <3>2, <3>3
  <2> QED
    BY <1>5, <2>1 DEF Covered
<1>12. Covered(t)'
  BY <1>11 DEF Covered, KeysOf, Poll
<1>13. \A b \in t.written : \A v \in Workers : \A a \in task[v].written :
           a.key = b.key => v = w
  BY <1>5 DEF SInv, Locked
<1>14. /\ queue' \in SUBSET {job \in Jobs : Known(job)}
       /\ alone' \in [Papers -> BOOLEAN]
  BY DEF SInv, Typed, Known, Poll
<1>15. kb' = kb /\ remote' \in Seq(Document) /\ UNCHANGED <<History, latest, table>>
  BY DEF Poll, SInv, Typed
<1> QED
  BY <1>6, <1>7, <1>8, <1>9, <1>10, <1>12, <1>13, <1>14, <1>15, TaskStep

LEMMA CallFailsSent ==
    ASSUME SInv, NEW w \in Workers, CallFails(w), History' = History
    PROVE SInv'
<1> PICK waits : 0 \in waits /\ task \in [Workers -> Task(waits)]
  BY DEF SInv, Typed
<1> PICK t0 \in Task(waits) : t0 = task[w]
  OBVIOUS
<1> DEFINE t == [t0 EXCEPT !.pc = "look", !.todo = <<>>, !.result = "failed"]
<1>1. t0.pc \in {"send", "poll"} /\ TaskOK(t0) /\ TaskSent(t0)
  BY DEF CallFails, SInv, Typed
<1>2. DifyGrows /\ remote' \in Seq(Document)
  <2>1. CASE UNCHANGED <<remote, sent>>
    BY <2>1 DEF DifyGrows, SInv, Typed
  <2>2. CASE t0.pc = "send" /\ Post(w)
    BY <2>2, PostGrows
  <2> QED
    BY <2>1, <2>2 DEF CallFails
<1>3. /\ t.pc = "look" /\ t.doc = t0.doc /\ t.job = t0.job /\ t.content = t0.content
      /\ t.todo = <<>> /\ t.seen = t0.seen /\ t.pending = t0.pending
      /\ t.written = t0.written /\ t.result = "failed"
  BY DEF Task
<1>4. t \in Task(waits)
  <2>1. <<>> \in Seq(Keys)
    OBVIOUS
  <2> QED
    BY <2>1 DEF Task
<1>5. Leaves(w, t)
  BY DEF CallFails, Leaves
<1> HIDE DEF t
<1>6. TaskOK(t) /\ t.pending = None
  BY <1>1, <1>3 DEF TaskOK
<1>7. TaskSent(t)'
  <2>1. \A row \in t.written :
           /\ Sent(row)' /\ row.content = t.content
           /\ table'[row.key] # None => table'[row.key].doc = row.doc
    BY <1>1, <1>2, <1>3, SentStays DEF TaskSent, CallFails
  <2> QED
    BY <1>3, <1>6, <2>1 DEF TaskSent
<1>8. Covered(t)'
  BY <1>3 DEF Covered
<1>9. \A b \in t.written : \A v \in Workers : \A a \in task[v].written :
          a.key = b.key => v = w
  BY <1>3 DEF SInv, Locked
<1>10. /\ queue' \in SUBSET {job \in Jobs : Known(job)}
       /\ alone' \in [Papers -> BOOLEAN]
  BY DEF SInv, Typed, Known, CallFails
<1>11. kb' = kb /\ UNCHANGED <<History, latest, table>>
  BY DEF CallFails
<1> QED
  BY <1>2, <1>4, <1>5, <1>6, <1>7, <1>8, <1>9, <1>10, <1>11, TaskStep

\* A transaction that is rolled back leaves nothing but what Dify got.
LEMMA RollBackSent ==
    ASSUME SInv, NEW w \in Workers, task[w].pc = "look", RollBack(w),
           UNCHANGED <<History, latest, queue, kb, table, dify, alone>>
    PROVE SInv'
<1> PICK waits : 0 \in waits /\ task \in [Workers -> Task(waits)]
  BY DEF SInv, Typed
<1> PICK t0 \in Task(waits) : t0 = task[w]
  OBVIOUS
<1> DEFINE t == [t0 EXCEPT !.todo = <<>>, !.seen = None, !.pending = None, !.waits = 0,
                           !.written = {}, !.result = "failed"]
<1>1. t0.pc = "look" /\ TaskOK(t0)
  BY DEF SInv, Typed
<1>2. /\ t.pc = "look" /\ t.job = t0.job /\ t.content = t0.content
      /\ t.pending = None /\ t.written = {} /\ t.result = "failed"
  BY <1>1 DEF Task
<1>3. t \in Task(waits)
  <2>1. <<>> \in Seq(Keys)
    OBVIOUS
  <2> QED
    BY <2>1 DEF Task
<1>4. Leaves(w, t)
  BY DEF RollBack, Leaves
<1> HIDE DEF t
<1>5. TaskOK(t) /\ TaskSent(t)' /\ Covered(t)'
  BY <1>1, <1>2 DEF TaskOK, TaskSent, Covered
<1>6. \A b \in t.written : FALSE
  BY <1>2
<1>7. DifyGrows /\ remote' \in Seq(Document)
  BY ApartGrows DEF dify, Apart, SInv, Typed
<1>8. queue' \in SUBSET {job \in Jobs : Known(job)} /\ alone' \in [Papers -> BOOLEAN]
  BY DEF SInv, Typed, Known
<1> QED
  BY <1>3, <1>4, <1>5, <1>6, <1>7, <1>8, TaskStep

\* A worker that dies leaves its job to the queue.
LEMMA DieSent ==
    ASSUME SInv, NEW w \in Workers, Die(w), History' = History
    PROVE SInv'
<1> PICK waits : 0 \in waits /\ task \in [Workers -> Task(waits)]
  BY DEF SInv, Typed
<1>1. Known(task[w].job)
  BY DEF SInv, Typed, TaskOK, Die
<1>2. Idle \in Task(waits) /\ TaskOK(Idle)
  BY IdleOK
<1>3. Leaves(w, Idle)
  BY DEF Leaves, Die
<1>4. TaskSent(Idle)' /\ Covered(Idle)' /\ \A b \in Idle.written : FALSE
  BY DEF TaskSent, Covered, Idle
<1>5. DifyGrows
  BY ApartGrows DEF dify, Apart, Die
<1>6. queue' \in SUBSET {job \in Jobs : Known(job)}
  BY <1>1 DEF SInv, Typed, Known, Die
<1>7. /\ kb' = kb /\ remote' \in Seq(Document) /\ alone' \in [Papers -> BOOLEAN]
      /\ UNCHANGED <<History, latest, table>>
  BY DEF dify, SInv, Typed, Die
<1> QED
  BY <1>2, <1>3, <1>4, <1>5, <1>6, <1>7, TaskStep

\* The rows that a commit leaves.
LEMMA CommittedRows ==
    ASSUME SInv, NEW w \in Workers, Commit(w), NEW k \in Keys
    PROVE \/ table'[k] \in Flushed(w) /\ table'[k].key = k
          \/ table'[k] = table[k] /\ \A row \in Flushed(w) : row.key # k
<1>1. table'[k] = IF \E row \in Flushed(w) : row.key = k
                  THEN CHOOSE row \in Flushed(w) : row.key = k
                  ELSE table[k]
  BY DEF Commit
<1> PICK flushed : flushed = Flushed(w)
  OBVIOUS
<1>2. CASE \E row \in flushed : row.key = k
  BY <1>1, <1>2
<1>3. CASE ~\E row \in flushed : row.key = k
  BY <1>1, <1>3
<1> QED
  BY <1>2, <1>3

LEMMA CommitSent ==
    ASSUME SInv, NEW w \in Workers, Commit(w), History' = History
    PROVE SInv'
<1> PICK waits : 0 \in waits /\ task \in [Workers -> Task(waits)]
  BY DEF SInv, Typed
<1> PICK t0 \in Task(waits) : t0 = task[w]
  OBVIOUS
<1>1. /\ t0.pc = "look" /\ t0.todo = <<>> /\ CanFlush(w)
      /\ TaskOK(t0) /\ Covered(t0) /\ Typed
  BY DEF Commit, SInv, Typed
<1>2. /\ Leaves(w, Idle)
      /\ kb' = [kb EXCEPT ![t0.job] = t0.result]
      /\ UNCHANGED <<History, latest, queue, remote, sent, alone>>
  BY DEF Commit, Leaves, dify
<1>3. \A b \in Flushed(w) :
         /\ b \in Row /\ Sent(b)
         /\ table[b.key] # None => table[b.key].doc = b.doc
         /\ \A v \in Workers : \A a \in task[v].written : a.key = b.key => v = w
  BY <1>1, FlushedIsSent
<1>4. \A k \in Keys :
         \/ table'[k] \in Flushed(w) /\ table'[k].key = k
         \/ table'[k] = table[k] /\ \A row \in Flushed(w) : row.key # k
  BY CommittedRows
<1>5. DifyGrows
  BY <1>2 DEF DifyGrows
<1>6. TableKeeps
  <2>1. ASSUME NEW k \in Keys, table[k] # None
        PROVE table'[k] # None /\ table'[k].doc = table[k].doc
    <3>1. CASE table'[k] \in Flushed(w) /\ table'[k].key = k
      <4>1. table'[k] \in Row /\ table'[k].doc = table[k].doc
        BY <1>3, <2>1, <3>1
      <4> QED
        BY <4>1, DocumentAssumption DEF DocumentAssumption
    <3>2. CASE table'[k] = table[k]
      BY <2>1, <3>2
    <3> QED
      BY <1>4, <3>1, <3>2
  <2> QED
    BY <2>1 DEF TableKeeps
<1>7. \A v \in Workers : v # w => task'[v] = task[v]
  BY <1>2 DEF Leaves
<1>8. task'[w] = Idle
  BY <1>2 DEF Leaves
<1>9. Typed'
  <2>1. /\ Idle \in Task(waits) /\ TaskOK(Idle)'
    BY <1>2, IdleOK, TaskOKStays
  <2>2. /\ \E some : 0 \in some /\ task' \in [Workers -> Task(some)]
        /\ \A v \in Workers : TaskOK(task[v])'
    BY <1>1, <1>2, <2>1, TasksTyped
  <2>3. table' \in [Keys -> Row \cup {None}]
    <3>1. ASSUME NEW k \in Keys
          PROVE table'[k] \in Row \cup {None}
      BY <1>1, <1>3, <1>4 DEF Typed
    <3> PICK flushed : flushed = Flushed(w)
      OBVIOUS
    <3>2. table' = [k \in Keys |->
                      IF \E row \in flushed : row.key = k
                      THEN CHOOSE row \in flushed : row.key = k
                      ELSE table[k]]
      BY DEF Commit
    <3> QED
      BY <3>1, <3>2
  <2>4. kb' \in [Jobs -> {"none", "pending", "completed", "skipped", "failed"}]
    BY <1>1, <1>2 DEF Typed, Task
  <2>5. \A j \in queue' : Known(j)'
    BY <1>1, <1>2 DEF Typed, Known
  <2> QED
    BY <1>1, <1>2, <2>2, <2>3, <2>4, <2>5 DEF Typed
<1>10. TableSent'
  <2>1. ASSUME NEW k \in Keys, table'[k] # None
        PROVE table'[k].key = k /\ Sent(table'[k])
    BY <1>3, <1>4, <2>1 DEF SInv, TableSent
  <2> QED
    BY <1>2, <2>1 DEF TableSent, Sent
<1>11. ASSUME NEW v \in Workers
       PROVE TaskSent(task[v])' /\ Covered(task[v])'
  <2>1. CASE v = w
    BY <1>8, <2>1 DEF TaskSent, Covered, Idle
  <2>2. CASE v # w
    <3>1. task'[v] = task[v] /\ Typed /\ TaskSent(task[v]) /\ Covered(task[v])
      BY <1>7, <2>2 DEF SInv
    <3>2. ASSUME NEW row \in task[v].written
          PROVE table'[row.key] = table[row.key]
      <4>1. row.key \in Keys
        BY <3>2 DEF Task, Row
      <4> QED
        BY <1>3, <1>4, <2>2, <4>1
    <3> QED
      BY <1>2, <1>5, <1>6, <3>1, <3>2, TaskSentStays, CoveredStays
  <2> QED
    BY <2>1, <2>2
<1>12. Locked'
  <2>1. Idle.written = {}
    BY DEF Idle
  <2>2. \A v \in Workers : task'[v].written \subseteq task[v].written
    BY <1>7, <1>8, <2>1
  <2> QED
    BY <2>2 DEF SInv, Locked
<1>13. CompletedCoversDocuments'
  <2>1. ASSUME NEW j \in Jobs, kb'[j] = "completed"
        PROVE \E n \in j[2]..latest[j[1]] :
                  \A i \in DOMAIN History[j[1]][n] :
                      \E s \in sent : s[1] = History[j[1]][n][i] /\ s[3] = <<j[1], n>>
    <3>1. CASE j # t0.job
      <4>1. kb[j] = "completed"
        BY <1>1, <1>2, <2>1, <3>1 DEF Typed
      <4> QED
        BY <4>1 DEF SInv, CompletedCoversDocuments
    <3>2. CASE j = t0.job
      <4>1. t0.result = "completed"
        BY <1>1, <1>2, <2>1, <3>2 DEF Typed
      <4>2. /\ Known(t0.content) /\ t0.content[1] = j[1] /\ j[2] <= t0.content[2]
        BY <1>1, <3>2 DEF TaskOK
      <4> PICK n : n = t0.content[2]
        OBVIOUS
      <4>3. t0.content = <<j[1], n>> /\ n \in Nat /\ n <= latest[j[1]] /\ latest[j[1]] \in Nat
        BY <1>1, <4>2, JobParts DEF Known, Typed
      <4>4. n \in j[2]..latest[j[1]]
        BY <4>2, <4>3, JobParts
      <4>5. ASSUME NEW i \in DOMAIN History[j[1]][n]
            PROVE \E s \in sent : s[1] = History[j[1]][n][i] /\ s[3] = <<j[1], n>>
        <5>1. KeysOf(t0.content) = History[j[1]][n]
          BY <4>3 DEF KeysOf
        <5>2. \E d \in Nat : <<KeysOf(t0.content)[i], d, t0.content>> \in sent
          <6>1. Covered(t0) /\ t0.pc # "idle" /\ t0.todo = <<>>
            BY <1>1
          <6>2. i \in DOMAIN KeysOf(t0.content) /\ DOMAIN t0.todo = {}
            BY <5>1, <6>1
          <6> QED
            BY ONLY <4>1, <6>1, <6>2 DEF Covered
        <5> QED
          BY <4>3, <5>1, <5>2
      <4> QED
        BY <4>4, <4>5
    <3> QED
      BY <3>1, <3>2
  <2>2. History' = History /\ latest' = latest /\ sent' = sent
    BY <1>2
  <2>3. ASSUME NEW j \in Jobs, kb'[j] = "completed"
        PROVE \E n \in j[2]..latest'[j[1]] :
                  \A i \in DOMAIN History'[j[1]][n] :
                      \E s \in sent' : s[1] = History'[j[1]][n][i] /\ s[3] = <<j[1], n>>
    <3>1. PICK n \in j[2]..latest[j[1]] :
             \A i \in DOMAIN History[j[1]][n] :
                 \E s \in sent : s[1] = History[j[1]][n][i] /\ s[3] = <<j[1], n>>
      BY <2>1, <2>3
    <3> QED
      BY ONLY <2>2, <3>1
  <2> QED
    BY <2>3 DEF CompletedCoversDocuments
<1> QED
  BY <1>9, <1>10, <1>11, <1>12, <1>13 DEF SInv

\* Nothing changes, or a registered job comes to the queue.
LEMMA StutterSent ==
    ASSUME SInv, UNCHANGED <<History, latest, kb, table, dify, alone, task>>,
           \A j \in queue' : Known(j)
    PROVE SInv'
<1>1. /\ UNCHANGED <<History, latest, kb, table, remote, sent, alone, task>>
      /\ Typed
  BY DEF dify, SInv
<1>2. Typed'
  BY <1>1 DEF Typed, Known, TaskOK
<1>3. TableSent' /\ Locked' /\ CompletedCoversDocuments'
  <2>1. TableSent'
    BY <1>1 DEF SInv, TableSent, Sent
  <2>2. Locked'
    BY <1>1 DEF SInv, Locked
  <2>3. CompletedCoversDocuments'
    BY <1>1 DEF SInv, CompletedCoversDocuments
  <2> QED
    BY <2>1, <2>2, <2>3
<1>4. \A w \in Workers : TaskSent(task[w])' /\ Covered(task[w])'
  <2> SUFFICES ASSUME NEW w \in Workers
               PROVE TaskSent(task[w])' /\ Covered(task[w])'
    OBVIOUS
  <2> PICK t : t = task[w]
    OBVIOUS
  <2>1. TaskSent(t) /\ Covered(t) /\ task'[w] = t
    BY <1>1 DEF SInv
  <2>2. TaskSent(t)'
    BY <1>1, <2>1 DEF TaskSent, Found, Sent
  <2>3. Covered(t)'
    BY <1>1, <2>1 DEF Covered, KeysOf
  <2>4. TaskSent(task[w])'
    <3>1. task'[w] = t
      BY <2>1
    <3> QED
      BY ONLY <2>2, <3>1 DEF TaskSent, Found, Sent
  <2>5. Covered(task[w])'
    <3>1. task'[w] = t
      BY <2>1
    <3> QED
      BY ONLY <2>3, <3>1 DEF Covered, KeysOf
  <2> QED
    BY <2>4, <2>5
<1> QED
  BY <1>2, <1>3, <1>4 DEF SInv

LEMMA SentStep ==
    ASSUME SInv, [Next]_vars
    PROVE SInv'
<1>1. CASE UNCHANGED vars
  BY <1>1, StutterSent DEF vars, dify, SInv, Typed
<1>2. CASE History' = History /\ \E p \in Papers : Register(p)
  BY <1>2, RegisterSent
<1>3. ASSUME History' = History, NEW w \in Workers, Work(w)
      PROVE SInv'
  <2>1. CASE Begin(w) \/ Wait(w) \/ LookUp(w) \/ Send(w) \/ Poll(w) \/ CallFails(w) \/ Commit(w)
    BY <1>3, <2>1, BeginSent, WaitSent, LookUpSent, SendSent, PollSent, CallFailsSent,
       CommitSent
  <2>2. CASE Raise(w)
    <3>1. task[w].pc = "look"
      BY <2>2 DEF Raise, Conflicts, Pending
    <3> QED
      BY <1>3, <2>2, <3>1, RollBackSent DEF Raise
  <2>3. CASE Deadlock(w)
    <3>1. task[w].pc = "look"
      <4>1. Blockers(w) # {}
        BY <2>3 DEF Deadlock
      <4> QED
        BY <4>1 DEF Blockers, Pending
    <3> QED
      BY <1>3, <2>3, <3>1, RollBackSent DEF Deadlock
  <2> QED
    BY <1>3, <2>1, <2>2, <2>3 DEF Work
<1>4. ASSUME History' = History, NEW w \in Workers, Die(w)
      PROVE SInv'
  BY <1>4, DieSent
<1>5. ASSUME History' = History, NEW w \in Workers, Redeliver(w)
      PROVE SInv'
  <2>1. Known(task[w].job) /\ \A j \in queue : Known(j)
    BY <1>5 DEF SInv, Typed, TaskOK, Redeliver
  <2> QED
    BY <1>5, <2>1, StutterSent DEF Redeliver
<1> QED
  BY <1>1, <1>2, <1>3, <1>4, <1>5 DEF Next, Quiescent

\* The table, the tasks and Dify agree on what was sent, through every
\* interleaving of tasks, failed calls, deaths, conflicts and deadlocks.
THEOREM SentInvariant == Spec => []SInv
<1>1. Init => SInv
  BY SentInit
<1>2. SInv /\ [Next]_vars => SInv'
  BY SentStep
<1> QED
  BY <1>1, <1>2, PTL DEF Spec

\* A row of kb_documents names a document of Dify that was sent this key with
\* this content (DifyKnowledgeProvider, column-wise updates of the session).
THEOREM RowsNameSentDocuments == Spec => []RowsWereSent
<1>1. SInv => RowsWereSent
  BY DEF SInv, TableSent, Sent, RowsWereSent
<1> QED
  BY <1>1, SentInvariant, PTL

\* A job whose kb_status is "completed" has all documents of its version, or of
\* one later version, in Dify (sync_job, sync_documents).
THEOREM CompletedJobsCoverDocuments == Spec => []CompletedCoversDocuments
<1>1. SInv => CompletedCoversDocuments
  BY DEF SInv
<1> QED
  BY <1>1, SentInvariant, PTL

-----------------------------------------------------------------------------
(* The latest word.  What follows holds for a paper as long as its tasks   *)
(* came one after the other, and as long as different papers share no      *)
(* document key: clients form the keys from the paper's identifier.        *)

HasKey(history, p, k) ==
    \E n \in DOMAIN history[p] : \E i \in DOMAIN history[p][n] : history[p][n][i] = k

KeysApart ==
    \A history \in Histories, p, q \in Papers, k \in Keys :
        HasKey(history, p, k) /\ HasKey(history, q, k) => p = q

At(t, p) == t.pc # "idle" /\ t.job[1] = p

\* Whose the keys are.
TaskOwned(t) ==
    t.pc # "idle" =>
        /\ \A m \in DOMAIN t.todo :
              \E i \in DOMAIN KeysOf(t.content) : KeysOf(t.content)[i] = t.todo[m]
        /\ t.pending # None => HasKey(History, t.job[1], t.pending.key)
        /\ \A row \in t.written : HasKey(History, t.job[1], row.key)

Owned ==
    /\ \A k \in Keys : table[k] # None => HasKey(History, table[k].content[1], k)
    /\ \A d \in DOMAIN remote :
          /\ Known(remote[d].content)
          /\ HasKey(History, remote[d].content[1], remote[d].key)
    /\ \A w \in Workers : TaskOwned(task[w])

\* Dify holds this content of the key in this document.
Holds(key, doc, content) == remote[doc] = [key |-> key, content |-> content]

InPlace(k, content) ==
    /\ table[k] # None
    /\ table[k].content = content
    /\ Holds(k, table[k].doc, content)

\* The rows of a paper are what Dify said, and Dify holds nothing older.
RowsLatest(p) ==
    \A k \in Keys :
        table[k] # None /\ table[k].content[1] = p =>
            /\ table[k] \in told
            /\ table[k].content[2] <= remote[table[k].doc].content[2]

Settled(p) ==
    LET j == <<p, latest[p]>> IN
    latest[p] > 0 /\ kb[j] = "completed" =>
        \A i \in DOMAIN KeysOf(j) : InPlace(KeysOf(j)[i], j)

\* What the only task of a paper knows, has written and is about to write is
\* the latest word; no version is later than its own.
TaskKnows(t) ==
    /\ t.pc \in {"send", "poll"} /\ t.seen # None => table[Head(t.todo)] = t.seen
    /\ t.pc = "poll" => Holds(Head(t.todo), t.doc, t.content)
    /\ t.pending # None =>
          /\ t.pending \in told
          /\ Holds(t.pending.key, t.pending.doc, t.content)
          /\ t.seen # None => table[t.pending.key] = t.seen
    /\ \A row \in t.written : row \in told /\ Holds(row.key, row.doc, t.content)
    /\ \A d \in DOMAIN remote :
          remote[d].content[1] = t.job[1] => remote[d].content[2] <= t.content[2]

\* What it is done with is in place, or will be by its commit.
Placed(t) ==
    t.result = "completed" =>
        \A i \in DOMAIN KeysOf(t.content) :
            LET k == KeysOf(t.content)[i] IN
            \/ \E m \in DOMAIN t.todo : t.todo[m] = k
            \/ InPlace(k, t.content)
            \/ t.pending # None /\ t.pending.key = k
            \/ \E row \in t.written : row.key = k

\* Once the latest version is in place, it finds nothing to do.
Resting(t) ==
    kb[<<t.job[1], latest[t.job[1]]>>] = "completed" =>
        /\ t.content = <<t.job[1], latest[t.job[1]]>>
        /\ t.pc = "look" /\ t.pending = None /\ t.written = {}

TaskMine(t) == TaskKnows(t) /\ Placed(t) /\ Resting(t)

Mine(p) ==
    /\ RowsLatest(p)
    /\ Settled(p)
    /\ \A v, w \in Workers : At(task[v], p) /\ At(task[w], p) => v = w
    /\ \A w \in Workers : At(task[w], p) => TaskMine(task[w])

LInv == Owned /\ \A p \in Papers : alone[p] => Mine(p)

-----------------------------------------------------------------------------
(* What remains true of the papers whose documents nobody touches.         *)

Undisturbed(p) ==
    /\ \A k \in Keys : HasKey(History, p, k) => table'[k] = table[k]
    /\ DOMAIN remote \subseteq DOMAIN remote'
    /\ \A d \in DOMAIN remote : HasKey(History, p, remote[d].key) => remote'[d] = remote[d]
    /\ \A d \in DOMAIN remote' :
          remote'[d].content[1] = p => d \in DOMAIN remote /\ remote'[d] = remote[d]
    /\ told \subseteq told'
    /\ History' = History

LEMMA ApartUndisturbed ==
    ASSUME Apart, told \subseteq told', History' = History, NEW p
    PROVE Undisturbed(p)
BY DEF Apart, Undisturbed

\* The documents of a registered version are documents of its paper.
LEMMA KnownKeysHas ==
    ASSUME Typed, NEW j, Known(j), NEW i \in DOMAIN KeysOf(j)
    PROVE KeysOf(j)[i] \in Keys /\ HasKey(History, j[1], KeysOf(j)[i])
<1>1. KeysOf(j) \in Seq(Keys)
  BY KnownKeys
<1>2. History[j[1]] \in Seq(Seq(Keys)) /\ j[1] \in Papers /\ j[2] \in Nat /\ j[2] >= 1
  BY JobParts, DocumentAssumption DEF DocumentAssumption, Typed, Known
<1>3. j[2] \in DOMAIN History[j[1]]
  <2>1. latest[j[1]] \in Nat /\ latest[j[1]] <= Len(History[j[1]]) /\ j[2] <= latest[j[1]]
    BY <1>2 DEF Typed, Known
  <2> QED
    BY <1>2, <2>1
<1> QED
  BY <1>1, <1>3 DEF HasKey, KeysOf

LEMMA LatestKnown ==
    ASSUME Typed, NEW p \in Papers, latest[p] > 0
    PROVE Known(<<p, latest[p]>>)
<1>1. latest[p] \in 1..Len(History[p])
  <2>1. History[p] \in Seq(Seq(Keys))
    BY DocumentAssumption DEF DocumentAssumption, Typed
  <2> QED
    BY <2>1 DEF Typed
<1> QED
  BY <1>1, RegisteredVersion DEF Known, Typed

LEMMA RowsStay ==
    ASSUME SInv, Owned', NEW p, Undisturbed(p), RowsLatest(p)
    PROVE RowsLatest(p)'
<1> SUFFICES ASSUME NEW k \in Keys, table'[k] # None, table'[k].content[1] = p
             PROVE /\ table'[k] \in told'
                   /\ table'[k].content[2] <= remote'[table'[k].doc].content[2]
  BY DEF RowsLatest
<1>1. HasKey(History, p, k)
  BY DEF Owned, Undisturbed
<1>2. table'[k] = table[k]
  BY <1>1 DEF Undisturbed
<1>3. table[k].doc \in DOMAIN remote /\ remote[table[k].doc].key = k
  BY <1>2 DEF SInv, TableSent, Sent
<1>4. remote'[table[k].doc] = remote[table[k].doc]
  BY <1>1, <1>3 DEF Undisturbed
<1> QED
  BY <1>2, <1>4 DEF RowsLatest, Undisturbed

LEMMA InPlaceStays ==
    ASSUME SInv, NEW p, Undisturbed(p), NEW k \in Keys, HasKey(History, p, k),
           NEW content, InPlace(k, content)
    PROVE InPlace(k, content)'
<1>1. table'[k] = table[k] /\ table[k] # None
  BY DEF Undisturbed, InPlace
<1>2. table[k].doc \in DOMAIN remote /\ remote[table[k].doc].key = k
  BY <1>1 DEF SInv, TableSent, Sent
<1>3. remote'[table[k].doc] = remote[table[k].doc]
  BY <1>2 DEF Undisturbed
<1> QED
  BY <1>1, <1>3 DEF InPlace, Holds

LEMMA SettledStays ==
    ASSUME SInv, NEW p \in Papers, Undisturbed(p), Settled(p), latest'[p] = latest[p],
           kb'[<<p, latest[p]>>] = "completed" => kb[<<p, latest[p]>>] = "completed"
    PROVE Settled(p)'
<1> PICK j : j = <<p, latest[p]>>
  OBVIOUS
<1>1. j = <<p, latest'[p]>> /\ KeysOf(j)' = KeysOf(j)
  BY DEF Undisturbed, KeysOf
<1> SUFFICES ASSUME latest[p] > 0, kb[j] = "completed", NEW i \in DOMAIN KeysOf(j),
                    NEW k, k = KeysOf(j)[i]
             PROVE InPlace(k, j)'
  BY <1>1 DEF Settled, InPlace, Holds
<1>2. k \in Keys /\ HasKey(History, p, k)
  BY LatestKnown, KnownKeysHas DEF SInv
<1>3. InPlace(k, j)
  BY DEF Settled
<1> QED
  BY <1>2, <1>3, InPlaceStays

LEMMA TaskStays ==
    ASSUME SInv, NEW p \in Papers, Undisturbed(p), latest'[p] = latest[p],
           kb'[<<p, latest[p]>>] = "completed" => kb[<<p, latest[p]>>] = "completed",
           NEW w \in Workers, At(task[w], p), TaskOwned(task[w]), TaskMine(task[w]),
           task'[w] = task[w]
    PROVE TaskMine(task[w])'
<1> PICK waits : 0 \in waits /\ task \in [Workers -> Task(waits)]
  BY DEF SInv, Typed
<1> PICK t \in Task(waits) : t = task[w]
  OBVIOUS
<1>1. /\ t.pc # "idle" /\ t.job[1] = p /\ TaskOK(t) /\ TaskSent(t) /\ TaskOwned(t)
      /\ TaskKnows(t) /\ Placed(t) /\ Resting(t) /\ Typed
  BY DEF At, SInv, Typed, TaskMine
<1>2. Known(t.content) /\ t.content[1] = p /\ KeysOf(t.content)' = KeysOf(t.content)
  BY <1>1 DEF TaskOK, KeysOf, Undisturbed
<1>3. \A i \in DOMAIN KeysOf(t.content) :
         KeysOf(t.content)[i] \in Keys /\ HasKey(History, p, KeysOf(t.content)[i])
  BY <1>1, <1>2, KnownKeysHas
<1>4. ASSUME NEW k \in Keys, NEW d \in DOMAIN remote, HasKey(History, p, k),
             remote[d].key = k
      PROVE remote'[d] = remote[d]
  BY <1>4 DEF Undisturbed
<1>5. TaskKnows(t)'
  <2>1. ASSUME t.pc \in {"send", "poll"}
        PROVE /\ Head(t.todo) \in Keys /\ HasKey(History, p, Head(t.todo))
              /\ table'[Head(t.todo)] = table[Head(t.todo)]
    <3>1. t.todo \in Seq(Keys) /\ t.todo # <<>>
      BY <1>1, <2>1 DEF TaskOK, Task
    <3>2. 1 \in DOMAIN t.todo /\ t.todo[1] = Head(t.todo)
      BY <3>1
    <3>3. HasKey(History, p, Head(t.todo))
      BY <1>1, <1>3, <3>2 DEF TaskOwned
    <3> QED
      BY <3>1, <3>3, TodoParts DEF Undisturbed
  <2>2. t.pc = "poll" => Holds(Head(t.todo), t.doc, t.content)'
    BY <1>1, <1>4, <2>1 DEF TaskKnows, TaskSent, Sent, Holds
  <2>3. ASSUME t.pending # None
        PROVE /\ t.pending \in told'
              /\ Holds(t.pending.key, t.pending.doc, t.content)'
              /\ t.seen # None => table'[t.pending.key] = t.seen
    <3>1. t.pending.key \in Keys /\ HasKey(History, p, t.pending.key)
      BY <1>1, <2>3 DEF TaskOwned, Task, Row
    <3>2. t.pending.doc \in DOMAIN remote /\ remote[t.pending.doc].key = t.pending.key
      BY <1>1, <2>3 DEF TaskSent, Sent
    <3>3. remote'[t.pending.doc] = remote[t.pending.doc]
      BY <1>4, <3>1, <3>2
    <3> QED
      BY <1>1, <2>3, <3>1, <3>3 DEF TaskKnows, Holds, Undisturbed
  <2>4. ASSUME NEW row \in t.written
        PROVE row \in told' /\ Holds(row.key, row.doc, t.content)'
    <3>1. row.key \in Keys /\ HasKey(History, p, row.key)
      BY <1>1, <2>4 DEF TaskOwned, Task, Row
    <3>2. row.doc \in DOMAIN remote /\ remote[row.doc].key = row.key
      BY <1>1, <2>4 DEF TaskSent, Sent
    <3>3. remote'[row.doc] = remote[row.doc]
      BY <1>4, <3>1, <3>2
    <3> QED
      BY <1>1, <2>4, <3>3 DEF TaskKnows, Holds, Undisturbed
  <2>5. \A d \in DOMAIN remote' :
           remote'[d].content[1] = p => remote'[d].content[2] <= t.content[2]
    BY <1>1 DEF TaskKnows, Undisturbed
  <2> QED
    BY <1>1, <2>1, <2>2, <2>3, <2>4, <2>5 DEF TaskKnows
<1>6. Placed(t)'
  <2> SUFFICES ASSUME t.result = "completed", NEW i \in DOMAIN KeysOf(t.content),
                      NEW k, k = KeysOf(t.content)[i]
               PROVE \/ \E m \in DOMAIN t.todo : t.todo[m] = k
                     \/ InPlace(k, t.content)'
                     \/ t.pending # None /\ t.pending.key = k
                     \/ \E row \in t.written : row.key = k
    BY <1>2 DEF Placed, InPlace, Holds
  <2>1. k \in Keys /\ HasKey(History, p, k)
    BY <1>3
  <2>2. InPlace(k, t.content) => InPlace(k, t.content)'
    BY <2>1, InPlaceStays
  <2> QED
    BY <1>1, <2>2 DEF Placed
<1>7. Resting(t)'
  BY <1>1 DEF Resting
<1>8. task'[w] = t
  OBVIOUS
<1>9. TaskKnows(task[w])'
  BY <1>5, <1>8 DEF TaskKnows, Holds
<1>10. Placed(task[w])'
  BY ONLY <1>6, <1>8 DEF Placed, InPlace, Holds, KeysOf
<1>11. Resting(task[w])'
  BY <1>7, <1>8 DEF Resting
<1> QED
  BY <1>9, <1>10, <1>11 DEF TaskMine

\* A paper at rest while another one is worked on.
LEMMA MineStays ==
    ASSUME SInv, Owned, Owned', NEW p \in Papers, Mine(p), Undisturbed(p),
           latest'[p] = latest[p],
           kb'[<<p, latest[p]>>] = "completed" => kb[<<p, latest[p]>>] = "completed",
           \A v \in Workers : At(task[v], p)' => task'[v] = task[v]
    PROVE Mine(p)'
<1>1. RowsLatest(p)' /\ Settled(p)'
  BY RowsStay, SettledStays DEF Mine
<1>2. ASSUME NEW v \in Workers, NEW w \in Workers, At(task[v], p)', At(task[w], p)'
      PROVE v = w
  BY <1>2 DEF Mine, At
<1>3. ASSUME NEW w \in Workers, At(task[w], p)'
      PROVE TaskMine(task[w])'
  <2>1. task'[w] = task[w]
    BY <1>3
  <2>2. At(task[w], p)
    BY <1>3, <2>1 DEF At
  <2> QED
    BY <2>1, <2>2, TaskStays DEF Mine, Owned
<1> QED
  BY <1>1, <1>2, <1>3 DEF Mine

\* A step of w that leaves the task as t, idle or at its job.
LEMMA WorkStep ==
    ASSUME SInv, LInv, Owned', NEW w \in Workers, task[w].pc # "idle",
           NEW t, Leaves(w, t), t.pc = "idle" \/ t.job = task[w].job,
           NEW p0 \in Papers, p0 = task[w].job[1],
           UNCHANGED <<History, latest, alone>>,
           \A p \in Papers \ {p0} :
              /\ Undisturbed(p)
              /\ kb'[<<p, latest[p]>>] = "completed" => kb[<<p, latest[p]>>] = "completed",
           Mine(p0) => /\ RowsLatest(p0)' /\ Settled(p0)'
                       /\ t.pc # "idle" => TaskMine(t)'
    PROVE LInv'
<1>1. task'[w] = t /\ \A v \in Workers : v # w => task'[v] = task[v]
  BY DEF Leaves, SInv, Typed
<1>2. ASSUME NEW p \in Papers, alone[p], p # p0
      PROVE Mine(p)'
  <2>1. \A v \in Workers : At(task[v], p)' => task'[v] = task[v]
    BY <1>1, <1>2 DEF At
  <2> QED
    BY <1>2, <2>1, MineStays DEF LInv
<1>3. ASSUME alone[p0]
      PROVE Mine(p0)'
  <2>1. Mine(p0) /\ At(task[w], p0)
    BY <1>3 DEF LInv, At
  <2>2. ASSUME NEW v \in Workers, At(task[v], p0)'
        PROVE v = w
    <3>1. CASE v # w
      BY <1>1, <2>1, <2>2, <3>1 DEF Mine, At
    <3> QED
      BY <3>1
  <2>3. At(task[w], p0)' => TaskMine(task[w])'
    <3>1. SUFFICES ASSUME At(task[w], p0)'
                   PROVE TaskMine(task[w])'
      OBVIOUS
    <3>2. TaskMine(t)'
      BY <1>1, <2>1, <3>1 DEF At
    <3>3. TaskKnows(task[w])'
      BY <1>1, <3>2 DEF TaskMine, TaskKnows, Holds
    <3>4. Placed(task[w])'
      <4>1. Placed(t)'
        BY <3>2 DEF TaskMine
      <4> QED
        BY ONLY <1>1, <4>1 DEF Placed, InPlace, Holds, KeysOf
    <3>5. Resting(task[w])'
      BY <1>1, <3>2 DEF TaskMine, Resting
    <3> QED
      BY <3>3, <3>4, <3>5 DEF TaskMine
  <2> QED
    BY <2>1, <2>2, <2>3 DEF Mine
<1> QED
  BY <1>2, <1>3 DEF LInv

\* Keys remain owned.
LEMMA OwnedStep ==
    ASSUME Owned, History' = History, NEW w \in Workers, NEW t, Leaves(w, t),
           TaskOwned(t), Typed,
           \A job : Known(job) => Known(job)',
           \A k \in Keys :
              \/ table'[k] = table[k]
              \/ HasKey(History, table'[k].content[1], k),
           \A d \in DOMAIN remote' :
              \/ d \in DOMAIN remote /\ remote'[d] = remote[d]
              \/ /\ Known(remote'[d].content)
                 /\ HasKey(History, remote'[d].content[1], remote'[d].key)
    PROVE Owned'
<1>1. task'[w] = t /\ \A v \in Workers : v # w => task'[v] = task[v]
  BY DEF Leaves, Typed
<1>2. ASSUME NEW k \in Keys, table'[k] # None
      PROVE HasKey(History, table'[k].content[1], k)
  BY <1>2 DEF Owned
<1>3. ASSUME NEW d \in DOMAIN remote'
      PROVE Known(remote[d].content)' /\ HasKey(History, remote'[d].content[1], remote'[d].key)
  <2> PICK holds : holds = remote'[d]
    OBVIOUS
  <2>1. Known(holds.content) /\ HasKey(History, holds.content[1], holds.key)
    BY DEF Owned
  <2>2. Known(holds.content)'
    BY <2>1
  <2> QED
    BY <2>1, <2>2 DEF Known
<1>4. ASSUME NEW v \in Workers
      PROVE TaskOwned(task[v])'
  <2> PICK u : u = task'[v]
    OBVIOUS
  <2>1. TaskOwned(u)
    BY <1>1 DEF Owned
  <2> QED
    BY <2>1 DEF TaskOwned, KeysOf
<1> QED
  BY <1>2, <1>3, <1>4 DEF Owned

\* A registered job remains registered.
LEMMA KnownStays ==
    ASSUME latest' = latest
    PROVE \A job : Known(job) => Known(job)'
BY DEF Known

\* The first of the documents to come.
LEMMA HeadOwned ==
    ASSUME SInv, Owned, NEW w \in Workers, task[w].pc # "idle", task[w].todo # <<>>
    PROVE /\ Head(task[w].todo) \in Keys
          /\ HasKey(History, task[w].job[1], Head(task[w].todo))
          /\ task[w].job[1] \in Papers
          /\ \E i \in DOMAIN KeysOf(task[w].content) :
                KeysOf(task[w].content)[i] = Head(task[w].todo)
<1> PICK waits : 0 \in waits /\ task \in [Workers -> Task(waits)]
  BY DEF SInv, Typed
<1> PICK t \in Task(waits) : t = task[w]
  OBVIOUS
<1>1. /\ t.todo \in Seq(Keys) /\ t.todo # <<>> /\ TaskOwned(t) /\ TaskOK(t) /\ Typed
  BY DEF Task, Owned, SInv, Typed
<1>2. 1 \in DOMAIN t.todo /\ t.todo[1] = Head(t.todo)
  BY <1>1
<1>3. PICK i \in DOMAIN KeysOf(t.content) : KeysOf(t.content)[i] = Head(t.todo)
  BY <1>1, <1>2 DEF TaskOwned
<1>4. Known(t.content) /\ Known(t.job) /\ t.content[1] = t.job[1]
  BY <1>1 DEF TaskOK
<1>5. t.job[1] \in Papers
  BY <1>4, JobParts DEF Known
<1>6. Head(t.todo) \in Keys /\ HasKey(History, t.job[1], Head(t.todo))
  BY <1>1, <1>3, <1>4, KnownKeysHas
<1> QED
  BY <1>3, <1>5, <1>6

\* What is true of the only task of a paper.
LEMMA MineTask ==
    ASSUME SInv, LInv, NEW w \in Workers, task[w].pc # "idle",
           NEW p0 \in Papers, p0 = task[w].job[1], Mine(p0)
    PROVE TaskKnows(task[w]) /\ Placed(task[w]) /\ Resting(task[w])
BY DEF Mine, At, TaskMine

-----------------------------------------------------------------------------
(* The steps.                                                              *)

\* A step that touches neither the table nor Dify.
LEMMA ApartStep ==
    ASSUME SInv, LInv, NEW w \in Workers, task[w].pc # "idle",
           NEW t, Leaves(w, t), TaskOwned(t), t.pc = "idle" \/ t.job = task[w].job,
           UNCHANGED <<History, latest, alone, kb>>, Apart, told \subseteq told',
           NEW p0 \in Papers, p0 = task[w].job[1],
           Mine(p0) => (t.pc # "idle" => TaskMine(t)')
    PROVE LInv'
<1>1. \A p \in Papers : Undisturbed(p)
  BY ApartUndisturbed
<1>2. Owned'
  <2>1. \A k \in Keys : table'[k] = table[k]
    BY DEF Apart
  <2>2. \A d \in DOMAIN remote' : d \in DOMAIN remote /\ remote'[d] = remote[d]
    BY DEF Apart
  <2> QED
    BY <2>1, <2>2, OwnedStep, KnownStays DEF SInv, LInv
<1>3. Mine(p0) => RowsLatest(p0)' /\ Settled(p0)'
  BY <1>1, <1>2, RowsStay, SettledStays DEF Mine
<1> QED
  BY <1>1, <1>2, <1>3, WorkStep

LEMMA PaperOfTask ==
    ASSUME Typed, NEW w \in Workers, task[w].pc # "idle"
    PROVE task[w].job[1] \in Papers
BY JobParts DEF Typed, TaskOK, Known

LEMMA WaitLatest ==
    ASSUME SInv, LInv, NEW w \in Workers, Wait(w), History' = History
    PROVE LInv'
<1> PICK waits : 0 \in waits /\ task \in [Workers -> Task(waits)]
  BY DEF SInv, Typed
<1> PICK place : place = 1 + Max({task[v].waits : v \in Workers})
  OBVIOUS
<1> PICK t0 \in Task(waits) : t0 = task[w]
  OBVIOUS
<1> PICK p0 : p0 = t0.job[1]
  OBVIOUS
<1> DEFINE t == [t0 EXCEPT !.waits = place]
<1>1. t0.pc # "idle"
  BY DEF Wait, Blockers, Pending
<1>2. p0 \in Papers
  BY <1>1, PaperOfTask DEF SInv
<1>3. Leaves(w, t)
  BY DEF Wait, Leaves
<1>4. /\ t.pc = t0.pc /\ t.job = t0.job /\ t.content = t0.content /\ t.todo = t0.todo
      /\ t.seen = t0.seen /\ t.doc = t0.doc /\ t.pending = t0.pending
      /\ t.written = t0.written /\ t.result = t0.result
  BY DEF Task
<1> HIDE DEF t
<1>5. TaskOwned(t)
  BY <1>4 DEF LInv, Owned, TaskOwned
<1>6. UNCHANGED <<History, latest, alone, kb, told, table, remote, sent>>
  BY DEF Wait, dify
<1>7. ASSUME Mine(p0)
      PROVE TaskMine(t)'
  <2>1. TaskKnows(t0) /\ Placed(t0) /\ Resting(t0)
    BY <1>1, <1>2, <1>7, MineTask
  <2>2. TaskKnows(t)'
    BY <1>4, <1>6, <2>1 DEF TaskKnows, Holds
  <2>3. Placed(t)'
    <3>1. Placed(t)
      BY <1>4, <2>1 DEF Placed
    <3> QED
      BY ONLY <1>6, <3>1 DEF Placed, InPlace, Holds, KeysOf
  <2>4. Resting(t)'
    BY <1>4, <1>6, <2>1 DEF Resting
  <2> QED
    BY <2>2, <2>3, <2>4 DEF TaskMine
<1> QED
  BY <1>1, <1>2, <1>3, <1>4, <1>5, <1>6, <1>7, ApartStep DEF Apart

\* What the only task of a paper flushes is exactly the row that Dify's answer
\* gave: the row is still as it was loaded.
LEMMA FlushedIsPending ==
    ASSUME SInv, NEW w \in Workers, TaskKnows(task[w]), task[w].pending # None
    PROVE FlushedRow(w) = task[w].pending
<1> PICK new : new = task[w].pending
  OBVIOUS
<1>1. new \in Row
  BY DEF SInv, Typed, Task
<1>2. CASE task[w].seen = None
  BY <1>2 DEF FlushedRow
<1>3. CASE task[w].seen # None
  <2>1. table[new.key] = task[w].seen
    BY <1>3 DEF TaskKnows
  <2>2. FlushedRow(w) = [key |-> new.key, doc |-> new.doc, content |-> new.content,
                         status |-> new.status]
    BY <1>3, <2>1 DEF FlushedRow
  <2> QED
    BY <1>1, <2>2 DEF Row
<1> QED
  BY <1>2, <1>3

LEMMA FlushedLatest ==
    ASSUME SInv, NEW w \in Workers, TaskKnows(task[w])
    PROVE /\ Flushed(w) = task[w].written \cup
                             (IF task[w].pending = None THEN {} ELSE {task[w].pending})
          /\ \A row \in Flushed(w) :
                row \in told /\ Holds(row.key, row.doc, task[w].content)
<1>1. Flushed(w) = task[w].written \cup
                      (IF task[w].pending = None THEN {} ELSE {task[w].pending})
  BY FlushedIsPending DEF Flushed
<1> QED
  BY <1>1 DEF TaskKnows

LEMMA LookUpLatest ==
    ASSUME KeysApart, SInv, LInv, NEW w \in Workers, LookUp(w), History' = History
    PROVE LInv'
<1> PICK waits : 0 \in waits /\ task \in [Workers -> Task(waits)]
  BY DEF SInv, Typed
<1> PICK t0 \in Task(waits) : t0 = task[w]
  OBVIOUS
<1> PICK p0 : p0 = t0.job[1]
  OBVIOUS
<1> PICK head : head = Head(t0.todo)
  OBVIOUS
<1> PICK row : row = table[head]
  OBVIOUS
<1> PICK written : written = Flushed(w)
  OBVIOUS
<1> PICK there \in BOOLEAN : there = (row # None /\ row.content = t0.content)
  OBVIOUS
<1> DEFINE t == IF there
                THEN [t0 EXCEPT !.written = written, !.pending = None, !.waits = 0,
                                !.seen = None, !.todo = Tail(t0.todo)]
                ELSE [t0 EXCEPT !.written = written, !.pending = None, !.waits = 0,
                                !.seen = row, !.pc = "send"]
<1>1. t0.pc = "look" /\ t0.todo # <<>> /\ CanFlush(w) /\ Typed
  BY DEF LookUp, SInv
<1>2. Leaves(w, t)
  <2>1. UpToDate(w, row) <=> there
    BY DEF UpToDate
  <2>2. CASE there
    BY <2>1, <2>2 DEF LookUp, Leaves
  <2>3. CASE ~there
    BY <2>1, <2>3 DEF LookUp, Leaves
  <2> QED
    BY <2>2, <2>3
<1>3. /\ t.job = t0.job /\ t.content = t0.content /\ t.pending = None
      /\ t.written = written /\ t.result = t0.result /\ t.doc = t0.doc
      /\ there => t.pc = "look" /\ t.seen = None /\ t.todo = Tail(t0.todo)
      /\ ~there => t.pc = "send" /\ t.seen = row /\ t.todo = t0.todo
  BY <1>1 DEF Task
<1> HIDE DEF t
<1>4. /\ p0 \in Papers /\ head \in Keys
      /\ \E i \in DOMAIN KeysOf(t0.content) : KeysOf(t0.content)[i] = head
  BY <1>1, HeadOwned DEF LInv
<1>5. /\ t0.todo \in Seq(Keys)
      /\ \A m \in DOMAIN t0.todo :
            \/ t0.todo[m] = head
            \/ \E i \in DOMAIN Tail(t0.todo) : Tail(t0.todo)[i] = t0.todo[m]
      /\ \A i \in DOMAIN Tail(t0.todo) :
            \E m \in DOMAIN t0.todo : t0.todo[m] = Tail(t0.todo)[i]
  BY <1>1, TodoParts DEF Task
<1>6. TaskOwned(t0) /\ TaskOK(t0) /\ TaskSent(t0)
  BY DEF LInv, Owned, SInv, Typed
<1>7. TaskOwned(t)
  <2>1. ASSUME NEW m \in DOMAIN t.todo
        PROVE \E i \in DOMAIN KeysOf(t0.content) : KeysOf(t0.content)[i] = t.todo[m]
    <3>1. PICK l \in DOMAIN t0.todo : t0.todo[l] = t.todo[m]
      <4>1. CASE there
        <5>1. t.todo = Tail(t0.todo)
          BY <1>3, <4>1
        <5> QED
          BY <1>5, <5>1
      <4>2. CASE ~there
        BY <1>3, <4>2
      <4> QED
        BY <4>1, <4>2
    <3> QED
      BY <1>1, <1>6, <3>1 DEF TaskOwned
  <2>2. ASSUME NEW b \in written
        PROVE HasKey(History, p0, b.key)
    <3>1. CASE b \in t0.written
      BY <1>1, <1>6, <3>1 DEF TaskOwned
    <3>2. CASE b \notin t0.written
      <4>1. t0.pending # None /\ b = FlushedRow(w)
        BY <3>2 DEF Flushed
      <4>2. b.key = t0.pending.key
        BY <1>1, <1>6, <4>1, FlushedRowIs
      <4> QED
        BY <1>1, <1>6, <4>1, <4>2 DEF TaskOwned
    <3> QED
      BY <3>1, <3>2
  <2> QED
    BY <1>3, <2>1, <2>2 DEF TaskOwned
<1>8. UNCHANGED <<History, latest, alone, kb, told, table, remote, sent>>
  BY DEF LookUp, dify
<1>9. ASSUME Mine(p0)
      PROVE TaskMine(t)'
  <2>1. TaskKnows(t0) /\ Placed(t0) /\ Resting(t0)
    BY <1>1, <1>4, <1>9, MineTask
  <2>2. /\ written = t0.written \cup (IF t0.pending = None THEN {} ELSE {t0.pending})
        /\ \A b \in written : b \in told /\ Holds(b.key, b.doc, t0.content)
    BY <2>1, FlushedLatest
  <2>3. TaskKnows(t)'
    <3>1. \A b \in t.written : b \in told' /\ Holds(b.key, b.doc, t.content)'
      BY <1>3, <1>8, <2>2 DEF Holds
    <3>2. t.pc \in {"send", "poll"} /\ t.seen # None => table'[Head(t.todo)] = t.seen
      BY <1>3, <1>8
    <3>3. \A d \in DOMAIN remote' :
             remote'[d].content[1] = t.job[1] => remote'[d].content[2] <= t.content[2]
      BY <1>3, <1>8, <2>1 DEF TaskKnows
    <3> QED
      BY <1>3, <3>1, <3>2, <3>3 DEF TaskKnows
  <2>4. there => InPlace(head, t0.content)
    <3> SUFFICES ASSUME there
                 PROVE InPlace(head, t0.content)
      OBVIOUS
    <3> PICK holds : holds = remote[row.doc]
      OBVIOUS
    <3>1. row.doc \in DOMAIN remote /\ holds.key = head
      BY <1>4 DEF SInv, TableSent, Sent
    <3>2. t0.content[1] = p0 /\ Known(t0.content)
      BY <1>1, <1>6 DEF TaskOK
    <3>3. row.content[2] <= holds.content[2]
      BY <1>4, <1>9, <3>2 DEF Mine, RowsLatest
    <3>4. holds \in Document
      <4>1. remote \in Seq(Document)
        BY <1>1 DEF Typed
      <4> QED
        BY <3>1, <4>1
    <3>5. /\ HasKey(History, holds.content[1], head)
          /\ Known(holds.content)
      BY <3>1 DEF LInv, Owned
    <3>6. holds.content[1] = p0
      <4>1. holds.content[1] \in Papers
        BY <3>5, JobParts DEF Known
      <4>2. HasKey(History, p0, head) /\ History \in Histories
        BY <1>1, HeadOwned DEF LInv, Typed
      <4> QED
        BY <1>4, <3>5, <4>1, <4>2 DEF KeysApart
    <3>7. holds.content[2] <= t0.content[2]
      BY <2>1, <3>1, <3>6 DEF TaskKnows
    <3>8. holds.content = t0.content
      <4>1. /\ holds.content \in Jobs /\ t0.content \in Jobs
            /\ row.content = t0.content
        BY <3>2, <3>5 DEF Known
      <4> QED
        <5>1. /\ holds.content[1] = t0.content[1]
              /\ holds.content[2] <= t0.content[2] /\ t0.content[2] <= holds.content[2]
          BY <3>2, <3>3, <3>6, <3>7, <4>1
        <5> QED
          BY ONLY <4>1, <5>1, SameJob
    <3>9. holds = [key |-> head, content |-> t0.content]
      BY <3>1, <3>4, <3>8 DEF Document
    <3> QED
      BY <3>9 DEF InPlace, Holds
  <2>5. Placed(t)
    <3> SUFFICES ASSUME t.result = "completed", NEW i \in DOMAIN KeysOf(t0.content),
                        NEW k, k = KeysOf(t0.content)[i]
                 PROVE \/ \E m \in DOMAIN t.todo : t.todo[m] = k
                       \/ InPlace(k, t0.content)
                       \/ \E b \in written : b.key = k
      BY <1>3 DEF Placed
    <3>1. \/ \E m \in DOMAIN t0.todo : t0.todo[m] = k
          \/ InPlace(k, t0.content)
          \/ t0.pending # None /\ t0.pending.key = k
          \/ \E b \in t0.written : b.key = k
      BY <1>3, <2>1 DEF Placed
    <3>2. CASE \E m \in DOMAIN t0.todo : t0.todo[m] = k
      <4>1. CASE ~there
        BY <1>3, <3>2, <4>1
      <4>2. CASE there /\ k = head
        BY <2>4, <4>2
      <4>3. CASE there /\ k # head
        <5>1. PICK m \in DOMAIN t0.todo : t0.todo[m] = k
          BY <3>2
        <5>2. PICK l \in DOMAIN Tail(t0.todo) : Tail(t0.todo)[l] = t0.todo[m]
          BY <1>5, <4>3, <5>1
        <5> QED
          BY <1>3, <4>3, <5>1, <5>2
      <4> QED
        BY <4>1, <4>2, <4>3
    <3> QED
      BY <2>2, <3>1, <3>2
  <2>6. Resting(t)
    <3> SUFFICES ASSUME kb[<<p0, latest[p0]>>] = "completed"
                 PROVE /\ t0.content = <<p0, latest[p0]>>
                       /\ t.pc = "look" /\ t.pending = None /\ t.written = {}
      BY <1>3 DEF Resting
    <3>1. t0.content = <<p0, latest[p0]>> /\ t0.pending = None /\ t0.written = {}
      BY <2>1 DEF Resting
    <3>2. latest[p0] > 0
      <4>1. Known(t0.content)
        BY <1>1, <1>6 DEF TaskOK
      <4> QED
        <5>1. t0.content \in Jobs
          BY <4>1 DEF Known
        <5>2. t0.content[2] >= 1
          BY <4>1, <5>1, JobParts DEF Known
        <5>3. t0.content[2] = latest[p0]
          BY <3>1, SMTT(30)
        <5>4. latest[p0] \in Nat /\ t0.content[2] \in Nat
          <6>1. p0 \in Papers
            BY <3>1, <5>1, JobParts
          <6>2. latest \in [Papers -> Nat]
            BY <1>1 DEF Typed
          <6> QED
            BY ONLY <5>3, <6>1, <6>2
        <5> QED
          BY <5>2, <5>3, <5>4
    <3>3. PICK i \in DOMAIN KeysOf(t0.content) : KeysOf(t0.content)[i] = head
      BY <1>4
    <3>4. InPlace(head, t0.content)
      BY <1>9, <3>1, <3>2, <3>3 DEF Mine, Settled
    <3>5. there
      BY <3>4 DEF InPlace
    <3> QED
      BY <1>3, <2>2, <3>1, <3>5
  <2>7. Placed(t)' /\ Resting(t)'
    <3>1. UNCHANGED <<History, latest, kb, table, remote>>
      BY <1>8
    <3>2. Placed(t)'
      BY ONLY <2>5, <3>1 DEF Placed, InPlace, Holds, KeysOf
    <3>3. Resting(t)'
      BY ONLY <2>6, <3>1 DEF Resting
    <3> QED
      BY <3>2, <3>3
  <2> QED
    BY <2>3, <2>7 DEF TaskMine
<1> QED
  BY <1>1, <1>2, <1>3, <1>4, <1>7, <1>8, <1>9, ApartStep DEF Apart

LEMMA PollLatest ==
    ASSUME SInv, LInv, NEW w \in Workers, Poll(w), History' = History
    PROVE LInv'
<1> PICK waits : 0 \in waits /\ task \in [Workers -> Task(waits)]
  BY DEF SInv, Typed
<1> PICK t0 \in Task(waits) : t0 = task[w]
  OBVIOUS
<1> PICK p0 : p0 = t0.job[1]
  OBVIOUS
<1> PICK head : head = Head(t0.todo)
  OBVIOUS
<1>1. /\ t0.pc = "poll" /\ t0.todo # <<>> /\ t0.pending = None /\ Typed
      /\ TaskOwned(t0) /\ TaskOK(t0)
  BY DEF Poll, SInv, Typed, TaskOK, LInv, Owned
<1> PICK status \in Statuses[head] :
      /\ told' = told \cup {[key |-> head, doc |-> t0.doc, content |-> t0.content,
                             status |-> status]}
      /\ task' = [task EXCEPT ![w].pc = "look",
                    ![w].pending = [key |-> head, doc |-> t0.doc,
                                    content |-> t0.content, status |-> status],
                    ![w].todo = Tail(@)]
  BY DEF Poll, RecordedContent
<1> PICK row : row = [key |-> head, doc |-> t0.doc, content |-> t0.content,
                      status |-> status]
  OBVIOUS
<1> DEFINE t == [t0 EXCEPT !.pc = "look", !.pending = row, !.todo = Tail(t0.todo)]
<1>2. Leaves(w, t)
  BY DEF Leaves
<1>3. /\ t.pc = "look" /\ t.doc = t0.doc /\ t.job = t0.job /\ t.content = t0.content
      /\ t.todo = Tail(t0.todo) /\ t.seen = t0.seen /\ t.pending = row
      /\ t.written = t0.written /\ t.result = t0.result
  BY DEF Task
<1> HIDE DEF t
<1>4. p0 \in Papers /\ head \in Keys /\ HasKey(History, p0, head)
  BY <1>1, HeadOwned DEF LInv
<1>5. /\ t0.todo \in Seq(Keys)
      /\ \A m \in DOMAIN t0.todo :
            \/ t0.todo[m] = head
            \/ \E i \in DOMAIN Tail(t0.todo) : Tail(t0.todo)[i] = t0.todo[m]
      /\ \A i \in DOMAIN Tail(t0.todo) :
            \E m \in DOMAIN t0.todo : t0.todo[m] = Tail(t0.todo)[i]
  BY <1>1, TodoParts DEF Task
<1>6. TaskOwned(t)
  <2>1. ASSUME NEW m \in DOMAIN Tail(t0.todo)
        PROVE \E i \in DOMAIN KeysOf(t0.content) : KeysOf(t0.content)[i] = Tail(t0.todo)[m]
    <3>1. PICK l \in DOMAIN t0.todo : t0.todo[l] = Tail(t0.todo)[m]
      BY <1>5
    <3> QED
      BY <1>1, <3>1 DEF TaskOwned
  <2>2. HasKey(History, p0, row.key)
    BY <1>4
  <2>3. \A b \in t0.written : HasKey(History, p0, b.key)
    BY <1>1 DEF TaskOwned
  <2>4. \A m \in DOMAIN t.todo :
           \E i \in DOMAIN KeysOf(t.content) : KeysOf(t.content)[i] = t.todo[m]
    <3>1. t.todo = Tail(t0.todo) /\ t.content = t0.content
      BY <1>3
    <3> QED
      BY ONLY <2>1, <3>1
  <2>5. /\ HasKey(History, t.job[1], t.pending.key)
        /\ \A b \in t.written : HasKey(History, t.job[1], b.key)
    BY <1>3, <2>2, <2>3
  <2> QED
    BY <2>4, <2>5 DEF TaskOwned
<1>7. /\ UNCHANGED <<History, latest, alone, kb, table, remote, sent>>
      /\ told \subseteq told' /\ row \in told'
  BY DEF Poll
<1>8. ASSUME Mine(p0)
      PROVE TaskMine(t)'
  <2>1. TaskKnows(t0) /\ Placed(t0) /\ Resting(t0)
    BY <1>1, <1>4, <1>8, MineTask
  <2>2. TaskKnows(t)'
    <3>1. /\ row \in told'
          /\ Holds(row.key, row.doc, t.content)'
          /\ t.seen # None => table'[row.key] = t.seen
      BY <1>1, <1>3, <1>7, <2>1 DEF TaskKnows, Holds
    <3>2. \A b \in t.written : b \in told' /\ Holds(b.key, b.doc, t.content)'
      BY <1>3, <1>7, <2>1 DEF TaskKnows, Holds
    <3>3. \A d \in DOMAIN remote' :
             remote'[d].content[1] = t.job[1] => remote'[d].content[2] <= t.content[2]
      BY <1>3, <1>7, <2>1 DEF TaskKnows
    <3> QED
      BY <1>3, <3>1, <3>2, <3>3 DEF TaskKnows
  <2>3. Placed(t)
    <3> SUFFICES ASSUME t0.result = "completed", NEW i \in DOMAIN KeysOf(t0.content),
                        NEW k, k = KeysOf(t0.content)[i]
                 PROVE \/ \E m \in DOMAIN t.todo : t.todo[m] = k
                       \/ InPlace(k, t0.content)
                       \/ t.pending # None /\ t.pending.key = k
                       \/ \E b \in t0.written : b.key = k
      BY <1>3, SMTT(30) DEF Placed
    <3>1. \/ \E m \in DOMAIN t0.todo : t0.todo[m] = k
          \/ InPlace(k, t0.content)
          \/ \E b \in t0.written : b.key = k
      BY <1>1, <2>1 DEF Placed
    <3>2. CASE k = head
      <4>1. row \in Row
        <5>1. t0.content \in Jobs /\ status \in UNION {Statuses[l] : l \in Keys}
          BY <1>1, <1>4 DEF TaskOK, Known
        <5> QED
          BY <1>4, <5>1 DEF Row, Task
      <4> QED
        BY <1>3, <3>2, <4>1, DocumentAssumption DEF DocumentAssumption
    <3>3. CASE k # head /\ \E m \in DOMAIN t0.todo : t0.todo[m] = k
      <4>1. PICK m \in DOMAIN t0.todo : t0.todo[m] = k
        BY <3>3
      <4>2. PICK l \in DOMAIN Tail(t0.todo) : Tail(t0.todo)[l] = t0.todo[m]
        BY <1>5, <3>3, <4>1
      <4> QED
        BY <1>3, <4>1, <4>2
    <3> QED
      BY <3>1, <3>2, <3>3
  <2>4. Resting(t)
    BY <1>1, <1>3, <2>1 DEF Resting
  <2>5. Placed(t)' /\ Resting(t)'
    <3>1. UNCHANGED <<History, latest, kb, table, remote>>
      BY <1>7
    <3>2. Placed(t)'
      BY ONLY <2>3, <3>1 DEF Placed, InPlace, Holds, KeysOf
    <3>3. Resting(t)'
      BY ONLY <2>4, <3>1 DEF Resting
    <3> QED
      BY <3>2, <3>3
  <2> QED
    BY <2>2, <2>5 DEF TaskMine
<1> QED
  BY <1>1, <1>2, <1>3, <1>4, <1>6, <1>7, <1>8, ApartStep DEF Apart

\* A transaction that is rolled back.
LEMMA RollBackLatest ==
    ASSUME SInv, LInv, NEW w \in Workers, task[w].pc = "look", RollBack(w),
           UNCHANGED <<History, latest, queue, kb, table, dify, alone>>
    PROVE LInv'
<1> PICK waits : 0 \in waits /\ task \in [Workers -> Task(waits)]
  BY DEF SInv, Typed
<1> PICK t0 \in Task(waits) : t0 = task[w]
  OBVIOUS
<1> PICK p0 : p0 = t0.job[1]
  OBVIOUS
<1> DEFINE t == [t0 EXCEPT !.todo = <<>>, !.seen = None, !.pending = None, !.waits = 0,
                           !.written = {}, !.result = "failed"]
<1>1. p0 \in Papers /\ t0.pc = "look"
  BY PaperOfTask DEF SInv
<1>2. Leaves(w, t)
  BY DEF Leaves, RollBack
<1>3. /\ t.pc = "look" /\ t.job = t0.job /\ t.content = t0.content /\ t.todo = <<>>
      /\ t.pending = None /\ t.written = {} /\ t.result = "failed"
  BY <1>1 DEF Task
<1> HIDE DEF t
<1>4. TaskOwned(t)
  BY <1>3 DEF TaskOwned
<1>5. UNCHANGED <<History, latest, alone, kb, told, table, remote, sent>>
  BY DEF dify
<1>6. ASSUME Mine(p0)
      PROVE TaskMine(t)'
  <2>1. TaskKnows(t0) /\ Resting(t0)
    BY <1>1, <1>6, MineTask
  <2>2. TaskKnows(t)'
    BY <1>3, <1>5, <2>1 DEF TaskKnows
  <2>3. Placed(t)' /\ Resting(t)'
    BY <1>3, <1>5, <2>1 DEF Placed, Resting
  <2> QED
    BY <2>2, <2>3 DEF TaskMine
<1> QED
  BY <1>1, <1>2, <1>3, <1>4, <1>5, <1>6, ApartStep DEF Apart

\* A worker that dies.
LEMMA DieLatest ==
    ASSUME SInv, LInv, NEW w \in Workers, Die(w), History' = History
    PROVE LInv'
<1> PICK p0 : p0 = task[w].job[1]
  OBVIOUS
<1>1. p0 \in Papers
  BY PaperOfTask DEF SInv, Die
<1>2. Leaves(w, Idle)
  BY DEF Leaves, Die
<1>3. Idle.pc = "idle" /\ TaskOwned(Idle)
  BY DEF Idle, TaskOwned
<1>4. UNCHANGED <<History, latest, alone, kb, told, table, remote, sent>>
  BY DEF dify, Die
<1> QED
  BY <1>1, <1>2, <1>3, <1>4, ApartStep DEF Apart, Die

\* A step that no task takes part in.
LEMMA RestsLatest ==
    ASSUME SInv, LInv, UNCHANGED <<History, latest, kb, table, remote, sent, told, alone, task>>
    PROVE LInv'
<1>1. Owned'
  BY DEF LInv, Owned, TaskOwned, Known, KeysOf
<1>2. ASSUME NEW p \in Papers, alone[p]
      PROVE Mine(p)'
  <2>1. Undisturbed(p)
    BY DEF Undisturbed
  <2> QED
    BY <1>1, <1>2, <2>1, MineStays DEF LInv
<1> QED
  BY <1>1, <1>2 DEF LInv

\* What Post does to the documents of the papers.
LEMMA PostLatest ==
    ASSUME KeysApart, SInv, LInv, NEW w \in Workers, task[w].pc = "send", Post(w),
           UNCHANGED <<History, latest, kb, table, told>>,
           NEW p0 \in Papers, p0 = task[w].job[1],
           NEW content, content = task[w].content
    PROVE /\ \A d \in DOMAIN remote' :
                \/ d \in DOMAIN remote /\ remote'[d] = remote[d]
                \/ /\ Known(remote'[d].content)
                   /\ HasKey(History, remote'[d].content[1], remote'[d].key)
          /\ \A p \in Papers \ {p0} : Undisturbed(p)
          /\ Mine(p0) =>
                /\ RowsLatest(p0)' /\ Settled(p0)'
                /\ \A d \in DOMAIN remote' :
                      remote'[d].content[1] = p0
                          => remote'[d].content[2] <= content[2]
                /\ \A key, doc :
                      Holds(key, doc, content) /\ doc \in DOMAIN remote
                          => Holds(key, doc, content)'
<1> PICK waits : 0 \in waits /\ task \in [Workers -> Task(waits)]
  BY DEF SInv, Typed
<1> PICK t \in Task(waits) : t = task[w]
  OBVIOUS
<1> PICK head : head = Head(t.todo)
  OBVIOUS
<1> PICK target : target = Target(w)
  OBVIOUS
<1>1. /\ t.pc = "send" /\ t.todo # <<>> /\ Typed /\ TaskOK(t)
      /\ Known(t.content) /\ t.content[1] = p0
  BY DEF SInv, Typed, TaskOK
<1>2. head \in Keys /\ HasKey(History, p0, head)
  BY <1>1, HeadOwned DEF LInv
<1>3. /\ DifyGrows
      /\ target \in DOMAIN remote'
      /\ remote'[target] = [key |-> head, content |-> t.content]
      /\ \A d \in DOMAIN remote : d # target => remote'[d] = remote[d]
      /\ DOMAIN remote' \subseteq DOMAIN remote \cup {target}
  BY <1>1, PostGrows
<1>4. History \in Histories
  BY <1>1 DEF Typed
<1>5. ASSUME NEW d \in DOMAIN remote'
      PROVE \/ d \in DOMAIN remote /\ remote'[d] = remote[d]
            \/ /\ Known(remote'[d].content)
               /\ HasKey(History, remote'[d].content[1], remote'[d].key)
  <2>1. CASE d = target
    BY <1>1, <1>2, <1>3, <2>1
  <2>2. CASE d # target
    BY <1>3, <2>2
  <2> QED
    BY <2>1, <2>2
<1>6. ASSUME NEW p \in Papers, p # p0
      PROVE Undisturbed(p)
  <2>1. ASSUME NEW d \in DOMAIN remote, HasKey(History, p, remote[d].key)
        PROVE remote'[d] = remote[d]
    <3>1. d # target
      BY <1>2, <1>3, <1>4, <1>6, <2>1 DEF DifyGrows, KeysApart
    <3> QED
      BY <1>3, <3>1
  <2>2. ASSUME NEW d \in DOMAIN remote', remote'[d].content[1] = p
        PROVE d \in DOMAIN remote /\ remote'[d] = remote[d]
    BY <1>1, <1>3, <1>6, <2>2
  <2> QED
    BY <1>3, <2>1, <2>2 DEF Undisturbed, DifyGrows
<1>7. ASSUME Mine(p0)
      PROVE /\ RowsLatest(p0)' /\ Settled(p0)'
            /\ \A d \in DOMAIN remote' :
                  remote'[d].content[1] = p0 => remote'[d].content[2] <= t.content[2]
            /\ \A key, doc : Holds(key, doc, t.content) /\ doc \in DOMAIN remote
                  => Holds(key, doc, t.content)'
  <2>1. TaskKnows(t) /\ Resting(t)
    BY <1>1, <1>7, MineTask
  <2>2. Settled(p0)'
    BY <1>1, <2>1 DEF Settled, Resting
  <2>3. \A d \in DOMAIN remote' :
           remote'[d].content[1] = p0 => remote'[d].content[2] <= t.content[2]
    <3>1. t.content[2] \in Nat
      BY <1>1, JobParts DEF Known
    <3> SUFFICES ASSUME NEW d \in DOMAIN remote', remote'[d].content[1] = p0
                 PROVE remote'[d].content[2] <= t.content[2]
      OBVIOUS
    <3>2. CASE d = target
      BY <1>3, <3>1, <3>2
    <3>3. CASE d # target
      BY <1>3, <2>1, <3>3 DEF TaskKnows
    <3> QED
      BY <3>2, <3>3
  <2>4. ASSUME NEW key, NEW doc, Holds(key, doc, t.content), doc \in DOMAIN remote
        PROVE Holds(key, doc, t.content)'
    <3>1. CASE doc = target
      BY <1>3, <2>4, <3>1 DEF Holds, DifyGrows
    <3>2. CASE doc # target
      BY <1>3, <2>4, <3>2 DEF Holds
    <3> QED
      BY <3>1, <3>2
  <2>5. RowsLatest(p0)'
    <3> SUFFICES ASSUME NEW k \in Keys, table[k] # None, table[k].content[1] = p0
                 PROVE /\ table[k] \in told
                       /\ table[k].content[2] <= remote'[table[k].doc].content[2]
      BY DEF RowsLatest
    <3> PICK row : row = table[k]
      OBVIOUS
    <3>1. row \in told /\ row.content[2] <= remote[row.doc].content[2]
      BY <1>7 DEF Mine, RowsLatest
    <3>2. row.doc \in DOMAIN remote /\ remote[row.doc].key = k
      BY DEF SInv, TableSent, Sent
    <3>3. CASE row.doc # target
      BY <1>3, <3>1, <3>2, <3>3
    <3>4. CASE row.doc = target
      <4> PICK holds : holds = remote[row.doc]
        OBVIOUS
      <4>1. HasKey(History, holds.content[1], k) /\ Known(holds.content)
        BY <3>2 DEF LInv, Owned
      <4>2. holds.content[1] = p0
        <5>1. HasKey(History, p0, k)
          BY DEF LInv, Owned
        <5>2. holds.content[1] \in Papers
          BY <4>1, JobParts DEF Known
        <5> QED
          BY <1>4, <4>1, <5>1, <5>2 DEF KeysApart
      <4>3. holds.content[2] <= t.content[2]
        BY <2>1, <3>2, <4>2 DEF TaskKnows
      <4>4. row.content \in Jobs /\ holds.content \in Jobs /\ t.content \in Jobs
        BY <1>1, <4>1 DEF Typed, Row, Known
      <4>5. row.content[2] <= t.content[2]
        BY <3>1, <4>3, <4>4, JobParts
      <4> QED
        BY <1>3, <3>1, <3>4, <4>5
    <3> QED
      BY <3>3, <3>4
  <2> QED
    BY <2>2, <2>3, <2>4, <2>5
<1> QED
  BY <1>5, <1>6, <1>7

\* A step that posts a document and leaves the task as t, which is at the same
\* job and knows what it knew and the document that it posted.
LEMMA PostStep ==
    ASSUME KeysApart, SInv, LInv, NEW w \in Workers, task[w].pc = "send", Post(w),
           UNCHANGED <<History, latest, kb, table, told, alone>>,
           NEW t, Leaves(w, t), t.pc \in {"look", "poll"}, t.job = task[w].job,
           t.content = task[w].content, t.written = task[w].written,
           t.pending = None,
           t.pc = "look" => t.todo = <<>> /\ t.result = "failed",
           t.pc = "poll" =>
               /\ t.todo = task[w].todo /\ t.seen = task[w].seen
               /\ t.doc = Target(w) /\ t.result = task[w].result
    PROVE LInv'
<1> PICK waits : 0 \in waits /\ task \in [Workers -> Task(waits)]
  BY DEF SInv, Typed
<1> PICK t0 \in Task(waits) : t0 = task[w]
  OBVIOUS
<1> PICK p0 : p0 = t0.job[1]
  OBVIOUS
<1> PICK content : content = t0.content
  OBVIOUS
<1>1. /\ t0.pc = "send" /\ TaskOwned(t0) /\ TaskOK(t0) /\ TaskSent(t0) /\ t0.pending = None
      /\ p0 \in Papers
  BY PaperOfTask DEF LInv, Owned, SInv, Typed, TaskOK
<1>2. /\ \A d \in DOMAIN remote' :
            \/ d \in DOMAIN remote /\ remote'[d] = remote[d]
            \/ /\ Known(remote'[d].content)
               /\ HasKey(History, remote'[d].content[1], remote'[d].key)
      /\ \A p \in Papers \ {p0} : Undisturbed(p)
      /\ Mine(p0) =>
            /\ RowsLatest(p0)' /\ Settled(p0)'
            /\ \A d \in DOMAIN remote' :
                  remote'[d].content[1] = p0 => remote'[d].content[2] <= content[2]
            /\ \A key, doc :
                  Holds(key, doc, content) /\ doc \in DOMAIN remote
                      => Holds(key, doc, content)'
  BY <1>1, PostLatest
<1>3. TaskOwned(t)
  <2>1. \A m \in DOMAIN t.todo :
           \E i \in DOMAIN KeysOf(t.content) : KeysOf(t.content)[i] = t.todo[m]
    <3>1. CASE t.pc = "look"
      BY <3>1
    <3>2. CASE t.pc = "poll"
      BY <1>1, <3>2 DEF TaskOwned
    <3> QED
      BY <3>1, <3>2
  <2>2. \A b \in t.written : HasKey(History, t.job[1], b.key)
    BY <1>1 DEF TaskOwned
  <2> QED
    BY <2>1, <2>2 DEF TaskOwned
<1>4. Owned'
  <2>1. Owned /\ Typed /\ \A k \in Keys : table'[k] = table[k]
    BY DEF LInv, SInv
  <2> QED
    BY <1>2, <1>3, <2>1, OwnedStep, KnownStays
<1>5. ASSUME Mine(p0)
      PROVE TaskMine(t)'
  <2>1. TaskKnows(t0) /\ Placed(t0) /\ Resting(t0)
    BY <1>1, <1>5, MineTask
  <2>2. \A key, doc : Holds(key, doc, content) /\ doc \in DOMAIN remote
            => Holds(key, doc, content)'
    BY <1>2, <1>5
  <2>3. TaskKnows(t)'
    <3>1. ASSUME t.pc = "poll"
          PROVE /\ Holds(Head(t.todo), t.doc, t.content)'
                /\ t.seen # None => table'[Head(t.todo)] = t.seen
      <4>1. remote'[Target(w)] = [key |-> Head(t0.todo), content |-> t0.content]
        BY <1>1, PostGrows
      <4> QED
        BY <1>1, <2>1, <3>1, <4>1 DEF TaskKnows, Holds
    <3>2. ASSUME NEW b \in t.written
          PROVE b \in told' /\ Holds(b.key, b.doc, content)'
      <4>1. b \in told /\ Holds(b.key, b.doc, content) /\ b.doc \in DOMAIN remote
        BY <1>1, <2>1, <3>2 DEF TaskKnows, TaskSent, Sent
      <4> QED
        BY <2>2, <4>1
    <3>3. \A d \in DOMAIN remote' :
             remote'[d].content[1] = p0 => remote'[d].content[2] <= content[2]
      BY <1>2, <1>5
    <3> QED
      BY <3>1, <3>2, <3>3 DEF TaskKnows, Holds
  <2>4. Placed(t)'
    <3>1. CASE t.pc = "look"
      BY <3>1 DEF Placed
    <3>2. CASE t.pc = "poll"
      <4>1. KeysOf(content)' = KeysOf(content)
        BY DEF KeysOf
      <4> SUFFICES ASSUME t0.result = "completed", NEW i \in DOMAIN KeysOf(content),
                          NEW k, k = KeysOf(content)[i]
                   PROVE \/ \E m \in DOMAIN t0.todo : t0.todo[m] = k
                         \/ InPlace(k, content)'
                         \/ \E b \in t0.written : b.key = k
        BY <3>2, <4>1 DEF Placed, InPlace, Holds
      <4>2. \/ \E m \in DOMAIN t0.todo : t0.todo[m] = k
            \/ InPlace(k, content)
            \/ \E b \in t0.written : b.key = k
        BY <1>1, <2>1 DEF Placed
      <4>3. ASSUME InPlace(k, content)
            PROVE InPlace(k, content)'
        <5>1. k \in Keys
          BY <1>1, KnownKeysHas DEF TaskOK, SInv
        <5>2. table[k] # None /\ table[k].doc \in DOMAIN remote
          BY <4>3, <5>1 DEF InPlace, SInv, TableSent, Sent
        <5> QED
          BY <2>2, <4>3, <5>2 DEF InPlace
      <4> QED
        BY <4>2, <4>3
    <3> QED
      BY <3>1, <3>2
  <2>5. Resting(t)'
    BY <1>1, <2>1 DEF Resting
  <2> QED
    BY <2>3, <2>4, <2>5 DEF TaskMine
<1> QED
  BY <1>1, <1>2, <1>4, <1>5, WorkStep

LEMMA SendLatest ==
    ASSUME KeysApart, SInv, LInv, NEW w \in Workers, Send(w), History' = History
    PROVE LInv'
<1> PICK waits : 0 \in waits /\ task \in [Workers -> Task(waits)]
  BY DEF SInv, Typed
<1> PICK t0 \in Task(waits) : t0 = task[w]
  OBVIOUS
<1> PICK d : d = Target(w)
  OBVIOUS
<1> DEFINE t == [t0 EXCEPT !.pc = "poll", !.doc = d]
<1>1. t0.pc = "send" /\ t0.pending = None
  BY DEF Send, SInv, Typed, TaskOK
<1>2. Leaves(w, t)
  BY DEF Send, Leaves
<1>3. /\ t.pc = "poll" /\ t.doc = d /\ t.job = t0.job /\ t.content = t0.content
      /\ t.todo = t0.todo /\ t.seen = t0.seen /\ t.pending = None
      /\ t.written = t0.written /\ t.result = t0.result
  BY <1>1 DEF Task
<1> HIDE DEF t
<1>4. Post(w) /\ UNCHANGED <<latest, kb, table, told, alone>>
  BY DEF Send
<1> QED
  BY <1>1, <1>2, <1>3, <1>4, PostStep

LEMMA CallFailsLatest ==
    ASSUME KeysApart, SInv, LInv, NEW w \in Workers, CallFails(w), History' = History
    PROVE LInv'
<1> PICK waits : 0 \in waits /\ task \in [Workers -> Task(waits)]
  BY DEF SInv, Typed
<1> PICK t0 \in Task(waits) : t0 = task[w]
  OBVIOUS
<1> PICK p0 : p0 = t0.job[1]
  OBVIOUS
<1> DEFINE t == [t0 EXCEPT !.pc = "look", !.todo = <<>>, !.result = "failed"]
<1>1. /\ t0.pc \in {"send", "poll"} /\ TaskOwned(t0) /\ t0.pending = None
      /\ p0 \in Papers
  BY PaperOfTask DEF CallFails, LInv, Owned, SInv, Typed, TaskOK
<1>2. Leaves(w, t)
  BY DEF CallFails, Leaves
<1>3. /\ t.pc = "look" /\ t.doc = t0.doc /\ t.job = t0.job /\ t.content = t0.content
      /\ t.todo = <<>> /\ t.seen = t0.seen /\ t.pending = None
      /\ t.written = t0.written /\ t.result = "failed"
  BY <1>1 DEF Task
<1> HIDE DEF t
<1>4. UNCHANGED <<latest, kb, table, told, alone>>
  BY DEF CallFails
<1>5. CASE t0.pc = "send" /\ Post(w)
  BY <1>1, <1>2, <1>3, <1>4, <1>5, PostStep
<1>6. CASE UNCHANGED <<remote, sent>>
  <2>1. TaskOwned(t)
    BY <1>1, <1>3 DEF TaskOwned
  <2>2. ASSUME Mine(p0)
        PROVE TaskMine(t)'
    <3>1. TaskKnows(t0) /\ Resting(t0)
      BY <1>1, <2>2, MineTask
    <3>2. TaskKnows(t)'
      BY <1>3, <1>4, <1>6, <3>1 DEF TaskKnows, Holds
    <3>3. Placed(t)' /\ Resting(t)'
      BY <1>1, <1>3, <1>4, <3>1 DEF Placed, Resting
    <3> QED
      BY <3>2, <3>3 DEF TaskMine
  <2> QED
    BY <1>1, <1>2, <1>3, <1>4, <1>6, <2>1, <2>2, ApartStep DEF Apart
<1> QED
  BY <1>5, <1>6 DEF CallFails

LEMMA RegisterLatest ==
    ASSUME SInv, LInv, NEW p \in Papers, Register(p), History' = History
    PROVE LInv'
<1>1. /\ Apart /\ UNCHANGED <<task, told, alone>>
      /\ latest' = [latest EXCEPT ![p] = @ + 1]
      /\ kb' = [kb EXCEPT ![<<p, latest[p] + 1>>] = "pending"]
      /\ Typed
  BY DEF Register, Apart, dify, SInv
<1>2. \A q \in Papers : Undisturbed(q)
  BY <1>1, ApartUndisturbed
<1>3. latest[p] + 1 = latest'[p] /\ \A q \in Papers : q # p => latest'[q] = latest[q]
  BY <1>1 DEF Typed
<1>4. kb'[<<p, latest'[p]>>] = "pending"
  <2>1. latest[p] + 1 \in 1..Len(History[p])
    <3>1. latest[p] \in Nat /\ latest[p] < Len(History[p])
      BY <1>1 DEF Register, Typed
    <3>2. History[p] \in Seq(Seq(Keys))
      BY <1>1, DocumentAssumption DEF DocumentAssumption, Typed
    <3> QED
      BY <3>1, <3>2
  <2>2. <<p, latest[p] + 1>> \in Jobs
    BY <1>1, <2>1, RegisteredVersion
  <2> QED
    BY <1>1, <1>3, <2>2 DEF Typed
<1>5. Owned'
  <2>1. ASSUME NEW d \in DOMAIN remote
        PROVE Known(remote[d].content)'
    <3> PICK c : c = remote[d].content
      OBVIOUS
    <3>1. c \in Jobs /\ c[2] <= latest[c[1]] /\ c[1] \in Papers /\ c[2] \in Nat
      BY JobParts DEF LInv, Owned, Known
    <3>2. c[2] <= latest'[c[1]]
      BY <1>1, <3>1 DEF Typed
    <3>3. c = remote'[d].content
      BY <1>1 DEF Apart
    <3> QED
      BY <3>1, <3>2, <3>3 DEF Known
  <2>2. ASSUME NEW w \in Workers
        PROVE TaskOwned(task[w])'
    BY <1>1 DEF LInv, Owned, TaskOwned, KeysOf
  <2> QED
    BY <1>1, <2>1, <2>2 DEF Apart, LInv, Owned
<1>6. ASSUME NEW q \in Papers, alone[q], q # p
      PROVE Mine(q)'
  <2>1. kb'[<<q, latest[q]>>] = kb[<<q, latest[q]>>]
    BY <1>1, <1>6
  <2>2. Mine(q) /\ Owned
    BY <1>6 DEF LInv
  <2> QED
    BY <1>1, <1>2, <1>3, <1>5, <1>6, <2>1, <2>2, MineStays
<1>7. ASSUME alone[p]
      PROVE Mine(p)'
  <2>1. Mine(p)
    BY <1>7 DEF LInv
  <2>2. RowsLatest(p)'
    BY <1>2, <1>5, <2>1, RowsStay DEF Mine
  <2>3. Settled(p)'
    BY <1>4 DEF Settled
  <2>4. ASSUME NEW w \in Workers, At(task[w], p)
        PROVE TaskMine(task[w])'
    <3>1. TaskKnows(task[w]) /\ Placed(task[w]) /\ task[w].job[1] = p
      BY <2>1, <2>4 DEF Mine, At, TaskMine
    <3>2. TaskKnows(task[w])'
      BY <1>1, <3>1 DEF TaskKnows, Holds, Apart
    <3>3. Placed(task[w])'
      <4> PICK t : t = task[w]
        OBVIOUS
      <4>1. UNCHANGED <<History, table, remote>> /\ task'[w] = t /\ Placed(t)
        BY <1>1, <3>1 DEF Apart
      <4> QED
        BY ONLY <4>1, ZenonT(30) DEF Placed, InPlace, Holds, KeysOf
    <3>4. Resting(task[w])'
      BY <1>1, <1>4, <3>1 DEF Resting
    <3> QED
      BY <3>2, <3>3, <3>4 DEF TaskMine
  <2>5. \A v, w \in Workers : At(task[v], p)' /\ At(task[w], p)' => v = w
    BY <1>1, <2>1 DEF Mine, At
  <2>6. \A w \in Workers : At(task[w], p)' => TaskMine(task[w])'
    BY <1>1, <2>4 DEF At
  <2> QED
    BY <2>2, <2>3, <2>5, <2>6 DEF Mine
<1> QED
  BY <1>1, <1>5, <1>6, <1>7 DEF LInv

LEMMA BeginLatest ==
    ASSUME SInv, LInv, NEW w \in Workers, Begin(w), History' = History
    PROVE LInv'
<1> PICK j \in queue :
      /\ Leaves(w, [Idle EXCEPT !.pc = "look", !.job = j,
                                !.content = <<j[1], latest[j[1]]>>,
                                !.todo = KeysOf(<<j[1], latest[j[1]]>>),
                                !.result = FirstResult(<<j[1], latest[j[1]]>>)])
      /\ alone' = [alone EXCEPT ![j[1]] =
                     @ /\ \A v0 \in Workers : task[v0].pc = "idle" \/ task[v0].job[1] # j[1]]
  BY DEF Begin, Leaves
<1> PICK p0 : p0 = j[1]
  OBVIOUS
<1> PICK c : c = <<p0, latest[p0]>>
  OBVIOUS
<1> PICK todo : todo = KeysOf(c)
  OBVIOUS
<1> PICK result : result = FirstResult(c)
  OBVIOUS
<1> DEFINE t == [Idle EXCEPT !.pc = "look", !.job = j, !.content = c, !.todo = todo,
                             !.result = result]
<1>1. /\ t.pc = "look" /\ t.job = j /\ t.content = c /\ t.todo = todo
      /\ t.pending = None /\ t.written = {}
  BY DEF Idle
<1>2. Leaves(w, t)
  BY DEF Leaves
<1> HIDE DEF t
<1>3. /\ Apart /\ UNCHANGED <<latest, kb, told>> /\ Typed /\ Owned
      /\ p0 \in Papers
  BY JobParts DEF Begin, Apart, dify, SInv, LInv, Typed, Known
<1>4. \A p \in Papers : Undisturbed(p)
  BY <1>3, ApartUndisturbed
<1>5. task'[w] = t /\ \A v \in Workers : v # w => task'[v] = task[v]
  BY <1>2, <1>3 DEF Leaves, Typed
<1>6. Owned'
  <2>1. TaskOwned(t)
    BY <1>1 DEF TaskOwned
  <2>2. /\ \A k \in Keys : table'[k] = table[k]
        /\ \A d \in DOMAIN remote' : d \in DOMAIN remote /\ remote'[d] = remote[d]
    BY <1>3 DEF Apart
  <2>3. \A job : Known(job) => Known(job)'
    BY <1>3, KnownStays
  <2> QED
    BY <1>2, <1>3, <2>1, <2>2, <2>3, OwnedStep
<1>7. ASSUME NEW p \in Papers, alone'[p], p # p0
      PROVE Mine(p)'
  <2>1. Mine(p)
    BY <1>7, <1>3 DEF LInv, Typed
  <2>2. \A v \in Workers : At(task[v], p)' => task'[v] = task[v]
    BY <1>1, <1>5, <1>7 DEF At
  <2> QED
    BY <1>3, <1>4, <1>6, <1>7, <2>1, <2>2, MineStays
<1>8. ASSUME alone'[p0]
      PROVE Mine(p0)'
  <2>1. alone[p0] /\ \A v \in Workers : task[v].pc = "idle" \/ task[v].job[1] # p0
    BY <1>3, <1>8 DEF Typed
  <2>2. Mine(p0)
    BY <1>3, <2>1 DEF LInv
  <2>3. RowsLatest(p0)' /\ Settled(p0)'
    BY <1>3, <1>4, <1>6, <2>2, RowsStay, SettledStays DEF Mine
  <2>4. \A v \in Workers : At(task[v], p0)' => v = w
    BY <1>5, <2>1 DEF At
  <2>5. TaskKnows(t)'
    <3>1. ASSUME NEW d \in DOMAIN remote, remote[d].content[1] = p0
          PROVE remote[d].content[2] <= latest[p0]
      BY <1>3, <3>1 DEF Owned, Known
    <3> QED
      BY <1>1, <1>3, <3>1 DEF TaskKnows, Apart
  <2>6. Placed(t)
    BY <1>1 DEF Placed
  <2>7. Resting(t)
    BY <1>1 DEF Resting
  <2>8. TaskKnows(task[w])'
    BY <1>5, <2>5 DEF TaskKnows, Holds
  <2>9. Placed(task[w])'
    <3>1. UNCHANGED <<History, table, remote>> /\ task'[w] = t
      BY <1>3, <1>5 DEF Apart
    <3> QED
      BY ONLY <2>6, <3>1, ZenonT(30) DEF Placed, InPlace, Holds, KeysOf
  <2>10. Resting(task[w])'
    BY <1>3, <1>5, <2>7 DEF Resting
  <2>11. TaskMine(task[w])'
    BY <2>8, <2>9, <2>10 DEF TaskMine
  <2>12. \A v, u \in Workers : At(task[v], p0)' /\ At(task[u], p0)' => v = u
    BY <2>4
  <2>13. \A v \in Workers : At(task[v], p0)' => TaskMine(task[v])'
    BY <2>4, <2>11
  <2> QED
    BY <2>3, <2>12, <2>13 DEF Mine
<1> QED
  BY <1>6, <1>7, <1>8 DEF LInv

LEMMA CommitLatest ==
    ASSUME KeysApart, SInv, LInv, NEW w \in Workers, Commit(w), History' = History
    PROVE LInv'
<1> PICK waits : 0 \in waits /\ task \in [Workers -> Task(waits)]
  BY DEF SInv, Typed
<1> PICK t0 \in Task(waits) : t0 = task[w]
  OBVIOUS
<1> PICK p0 : p0 = t0.job[1]
  OBVIOUS
<1>1. /\ t0.pc = "look" /\ t0.todo = <<>> /\ CanFlush(w) /\ p0 \in Papers
      /\ TaskOK(t0) /\ TaskOwned(t0) /\ TaskSent(t0) /\ Typed /\ Owned
  BY PaperOfTask DEF Commit, SInv, Typed, LInv, Owned
<1>2. /\ Leaves(w, Idle)
      /\ kb' = [kb EXCEPT ![t0.job] = t0.result]
      /\ UNCHANGED <<History, latest, remote, sent, told, alone>>
  BY DEF Commit, Leaves, dify
<1>3. \A b \in Flushed(w) :
         /\ b \in Row /\ b.content = t0.content
         /\ HasKey(History, p0, b.key)
  <2>1. \A b \in Flushed(w) : b \in Row /\ b.content = t0.content
    BY <1>1, FlushedIsSent
  <2>2. ASSUME NEW b \in Flushed(w)
        PROVE HasKey(History, p0, b.key)
    <3>1. CASE b \in t0.written
      BY <1>1, <3>1 DEF TaskOwned
    <3>2. CASE b \notin t0.written
      <4>1. t0.pending # None /\ b = FlushedRow(w)
        BY <3>2 DEF Flushed
      <4>2. b.key = t0.pending.key
        BY <1>1, <4>1, FlushedRowIs
      <4> QED
        BY <1>1, <4>1, <4>2 DEF TaskOwned
    <3> QED
      BY <3>1, <3>2
  <2> QED
    BY <2>1, <2>2
<1>4. \A k \in Keys :
         \/ table'[k] \in Flushed(w) /\ table'[k].key = k
         \/ table'[k] = table[k] /\ \A row \in Flushed(w) : row.key # k
  BY CommittedRows
<1>5. t0.content[1] = p0 /\ Known(t0.content) /\ Known(t0.job) /\ t0.job[2] <= t0.content[2]
  BY <1>1 DEF TaskOK
<1>6. Owned'
  <2>1. ASSUME NEW k \in Keys
        PROVE table'[k] = table[k] \/ HasKey(History, table'[k].content[1], k)
    BY <1>3, <1>4, <1>5
  <2>2. \A d \in DOMAIN remote' : d \in DOMAIN remote /\ remote'[d] = remote[d]
    BY <1>2
  <2>3. TaskOwned(Idle) /\ \A job : Known(job) => Known(job)'
    BY <1>2, KnownStays DEF TaskOwned, Idle
  <2> QED
    BY <1>1, <1>2, <2>1, <2>2, <2>3, OwnedStep
<1>7. ASSUME NEW p \in Papers, p # p0
      PROVE /\ Undisturbed(p)
            /\ kb'[<<p, latest[p]>>] = kb[<<p, latest[p]>>]
  <2>1. ASSUME NEW k \in Keys, HasKey(History, p, k)
        PROVE table'[k] = table[k]
    <3>1. CASE table'[k] \in Flushed(w) /\ table'[k].key = k
      <4>1. HasKey(History, p0, k) /\ History \in Histories
        BY <1>1, <1>3, <3>1 DEF Typed
      <4> QED
        BY <1>1, <1>7, <2>1, <4>1 DEF KeysApart
    <3> QED
      BY <1>4, <3>1
  <2>2. Undisturbed(p)
    BY <1>2, <2>1 DEF Undisturbed
  <2>3. <<p, latest[p]>> # t0.job
    BY <1>7
  <2> QED
    BY <1>1, <1>2, <2>2, <2>3 DEF Typed
<1>8. ASSUME Mine(p0)
      PROVE RowsLatest(p0)' /\ Settled(p0)'
  <2>1. TaskKnows(t0) /\ Placed(t0) /\ Resting(t0)
    BY <1>1, <1>8, MineTask
  <2>2. /\ Flushed(w) = t0.written \cup (IF t0.pending = None THEN {} ELSE {t0.pending})
        /\ \A b \in Flushed(w) : b \in told /\ Holds(b.key, b.doc, t0.content)
    BY <2>1, FlushedLatest
  <2>3. RowsLatest(p0)'
    <3> SUFFICES ASSUME NEW k \in Keys, table'[k] # None, table'[k].content[1] = p0
                 PROVE /\ table'[k] \in told
                       /\ table'[k].content[2] <= remote[table'[k].doc].content[2]
      BY <1>2 DEF RowsLatest
    <3>1. CASE table'[k] \in Flushed(w) /\ table'[k].key = k
      <4>1. /\ table'[k] \in told /\ table'[k].content = t0.content
            /\ remote[table'[k].doc].content = t0.content
        <5> PICK b : b = table'[k]
          OBVIOUS
        <5>1. b \in told /\ b.content = t0.content /\ Holds(b.key, b.doc, t0.content)
          BY <1>3, <2>2, <3>1
        <5>2. remote[b.doc] = [key |-> b.key, content |-> t0.content]
          BY <5>1 DEF Holds
        <5>3. remote[b.doc].content = t0.content
          BY <5>2
        <5> QED
          BY <5>1, <5>3
      <4>2. t0.content[2] \in Nat
        BY <1>5, JobParts DEF Known
      <4> QED
        BY <4>1, <4>2
    <3>2. CASE table'[k] = table[k]
      BY <1>8, <3>2 DEF Mine, RowsLatest
    <3> QED
      BY <1>4, <3>1, <3>2
  <2>4. Settled(p0)'
    <3> PICK j : j = <<p0, latest[p0]>>
      OBVIOUS
    <3> PICK keys : keys = KeysOf(j)
      OBVIOUS
    <3>1. /\ UNCHANGED <<History, latest, remote>>
          /\ j = <<p0, latest[p0]>> /\ keys = KeysOf(j)
      BY <1>2
    <3>2. SUFFICES latest[p0] > 0 /\ kb'[j] = "completed"
                       => \A i \in DOMAIN keys : InPlace(keys[i], j)'
      BY ONLY <3>1, <3>2 DEF Settled, InPlace, Holds, KeysOf
    <3> HAVE latest[p0] > 0 /\ kb'[j] = "completed"
    <3> TAKE i \in DOMAIN keys
    <3> PICK k : k = keys[i] /\ i \in DOMAIN KeysOf(j) /\ k = KeysOf(j)[i]
      BY <3>1
    <3> SUFFICES InPlace(k, j)'
      BY DEF InPlace, Holds
    <3>3. j \in Jobs /\ k \in Keys
      BY <1>1, LatestKnown, KnownKeysHas DEF Known
    <3>4. CASE t0.job = j
      <4>1. t0.result = "completed"
        BY <1>1, <1>2, <3>3, <3>4 DEF Typed
      <4>2. t0.content = j
        <5>1. t0.content[2] = latest[p0]
          BY <1>1, <1>5, <3>4, JobParts DEF Known, Typed
        <5> QED
          BY <1>5, <5>1, JobParts DEF Known
      <4>3. \/ InPlace(k, j)
            \/ \E b \in Flushed(w) : b.key = k
        BY <1>1, <2>1, <2>2, <4>1, <4>2, SMTT(30) DEF Placed
      <4>4. CASE table'[k] \in Flushed(w) /\ table'[k].key = k
        <5>1. table'[k] \in Row /\ table'[k].content = j /\ Holds(k, table'[k].doc, j)
          BY <1>3, <2>2, <4>2, <4>4
        <5> QED
          BY <1>2, <5>1, DocumentAssumption DEF DocumentAssumption, InPlace, Holds
      <4>5. CASE table'[k] = table[k] /\ \A row \in Flushed(w) : row.key # k
        BY <1>2, <4>3, <4>5 DEF InPlace, Holds
      <4> QED
        BY <1>4, <3>3, <4>4, <4>5
    <3>5. CASE t0.job # j
      <4>1. kb[j] = "completed"
        BY <1>1, <1>2, <3>3, <3>5 DEF Typed
      <4>2. Flushed(w) = {}
        BY <2>1, <2>2, <4>1 DEF Resting
      <4>3. table'[k] = table[k]
        BY <1>4, <3>3, <4>2
      <4>4. InPlace(k, j)
        BY <1>8, <4>1 DEF Mine, Settled
      <4> QED
        BY <1>2, <4>3, <4>4 DEF InPlace, Holds
    <3> QED
      BY <3>4, <3>5
  <2> QED
    BY <2>3, <2>4
<1>9. Idle.pc = "idle"
  BY DEF Idle
<1> QED
  BY <1>1, <1>2, <1>6, <1>7, <1>8, <1>9, WorkStep

LEMMA LatestInit == Init => LInv
<1> SUFFICES ASSUME Init
             PROVE LInv
  OBVIOUS
<1>1. \A w \in Workers : task[w].pc = "idle"
  BY DEF Init, Idle
<1>2. Owned
  BY <1>1 DEF Init, Owned, TaskOwned
<1>3. ASSUME NEW p \in Papers
      PROVE Mine(p)
  BY <1>1 DEF Init, Mine, RowsLatest, Settled, At
<1> QED
  BY <1>2, <1>3 DEF LInv

LEMMA LatestStep ==
    ASSUME KeysApart, SInv, LInv, [Next]_vars
    PROVE LInv'
<1>1. CASE UNCHANGED vars
  BY <1>1, RestsLatest DEF vars
<1>2. CASE History' = History /\ \E p \in Papers : Register(p)
  BY <1>2, RegisterLatest
<1>3. ASSUME History' = History, NEW w \in Workers, Work(w)
      PROVE LInv'
  <2>1. CASE Begin(w) \/ Wait(w) \/ LookUp(w) \/ Send(w) \/ Poll(w) \/ CallFails(w) \/ Commit(w)
    BY <1>3, <2>1, BeginLatest, WaitLatest, LookUpLatest, SendLatest, PollLatest,
       CallFailsLatest, CommitLatest
  <2>2. CASE Raise(w)
    <3>1. task[w].pc = "look"
      BY <2>2 DEF Raise, Conflicts, Pending
    <3> QED
      BY <1>3, <2>2, <3>1, RollBackLatest DEF Raise
  <2>3. CASE Deadlock(w)
    <3>1. task[w].pc = "look"
      <4>1. Blockers(w) # {}
        BY <2>3 DEF Deadlock
      <4> QED
        BY <4>1 DEF Blockers, Pending
    <3> QED
      BY <1>3, <2>3, <3>1, RollBackLatest DEF Deadlock
  <2> QED
    BY <1>3, <2>1, <2>2, <2>3 DEF Work
<1>4. ASSUME History' = History, NEW w \in Workers, Die(w)
      PROVE LInv'
  BY <1>4, DieLatest
<1>5. ASSUME History' = History, NEW w \in Workers, Redeliver(w)
      PROVE LInv'
  BY <1>5, RestsLatest DEF Redeliver, dify
<1> QED
  BY <1>1, <1>2, <1>3, <1>4, <1>5 DEF Next, Quiescent

\* As long as the tasks of a paper come one after the other, the only one at
\* work knows the rows and the documents of its paper as they are.
THEOREM LatestInvariant == KeysApart => (Spec => []LInv)
<1> SUFFICES ASSUME KeysApart
             PROVE Spec => []LInv
  OBVIOUS
<1>1. Init => LInv
  BY LatestInit
<1>2. SInv /\ LInv /\ [Next]_vars => LInv'
  BY LatestStep
<1> QED
  BY <1>1, <1>2, SentInvariant, PTL DEF Spec

\* indexing_status of a row is what Dify said of the very content that the row
\* names (README.md:183-190; the session updates only columns that changed).
THEOREM StatusIsWhatDifySaid == KeysApart => (Spec => []StatusWasTold)
<1> SUFFICES ASSUME KeysApart
             PROVE Spec => []StatusWasTold
  OBVIOUS
<1>1. SInv /\ LInv => StatusWasTold
  <2> SUFFICES ASSUME SInv, LInv, NEW k \in Keys, table[k] # None,
                      alone[table[k].content[1]]
               PROVE table[k] \in told
    BY DEF StatusWasTold
  <2>1. table[k].content[1] \in Papers
    BY JobParts DEF SInv, Typed, Row
  <2> QED
    BY <2>1 DEF LInv, Mine, RowsLatest
<1> QED
  BY <1>1, SentInvariant, LatestInvariant, PTL

\* Once the job of a paper's latest version has completed, Dify holds each of
\* its documents with this version's content, under the row's identifier
\* (sync_job, DifyKnowledgeProvider).
THEOREM LatestIsInDify == KeysApart => (Spec => []LatestInDify)
<1> SUFFICES ASSUME KeysApart
             PROVE Spec => []LatestInDify
  OBVIOUS
<1>1. SInv /\ LInv => LatestInDify
  <2> SUFFICES ASSUME SInv, LInv, NEW p \in Papers, alone[p], latest[p] > 0,
                      NEW j, j = <<p, latest[p]>>, kb[j] = "completed",
                      NEW i \in DOMAIN KeysOf(j), NEW k, k = KeysOf(j)[i]
               PROVE /\ table[k] # None /\ table[k].content = j
                     /\ remote[table[k].doc] = [key |-> table[k].key, content |-> j]
    BY DEF LatestInDify
  <2>1. k \in Keys
    BY LatestKnown, KnownKeysHas DEF SInv
  <2>2. InPlace(k, j)
    BY DEF LInv, Mine, Settled
  <2> QED
    BY <2>1, <2>2 DEF InPlace, Holds, SInv, TableSent
<1> QED
  BY <1>1, SentInvariant, LatestInvariant, PTL
=============================================================================
