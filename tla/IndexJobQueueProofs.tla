-------------------------- MODULE IndexJobQueueProofs --------------------------
(***************************************************************************)
(* Proofs about IndexJobQueue, for every number of scans, issues, rows,    *)
(* enqueuers and workers and every setting of the limits.                  *)
(***************************************************************************)
EXTENDS IndexJobQueue, FiniteSetTheorems, TLAPS

-----------------------------------------------------------------------------
(* Shape: types, and which rows exist.                                     *)

UnusedRow == [status |-> "absent", scan |-> NoScan, attempts |-> 0]

\* Rows exist for the ids that the sequence has handed out, and no others.
IdsHandedOut ==
  \A j \in JobIds : IF j < nextId THEN job[j].scan \in Scans /\ job[j].status # "absent"
                                  ELSE job[j] = UnusedRow

\* A worker works on a row that was inserted; it may have been deleted since.
ClaimsNameRows ==
  \A w \in Workers : worker[w].pc # "idle" => job[worker[w].job].status # "absent"

Shape == TypeOK /\ IdsHandedOut /\ ClaimsNameRows

\* An actor between two statements holds what it has read.
LEMMA BusyWorker ==
  ASSUME Shape, NEW w \in Workers, worker[w].pc # "idle"
  PROVE  /\ worker[w].job \in JobIds /\ worker[w].attempt \in Nat /\ worker[w].offset \in Nat
         /\ worker[w].pc \in {"indexing", "indexed", "erred"}
         /\ job[worker[w].job].status # "absent" /\ job[worker[w].job].scan \in Scans
BY DEF Shape, TypeOK, WorkerStates, Idle, ClaimsNameRows, IdsHandedOut, UnusedRow

LEMMA BusyEnqueuer ==
  ASSUME TypeOK, NEW e \in Enqueuers, enqueuer[e].pc # "idle"
  PROVE  enqueuer[e].scan \in Scans
BY DEF TypeOK, EnqueuerStates

\* A page is an interval of the issues, so it has a size.
LEMMA PageSize ==
  ASSUME NEW s \in scans, NEW offset \in Nat
  PROVE  /\ Cardinality(Page(s, offset)) \in Nat
         /\ LET last == IF offset + PageLimit < IssueCount THEN offset + PageLimit ELSE IssueCount
            IN  /\ Page(s, offset) = (offset + 1)..last
                /\ Cardinality(Page(s, offset)) = IF offset < last THEN last - offset ELSE 0
<1> DEFINE last == IF offset + PageLimit < IssueCount THEN offset + PageLimit ELSE IssueCount
<1>1. PageLimit \in Nat \ {0} /\ IssueCount \in Nat
  BY IndexAssumption DEF PageLimit
<1>2. last \in Nat
  BY <1>1
<1>3. Page(s, offset) = (offset + 1)..last
  BY <1>1 DEF Page
<1> HIDE DEF last
<1>4. Cardinality((offset + 1)..last) = IF offset + 1 > last THEN 0 ELSE last - (offset + 1) + 1
  BY <1>2, FS_Interval
<1>5. Cardinality((offset + 1)..last) = IF offset < last THEN last - offset ELSE 0
  BY <1>2, <1>4
<1>6. QED
  BY <1>2, <1>3, <1>5 DEF last

LEMMA PageOfDeletedScan ==
  ASSUME NEW s, s \notin scans, NEW offset \in Nat
  PROVE  Page(s, offset) = {} /\ Cardinality(Page(s, offset)) = 0
BY FS_EmptySet DEF Page

-----------------------------------------------------------------------------
(* What a step does to a row, and to a worker.                             *)

\* A row keeps its scan and its attempts, and no row vanishes.
RowKept(j) ==
  /\ job[j].status # "absent" =>
       job'[j].status # "absent" /\ job'[j].scan = job[j].scan
  /\ job[j].attempts <= job'[j].attempts

\* The worker that holds row j settles it.
SettledBy(w, j) ==
  /\ worker[w].pc # "idle" /\ worker[w].job = j /\ worker'[w].pc = "idle"
  /\ job[j].status \in Statuses
  /\ \/ worker[w].pc = "indexed" /\ job'[j].status = "completed"
     \/ worker[w].pc = "erred" /\ Exhausted(worker[w].attempt) /\ job'[j].status = "failed"
     \/ worker[w].pc = "erred" /\ job'[j].status = "accepted"

\* The ways in which the status of a row changes, and who changes it.
RowMoved(j) ==
  LET before == job[j].status
      after == job'[j].status
  IN  \/ after = before
      \/ before = "absent" /\ after = "accepted"
      \/ before = "accepted" /\ after \in {"running", "cancelled"}
      \/ before \in Statuses /\ after = "deleted" /\ job[j].scan \notin scans'
      \/ j \in lost' /\ before \in Statuses /\ after = "accepted"
      \/ j \in lost' /\ before = "running" /\ after = "failed" /\ job[j].attempts >= MaxAttempts
      \/ \E w \in Workers : SettledBy(w, j)

RowStep(j) == RowKept(j) /\ RowMoved(j)

\* Settling a row leaves the worker without one, and all others as they are.
LEMMA SettledWorker ==
  ASSUME NEW w \in Workers, Settle(w)
  PROVE  worker' = [worker EXCEPT ![w] = Idle]
BY Zenon DEF Settle, MarkCompleted, MarkFailed, Reschedule

\* An UPDATE of one row changes its status alone.
LEMMA WriteRow ==
  ASSUME TypeOK, NEW j \in JobIds, NEW status \in Statuses, NEW later \in BOOLEAN,
         Write(j, status, later)
  PROVE  /\ job' \in [JobIds -> Rows]
         /\ job'[j].status = status
         /\ job'[j].scan = job[j].scan /\ job'[j].attempts = job[j].attempts
         /\ \A k \in JobIds : k # j => job'[k] = job[k]
BY DEF Write, TypeOK, Rows, Statuses, ActiveStatuses

LEMMA WriteRowStep ==
  ASSUME TypeOK, NEW j \in JobIds, NEW status \in Statuses, NEW later \in BOOLEAN,
         Write(j, status, later), Present(j), NEW k \in JobIds,
         k = j => RowMoved(j)
  PROVE  RowStep(k)
<1>1. job[k].attempts \in Nat
  BY DEF TypeOK, Rows
<1>2. QED
  BY <1>1, WriteRow DEF RowStep, RowKept, RowMoved, Present, Statuses, ActiveStatuses

LEMMA RowSteps ==
  ASSUME Shape, [Next]_vars, NEW j \in JobIds
  PROVE  RowStep(j)
<1>1. /\ TypeOK /\ worker \in [Workers -> WorkerStates]
      /\ job \in [JobIds -> Rows] /\ job[j] \in Rows /\ job[j].attempts \in Nat
  BY DEF Shape, TypeOK, Rows
<1>2. ASSUME job'[j] = job[j] PROVE RowStep(j)
  BY <1>1, <1>2 DEF RowStep, RowKept, RowMoved
<1>3. ASSUME NEW e \in Enqueuers, EnqueueSteps(e) PROVE RowStep(j)
  <2>1. CASE Create(e)
    <3>1. nextId \in JobIds /\ job' = [job EXCEPT ![nextId].status = "accepted",
                                                  ![nextId].scan = enqueuer[e].scan]
      BY <2>1 DEF Create
    <3>2. job[nextId] = UnusedRow
      BY <3>1 DEF Shape, IdsHandedOut, JobIds
    <3>3. QED
      BY <1>1, <1>2, <3>1, <3>2 DEF RowStep, RowKept, RowMoved, UnusedRow, Rows
  <2>2. CASE ~Create(e)
    BY <1>2, <1>3, <2>2 DEF EnqueueSteps, DedupeActive, FindNoActive, CreateFails, LookAgain
  <2>3. QED
    BY <2>1, <2>2
<1>4. ASSUME NEW w \in Workers, ClaimNext(w) PROVE RowStep(j)
  BY <1>1, <1>4 DEF ClaimNext, Claimable, RowStep, RowKept, RowMoved, Rows
<1>5. ASSUME NEW w \in Workers, Index(w) \/ Abandon(w) PROVE RowStep(j)
  BY <1>2, <1>5 DEF Index, IndexPage, IndexErrs, Abandon
<1>6. ASSUME NEW w \in Workers, Settle(w) PROVE RowStep(j)
  <2> DEFINE k == worker[w].job
  <2>1. worker[w].pc # "idle" /\ k \in JobIds
    BY <1>6, BusyWorker DEF Settle, MarkCompleted, MarkFailed, Reschedule
  <2>2. worker'[w].pc = "idle"
    BY <1>1, <1>6, SettledWorker DEF Idle
  <2>3. CASE job' = job
    BY <1>2, <2>3
  <2>4. CASE MarkCompleted(w) /\ job' # job
    <3>1. Write(k, "completed", FALSE) /\ Present(k)
      BY <2>4 DEF MarkCompleted
    <3>2. RowMoved(k)
      BY <1>1, <2>1, <2>2, <2>4, <3>1, WriteRow
      DEF MarkCompleted, RowMoved, SettledBy, Present, Statuses
    <3>3. QED
      BY <1>1, <2>1, <3>1, <3>2, WriteRowStep DEF Statuses
  <2>5. CASE MarkFailed(w) /\ job' # job
    <3>1. Write(k, "failed", FALSE) /\ Present(k)
      BY <2>5 DEF MarkFailed
    <3>2. RowMoved(k)
      BY <1>1, <2>1, <2>2, <2>5, <3>1, WriteRow
      DEF MarkFailed, RowMoved, SettledBy, Present, Statuses
    <3>3. QED
      BY <1>1, <2>1, <3>1, <3>2, WriteRowStep DEF Statuses
  <2>6. CASE Reschedule(w) /\ job' # job
    <3>1. Write(k, "accepted", TRUE) /\ Present(k)
      BY <2>6 DEF Reschedule
    <3>2. RowMoved(k)
      BY <1>1, <2>1, <2>2, <2>6, <3>1, WriteRow
      DEF Reschedule, RowMoved, SettledBy, Present, Statuses, ActiveStatuses
    <3>3. QED
      BY <1>1, <2>1, <3>1, <3>2, WriteRowStep DEF Statuses, ActiveStatuses
  <2>7. QED
    BY <1>6, <2>3, <2>4, <2>5, <2>6 DEF Settle
<1>7. ASSUME NEW k \in JobIds, BecomeDue(k) \/ GrowOverdue(k) PROVE RowStep(j)
  BY <1>2, <1>7 DEF BecomeDue, GrowOverdue
<1>8. ASSUME NEW k \in JobIds, Retry(k) PROVE RowStep(j)
  <2>1. Write(k, "accepted", FALSE) /\ Present(k) /\ k \in lost'
    BY <1>8 DEF Retry
  <2>2. RowMoved(k)
    BY <1>1, <2>1, WriteRow DEF RowMoved, Present, Statuses, ActiveStatuses
  <2>3. QED
    BY <1>1, <2>1, <2>2, WriteRowStep DEF Statuses, ActiveStatuses
<1>9. ASSUME NEW k \in JobIds, CancelQueued(k) PROVE RowStep(j)
  <2>1. Write(k, "cancelled", FALSE) /\ job[k].status = "accepted"
    BY <1>9 DEF CancelQueued
  <2>2. RowMoved(k)
    BY <1>1, <2>1, WriteRow DEF RowMoved, Statuses
  <2>3. QED
    BY <1>1, <2>1, <2>2, WriteRowStep DEF Present, Statuses, ActiveStatuses
<1>10. ASSUME RecoverStale PROVE RowStep(j)
  BY <1>1, <1>10, IndexAssumption
  DEF RecoverStale, Recovered, TypeOK, RowStep, RowKept, RowMoved, Rows, Statuses, ActiveStatuses
<1>11. ASSUME NEW s \in Scans, DeleteScan(s) PROVE RowStep(j)
  <2>1. job[j].status = "absent" => job[j].scan # s
    BY IndexAssumption DEF Shape, IdsHandedOut, UnusedRow
  <2>2. QED
    BY <1>1, <1>11, <2>1 DEF DeleteScan, RowStep, RowKept, RowMoved, Rows
<1>12. ASSUME UNCHANGED vars PROVE RowStep(j)
  BY <1>2, <1>12 DEF vars
<1>13. QED
  BY <1>3, <1>4, <1>5, <1>6, <1>7, <1>8, <1>9, <1>10, <1>11, <1>12 DEF Next

\* A worker becomes idle, goes on with the row it holds, or claims one.
Continues(v) ==
  /\ worker[v].pc # "idle"
  /\ worker'[v].job = worker[v].job /\ worker'[v].attempt = worker[v].attempt
  /\ \/ worker'[v].pc = worker[v].pc /\ worker'[v].offset = worker[v].offset
     \/ worker[v].pc = "indexing" /\ worker'[v].pc = "erred"
     \/ IndexPage(v)

Claims(v) ==
  /\ worker[v].pc = "idle" /\ worker'[v].pc = "indexing" /\ worker'[v].offset = 0
  /\ worker'[v].job \in JobIds
  /\ job[worker'[v].job].status = "accepted" /\ job'[worker'[v].job].status = "running"
  /\ worker'[v].attempt = job'[worker'[v].job].attempts
  /\ lost' = lost
  /\ \A w \in Workers \ {v} : worker'[w] = worker[w]

LEMMA WorkerSteps ==
  ASSUME Shape, [Next]_vars, NEW v \in Workers
  PROVE  worker'[v].pc = "idle" \/ Continues(v) \/ Claims(v)
<1>1. /\ worker \in [Workers -> WorkerStates] /\ job \in [JobIds -> Rows]
      /\ worker[v].pc # "idle" => worker[v].pc \in {"indexing", "indexed", "erred"}
  BY BusyWorker DEF Shape, TypeOK
<1>2. ASSUME worker'[v] = worker[v] PROVE worker'[v].pc = "idle" \/ Continues(v)
  BY <1>2 DEF Continues
<1>3. ASSUME NEW w \in Workers, ClaimNext(w)
      PROVE  worker'[v].pc = "idle" \/ Continues(v) \/ Claims(v)
  <2>1. PICK j \in JobIds :
          /\ job[j].status = "accepted"
          /\ job' = [job EXCEPT ![j].status = "running", ![j].attempts = @ + 1]
          /\ worker' = [worker EXCEPT ![w] = [pc |-> "indexing", job |-> j,
                          attempt |-> job[j].attempts + 1, offset |-> 0]]
    BY <1>3 DEF ClaimNext, Claimable
  <2>2. CASE v = w
    BY <1>1, <1>3, <2>1, <2>2 DEF ClaimNext, Claims, Rows
  <2>3. CASE v # w
    BY <1>1, <1>2, <2>1, <2>3
  <2>4. QED
    BY <2>2, <2>3
<1>4. ASSUME NEW w \in Workers, IndexPage(w)
      PROVE  worker'[v].pc = "idle" \/ Continues(v)
  <2>1. CASE v = w
    <3>1. worker[v].pc = "indexing" /\ worker'[v].job = worker[v].job
          /\ worker'[v].attempt = worker[v].attempt
      BY <1>1, <1>4, <2>1 DEF IndexPage, WorkerStates, Idle
    <3>2. QED
      BY <1>4, <2>1, <3>1 DEF Continues
  <2>2. CASE v # w
    BY <1>1, <1>2, <1>4, <2>2 DEF IndexPage
  <2>3. QED
    BY <2>1, <2>2
<1>5. ASSUME NEW w \in Workers, IndexErrs(w)
      PROVE  worker'[v].pc = "idle" \/ Continues(v)
  BY <1>1, <1>2, <1>5 DEF IndexErrs, Continues, WorkerStates, Idle
<1>6. ASSUME NEW w \in Workers, Settle(w) \/ Abandon(w)
      PROVE  worker'[v].pc = "idle" \/ Continues(v)
  <2>1. worker' = [worker EXCEPT ![w] = Idle]
    BY <1>6, SettledWorker DEF Abandon
  <2>2. QED
    BY <1>1, <1>2, <2>1 DEF Idle
<1>7. ASSUME worker' = worker PROVE worker'[v].pc = "idle" \/ Continues(v)
  BY <1>2, <1>7
<1>8. QED
  BY <1>3, <1>4, <1>5, <1>6, <1>7, ZenonT(60)
  DEF Next, EnqueueSteps, DedupeActive, FindNoActive, Create, CreateFails, LookAgain, Index,
      BecomeDue, GrowOverdue, Retry, CancelQueued, RecoverStale, DeleteScan, vars

-----------------------------------------------------------------------------
(* Type correctness.                                                       *)

LEMMA EnqueueTypes ==
  ASSUME Shape, NEW e \in Enqueuers, EnqueueSteps(e)
  PROVE  TypeOK'
<1> USE DEF TypeOK
<1>1. TypeOK
  BY DEF Shape
<1>2. ASSUME NEW s \in Scans, DedupeActive(e, s) \/ FindNoActive(e, s) PROVE TypeOK'
  BY <1>1, <1>2 DEF DedupeActive, FindNoActive, EnqueuerStates
<1>3. ASSUME Create(e) PROVE TypeOK'
  <2>1. /\ nextId \in JobIds /\ enqueuer[e].scan \in Scans
        /\ job' = [job EXCEPT ![nextId].status = "accepted", ![nextId].scan = enqueuer[e].scan]
    BY <1>1, <1>3, BusyEnqueuer DEF Create
  <2>2. job[nextId] = UnusedRow
    BY <2>1 DEF Shape, IdsHandedOut, JobIds
  <2>3. job' \in [JobIds -> Rows]
    BY <1>1, <2>1 DEF Rows, Statuses, ActiveStatuses
  <2>4. /\ waiting \subseteq {j \in JobIds : job'[j].status = "accepted"}
        /\ overdue \subseteq {j \in JobIds : job'[j].status = "running"}
    BY <1>1, <2>1, <2>2 DEF UnusedRow
  <2>5. nextId' \in 1..(MaxJobs + 1) /\ requested' \subseteq Scans
    BY <1>1, <1>3, <2>1, IndexAssumption DEF Create, JobIds
  <2>6. enqueuer' \in [Enqueuers -> EnqueuerStates]
    BY <1>1, <1>3 DEF Create, Return, EnqueuerStates
  <2>7. QED
    BY <1>1, <1>3, <2>3, <2>4, <2>5, <2>6 DEF Create
<1>4. ASSUME CreateFails(e) \/ LookAgain(e) PROVE TypeOK'
  <2>1. enqueuer[e].scan \in Scans
    BY <1>1, <1>4, BusyEnqueuer DEF CreateFails, LookAgain
  <2>2. enqueuer' \in [Enqueuers -> EnqueuerStates]
    BY <1>1, <1>4, <2>1 DEF CreateFails, LookAgain, Return, EnqueuerStates
  <2>3. QED
    BY <1>1, <1>4, <2>1, <2>2 DEF CreateFails, LookAgain
<1>5. QED
  BY <1>2, <1>3, <1>4 DEF EnqueueSteps

\* The types that an UPDATE of a present row by id disturbs.
LEMMA WriteTypes ==
  ASSUME TypeOK, NEW j \in JobIds, NEW status \in Statuses, NEW later \in BOOLEAN,
         Write(j, status, later),
         status # "running", later => status = "accepted"
  PROVE  /\ job' \in [JobIds -> Rows]
         /\ waiting' \subseteq {k \in JobIds : job'[k].status = "accepted"}
         /\ overdue' \subseteq {k \in JobIds : job'[k].status = "running"}
<1>1. /\ waiting' = IF later THEN waiting \cup {j} ELSE waiting \ {j}
      /\ overdue' = overdue \ {j}
  BY Zenon DEF Write
<1>2. /\ waiting \subseteq {k \in JobIds : job[k].status = "accepted"}
      /\ overdue \subseteq {k \in JobIds : job[k].status = "running"}
  BY DEF TypeOK
<1>3. /\ job' \in [JobIds -> Rows] /\ job'[j].status = status
      /\ \A k \in JobIds : k # j => job'[k] = job[k]
  BY WriteRow
<1>4. CASE later
  <2>1. waiting' = waiting \cup {j} /\ job'[j].status = "accepted"
    BY <1>1, <1>3, <1>4
  <2>2. QED
    BY <1>1, <1>2, <1>3, <2>1
<1>5. CASE ~later
  <2>1. waiting' = waiting \ {j}
    BY <1>1, <1>5
  <2>2. QED
    BY <1>1, <1>2, <1>3, <2>1
<1>6. QED
  BY <1>4, <1>5

LEMMA WorkTypes ==
  ASSUME Shape, NEW w \in Workers, ClaimNext(w) \/ Index(w) \/ Settle(w) \/ Abandon(w)
  PROVE  TypeOK'
<1>1. TypeOK
  BY DEF Shape
<1>2. CASE ClaimNext(w)
  <2>1. PICK j \in JobIds :
          /\ job[j].status = "accepted" /\ j \notin waiting
          /\ job' = [job EXCEPT ![j].status = "running", ![j].attempts = @ + 1]
          /\ overdue' = overdue \ {j}
          /\ worker' = [worker EXCEPT ![w] = [pc |-> "indexing", job |-> j,
                          attempt |-> job[j].attempts + 1, offset |-> 0]]
    BY <1>2 DEF ClaimNext, Claimable
  <2>2. job[j].attempts + 1 \in Nat
    BY <1>1 DEF TypeOK, Rows
  <2>3. worker' \in [Workers -> WorkerStates]
    BY <1>1, <2>1, <2>2 DEF TypeOK, WorkerStates
  <2>4. /\ job' \in [JobIds -> Rows]
        /\ waiting \subseteq {k \in JobIds : job'[k].status = "accepted"}
        /\ overdue' \subseteq {k \in JobIds : job'[k].status = "running"}
    BY <1>1, <2>1, <2>2 DEF TypeOK, Rows, Statuses, ActiveStatuses
  <2>5. QED
    BY <1>1, <1>2, <2>3, <2>4 DEF ClaimNext, TypeOK
<1>3. CASE IndexPage(w)
  <2> DEFINE s == job[worker[w].job].scan
             offset == worker[w].offset
             n == Cardinality(Page(s, offset))
  <2>1. /\ s \in Scans /\ offset \in Nat /\ worker[w].pc = "indexing"
        /\ worker[w].job \in JobIds /\ worker[w].attempt \in Nat
    BY <1>3, BusyWorker DEF IndexPage
  <2>2. n \in Nat /\ Page(s, offset) \subseteq 1..IssueCount
    <3>1. CASE s \in scans
      BY <2>1, <3>1, PageSize DEF Page
    <3>2. CASE s \notin scans
      BY <2>1, <3>2, PageOfDeletedScan
    <3>3. QED
      BY <3>1, <3>2
  <2>3. /\ indexed' = [indexed EXCEPT ![s] = @ \cup Page(s, offset)]
        /\ \/ worker' = [worker EXCEPT ![w].pc = "indexed"]
           \/ worker' = [worker EXCEPT ![w].offset = offset + n]
    BY <1>3 DEF IndexPage
  <2>4. worker[w] \in [pc : {"indexing", "indexed", "erred"}, job : JobIds, attempt : Nat, offset : Nat]
    BY <1>1, <2>1 DEF TypeOK, WorkerStates, Idle
  <2> HIDE DEF s, offset, n
  <2>5. indexed' \in [Scans -> SUBSET (1..IssueCount)]
    BY <1>1, <2>1, <2>2, <2>3 DEF TypeOK
  <2>6. worker' \in [Workers -> WorkerStates]
    BY <1>1, <2>1, <2>2, <2>3, <2>4 DEF TypeOK, WorkerStates
  <2>7. QED
    BY <1>1, <1>3, <2>5, <2>6 DEF IndexPage, TypeOK
<1>4. CASE IndexErrs(w) \/ Abandon(w)
  <2>1. worker' \in [Workers -> WorkerStates]
    BY <1>1, <1>4 DEF IndexErrs, Abandon, TypeOK, WorkerStates, Idle
  <2>2. QED
    BY <1>1, <1>4, <2>1 DEF IndexErrs, Abandon, TypeOK
<1>5. CASE Settle(w)
  <2>1. worker[w].job \in JobIds
    BY <1>5, BusyWorker DEF Settle, MarkCompleted, MarkFailed, Reschedule
  <2>2. worker' \in [Workers -> WorkerStates]
    BY <1>1, <1>5 DEF Settle, MarkCompleted, MarkFailed, Reschedule, TypeOK, WorkerStates
  <2>3. /\ job' \in [JobIds -> Rows]
        /\ waiting' \subseteq {k \in JobIds : job'[k].status = "accepted"}
        /\ overdue' \subseteq {k \in JobIds : job'[k].status = "running"}
    <3>1. CASE UNCHANGED <<job, overdue, waiting>>
      BY <1>1, <3>1 DEF TypeOK
    <3>2. CASE Write(worker[w].job, "completed", FALSE) \/ Write(worker[w].job, "failed", FALSE)
      BY <1>1, <2>1, <3>2, WriteTypes DEF Statuses
    <3>3. CASE Write(worker[w].job, "accepted", TRUE)
      BY <1>1, <2>1, <3>3, WriteTypes DEF Statuses, ActiveStatuses
    <3>4. QED
      BY <1>5, <3>1, <3>2, <3>3 DEF Settle, MarkCompleted, MarkFailed, Reschedule
  <2>4. QED
    BY <1>1, <1>5, <2>2, <2>3 DEF Settle, MarkCompleted, MarkFailed, Reschedule, TypeOK
<1>6. QED
  BY <1>2, <1>3, <1>4, <1>5 DEF Index

LEMMA InterventionTypes ==
  ASSUME Shape,
         \/ \E j \in JobIds : BecomeDue(j) \/ GrowOverdue(j) \/ Retry(j) \/ CancelQueued(j)
         \/ RecoverStale
         \/ \E s \in Scans : DeleteScan(s)
  PROVE  TypeOK'
<1>1. TypeOK
  BY DEF Shape
<1>2. ASSUME NEW j \in JobIds, BecomeDue(j) \/ GrowOverdue(j) PROVE TypeOK'
  BY <1>1, <1>2 DEF BecomeDue, GrowOverdue, TypeOK
<1>3. ASSUME NEW j \in JobIds, Retry(j) PROVE TypeOK'
  <2>1. /\ job' \in [JobIds -> Rows]
        /\ waiting' \subseteq {k \in JobIds : job'[k].status = "accepted"}
        /\ overdue' \subseteq {k \in JobIds : job'[k].status = "running"}
    BY <1>1, <1>3, WriteTypes DEF Retry, Statuses, ActiveStatuses
  <2>2. /\ lost' = lost \cup {j} /\ retries' = [retries EXCEPT ![j] = @ + 1]
        /\ UNCHANGED <<scans, nextId, indexed, enqueuer, worker, requested>>
    BY <1>3, Zenon DEF Retry
  <2>3. QED
    BY <1>1, <2>1, <2>2 DEF TypeOK
<1>4. ASSUME NEW j \in JobIds, CancelQueued(j) PROVE TypeOK'
  <2>1. /\ job' \in [JobIds -> Rows]
        /\ waiting' \subseteq {k \in JobIds : job'[k].status = "accepted"}
        /\ overdue' \subseteq {k \in JobIds : job'[k].status = "running"}
    BY <1>1, <1>4, WriteTypes DEF CancelQueued, Statuses
  <2>2. QED
    BY <1>1, <1>4, <2>1 DEF CancelQueued, TypeOK
<1>5. ASSUME RecoverStale PROVE TypeOK'
  <2>1. job' \in [JobIds -> Rows]
    BY <1>1, <1>5 DEF RecoverStale, Recovered, TypeOK, Rows, Statuses, ActiveStatuses
  <2>2. waiting \subseteq {k \in JobIds : job'[k].status = "accepted"}
    BY <1>1, <1>5 DEF RecoverStale, TypeOK
  <2>3. lost' \subseteq JobIds
    BY <1>1, <1>5 DEF RecoverStale, TypeOK
  <2>4. QED
    BY <1>1, <1>5, <2>1, <2>2, <2>3 DEF RecoverStale, TypeOK
<1>6. ASSUME NEW s \in Scans, DeleteScan(s) PROVE TypeOK'
  <2>1. job' \in [JobIds -> Rows]
    BY <1>1, <1>6 DEF DeleteScan, TypeOK, Rows
  <2>2. QED
    BY <1>1, <1>6, <2>1 DEF DeleteScan, TypeOK
<1>7. QED
  BY <1>2, <1>3, <1>4, <1>5, <1>6

\* The id sequence: only Create uses a new id.
LEMMA IdsStep == ASSUME Shape, TypeOK', [Next]_vars PROVE IdsHandedOut'
<1>1. \A j \in JobIds : RowStep(j)
  BY RowSteps
<1>2. ASSUME NEW e \in Enqueuers, Create(e) PROVE IdsHandedOut'
  <2>1. /\ nextId \in JobIds /\ nextId' = nextId + 1 /\ enqueuer[e].scan \in Scans
        /\ job' = [job EXCEPT ![nextId].status = "accepted", ![nextId].scan = enqueuer[e].scan]
    BY <1>2, BusyEnqueuer DEF Create, Shape
  <2>2. nextId \in Nat /\ job \in [JobIds -> Rows] /\ JobIds \subseteq Nat
    BY <2>1 DEF Shape, TypeOK, JobIds
  <2>3. job'[nextId].scan \in Scans /\ job'[nextId].status = "accepted"
    BY <2>1, <2>2 DEF Rows
  <2>4. \A j \in JobIds : j # nextId => job'[j] = job[j] /\ (j < nextId' <=> j < nextId)
    BY <2>1, <2>2
  <2>5. \A j \in JobIds : IF j < nextId THEN job[j].scan \in Scans /\ job[j].status # "absent"
                                         ELSE job[j] = UnusedRow
    BY DEF Shape, IdsHandedOut
  <2>6. QED
    BY <2>1, <2>2, <2>3, <2>4, <2>5 DEF IdsHandedOut, UnusedRow
<1>3. ASSUME ~(\E e \in Enqueuers : Create(e))
      PROVE  nextId' = nextId /\ \A j \in JobIds : job[j] = UnusedRow => job'[j] = UnusedRow
  <2>1. CASE \E w \in Workers : Settle(w)
    <3>1. PICK w \in Workers : Settle(w)
      BY <2>1
    <3>2. worker[w].job \in JobIds /\ job[worker[w].job].status # "absent"
      BY <3>1, BusyWorker DEF Settle, MarkCompleted, MarkFailed, Reschedule
    <3>3. /\ nextId' = nextId
          /\ \/ job' = job
             \/ \E status \in Statuses, later \in BOOLEAN : Write(worker[w].job, status, later)
      BY <3>1, Zenon
      DEF Settle, MarkCompleted, MarkFailed, Reschedule, Statuses, ActiveStatuses
    <3>4. \A j \in JobIds : j # worker[w].job => job'[j] = job[j]
      BY <3>2, <3>3, WriteRow DEF Shape
    <3>5. QED
      BY <3>2, <3>3, <3>4 DEF UnusedRow
  <2>2. CASE \E w \in Workers : ClaimNext(w)
    BY <2>2 DEF ClaimNext, Claimable, Shape, TypeOK, UnusedRow
  <2>3. CASE \E j \in JobIds : Retry(j) \/ CancelQueued(j)
    <3>1. PICK j \in JobIds : Retry(j) \/ CancelQueued(j)
      BY <2>3
    <3>2. /\ nextId' = nextId /\ job[j].status # "absent"
          /\ \E status \in Statuses, later \in BOOLEAN : Write(j, status, later)
      BY <3>1, Zenon DEF Retry, CancelQueued, Present, Statuses, ActiveStatuses
    <3>3. \A k \in JobIds : k # j => job'[k] = job[k]
      BY <3>2, WriteRow DEF Shape
    <3>4. QED
      BY <3>2, <3>3 DEF UnusedRow
  <2>4. CASE RecoverStale
    BY <2>4 DEF RecoverStale, Shape, TypeOK, UnusedRow
  <2>5. CASE \E s \in Scans : DeleteScan(s)
    BY <2>5, IndexAssumption DEF DeleteScan, UnusedRow
  <2>6. CASE nextId' = nextId /\ job' = job
    BY <2>6
  <2>7. QED
    BY <1>3, <2>1, <2>2, <2>3, <2>4, <2>5, <2>6, ZenonT(60)
    DEF Next, EnqueueSteps, DedupeActive, FindNoActive, CreateFails, LookAgain, Index,
        IndexPage, IndexErrs, Abandon, BecomeDue, GrowOverdue, vars
<1>4. QED
  BY <1>1, <1>2, <1>3 DEF Shape, IdsHandedOut, RowStep, RowKept, UnusedRow

LEMMA ClaimNamesStep == ASSUME Shape, [Next]_vars PROVE ClaimsNameRows'
<1> SUFFICES ASSUME NEW v \in Workers, worker'[v].pc # "idle"
             PROVE  job'[worker'[v].job].status # "absent"
  BY DEF ClaimsNameRows
<1>1. CASE Continues(v)
  <2>1. worker[v].job \in JobIds /\ job[worker[v].job].status # "absent"
    BY <1>1, BusyWorker DEF Continues
  <2>2. QED
    BY <1>1, <2>1, RowSteps DEF Continues, RowStep, RowKept
<1>2. CASE Claims(v)
  BY <1>2 DEF Claims
<1>3. QED
  BY <1>1, <1>2, WorkerSteps

LEMMA ShapeStep == Shape /\ [Next]_vars => Shape'
<1> SUFFICES ASSUME Shape, [Next]_vars PROVE Shape'
  OBVIOUS
<1>1. CASE UNCHANGED vars
  BY <1>1 DEF vars, Shape, TypeOK, IdsHandedOut, ClaimsNameRows
<1>2. TypeOK'
  BY <1>1, EnqueueTypes, WorkTypes, InterventionTypes DEF Next, Shape
<1>3. QED
  BY <1>2, IdsStep, ClaimNamesStep DEF Shape

LEMMA ShapeInit == Init => Shape
<1> SUFFICES ASSUME Init PROVE Shape
  OBVIOUS
<1>1. job \in [JobIds -> Rows] /\ IdsHandedOut
  BY DEF Init, IdsHandedOut, JobIds, Rows, UnusedRow
<1>2. nextId \in 1..(MaxJobs + 1)
  BY IndexAssumption DEF Init
<1>3. QED
  BY <1>1, <1>2 DEF Init, Shape, TypeOK, ClaimsNameRows, EnqueuerStates, WorkerStates, Idle

\* Every reachable state has the types of TypeOK: in particular only accepted
\* rows wait for their next attempt, and only running rows are overdue.
THEOREM TypeCorrect == Spec => []Shape
BY ShapeInit, ShapeStep, PTL DEF Spec

-----------------------------------------------------------------------------
(* Enqueue keeps its word.                                                 *)

\* New promises of Enqueue are about scans that have a row.
LEMMA RequestsAreNew ==
  ASSUME Shape, [Next]_vars, NEW s \in requested', s \notin requested
  PROVE  \E j \in JobIds : Present(j)' /\ job'[j].scan = s
<1>1. ASSUME NEW t, ActiveOf(t) # {}, job' = job, s = t PROVE \E j \in JobIds : Present(j)' /\ job'[j].scan = s
  BY <1>1 DEF ActiveOf, Active, Present, Statuses
<1>2. ASSUME NEW e \in Enqueuers, NEW t \in Scans, DedupeActive(e, t)
      PROVE  \E j \in JobIds : Present(j)' /\ job'[j].scan = s
  BY <1>1, <1>2 DEF DedupeActive
<1>3. ASSUME NEW e \in Enqueuers, LookAgain(e)
      PROVE  \E j \in JobIds : Present(j)' /\ job'[j].scan = s
  BY <1>1, <1>3 DEF LookAgain
<1>4. ASSUME NEW e \in Enqueuers, Create(e)
      PROVE  \E j \in JobIds : Present(j)' /\ job'[j].scan = s
  <2>1. nextId \in JobIds /\ s = enqueuer[e].scan
    BY <1>4 DEF Create
  <2>2. job'[nextId].status = "accepted" /\ job'[nextId].scan = s
    BY <1>4, <2>1 DEF Create, Shape, TypeOK, Rows
  <2>3. QED
    BY <2>1, <2>2 DEF Present, Statuses, ActiveStatuses
<1>5. CASE requested' = requested
  BY <1>5
<1>6. QED
  BY <1>2, <1>3, <1>4, <1>5, ZenonT(60)
  DEF Next, EnqueueSteps, FindNoActive, CreateFails, ClaimNext, Index, IndexPage, IndexErrs,
      Settle, MarkCompleted, MarkFailed, Reschedule, Abandon, BecomeDue, GrowOverdue, Retry,
      CancelQueued, RecoverStale, DeleteScan, vars

LEMMA ScansShrink == [Next]_vars => scans' \subseteq scans
BY ZenonT(60)
DEF Next, EnqueueSteps, DedupeActive, FindNoActive, Create, CreateFails, LookAgain, ClaimNext,
    Index, IndexPage, IndexErrs, Settle, MarkCompleted, MarkFailed, Reschedule, Abandon,
    BecomeDue, GrowOverdue, Retry, CancelQueued, RecoverStale, DeleteScan, vars

LEMMA HonourStep == Shape /\ EnqueueHonoured /\ [Next]_vars => EnqueueHonoured'
<1> SUFFICES ASSUME Shape, EnqueueHonoured, [Next]_vars, NEW s \in requested' \cap scans'
             PROVE  \E j \in JobIds : Present(j)' /\ job'[j].scan = s
  BY DEF EnqueueHonoured
<1>1. CASE s \notin requested
  BY <1>1, RequestsAreNew
<1>2. CASE s \in requested
  <2>1. PICK j \in JobIds : Present(j) /\ job[j].scan = s
    BY <1>2, ScansShrink DEF EnqueueHonoured
  <2>2. RowStep(j)
    BY RowSteps
  <2>3. QED
    BY <2>1, <2>2
    DEF Present, RowStep, RowKept, RowMoved, SettledBy, Statuses, ActiveStatuses
<1>3. QED
  BY <1>1, <1>2

\* Whoever was told that the projection of a scan is queued finds a row for it,
\* as long as the scan exists, however calls of Enqueue race.
THEOREM EnqueueKeepsItsWord == Spec => []EnqueueHonoured
<1>1. Init => EnqueueHonoured
  BY DEF Init, EnqueueHonoured
<1>2. QED
  BY <1>1, HonourStep, TypeCorrect, PTL DEF Spec

-----------------------------------------------------------------------------
(* A row settles for a reason.                                             *)

\* Rows go with the scan they are about (the foreign key).
RowsOfStoredScans == \A j \in JobIds : Present(j) => job[j].scan \in scans

\* The attempt that a worker holds has been counted in the row.
ClaimsCounted ==
  \A w \in Workers :
    worker[w].pc # "idle" => worker[w].attempt <= job[worker[w].job].attempts

\* What a worker has paged through is in the search backend, unless the scan
\* has been deleted meanwhile.
PagesAreIndexed ==
  \A w \in Workers :
    worker[w].pc \in {"indexing", "indexed"} /\ Present(worker[w].job) =>
      \A i \in 1..IssueCount :
        worker[w].pc = "indexed" \/ i <= worker[w].offset => i \in indexed[job[worker[w].job].scan]

EarnedInv ==
  RowsOfStoredScans /\ ClaimsCounted /\ PagesAreIndexed /\ CompletedMeansIndexed /\ FailedMeansExhausted

LEMMA StoredStep == ASSUME Shape, RowsOfStoredScans, [Next]_vars PROVE RowsOfStoredScans'
<1> SUFFICES ASSUME NEW j \in JobIds, Present(j)' PROVE job'[j].scan \in scans'
  BY DEF RowsOfStoredScans
<1>1. RowStep(j) /\ job[j] \in Rows
  BY RowSteps DEF Shape, TypeOK
<1>2. ASSUME NEW s \in Scans, DeleteScan(s) PROVE job'[j].scan \in scans'
  BY <1>1, <1>2 DEF DeleteScan, Present, RowsOfStoredScans, Rows, Statuses, ActiveStatuses
<1>3. ASSUME NEW e \in Enqueuers, Create(e) PROVE job'[j].scan \in scans'
  <2>1. CASE j = nextId
    BY <1>3, <2>1 DEF Create, Shape, TypeOK, Rows
  <2>2. CASE j # nextId
    BY <1>3, <2>2 DEF Create, Shape, TypeOK, Present, RowsOfStoredScans
  <2>3. QED
    BY <2>1, <2>2
<1>4. ASSUME scans' = scans, Present(j) PROVE job'[j].scan \in scans'
  BY <1>1, <1>4
  DEF RowsOfStoredScans, RowStep, RowKept, Present, Statuses, ActiveStatuses
<1>5. ASSUME scans' = scans, ~Present(j), ~(\E e \in Enqueuers : Create(e)) PROVE FALSE
  <2>1. job[j].status = "absent"
    BY <1>1, <1>5 DEF RowStep, RowMoved, SettledBy, Present, Statuses, ActiveStatuses
  <2>2. job[j] = UnusedRow
    BY <2>1 DEF Shape, IdsHandedOut
  <2>3. j < nextId' <=> j < nextId
    BY <1>5, ZenonT(60)
    DEF Next, EnqueueSteps, DedupeActive, FindNoActive, CreateFails, LookAgain, ClaimNext,
        Index, IndexPage, IndexErrs, Settle, MarkCompleted, MarkFailed, Reschedule, Abandon,
        BecomeDue, GrowOverdue, Retry, CancelQueued, RecoverStale, DeleteScan, vars
  <2>4. QED
    BY <1>5, <2>1, <2>3, ShapeStep DEF Shape, IdsHandedOut, UnusedRow, Present, Statuses, ActiveStatuses
<1>6. scans' = scans \/ \E s \in Scans : DeleteScan(s)
  BY ZenonT(60)
  DEF Next, EnqueueSteps, DedupeActive, FindNoActive, Create, CreateFails, LookAgain, ClaimNext,
      Index, IndexPage, IndexErrs, Settle, MarkCompleted, MarkFailed, Reschedule, Abandon,
      BecomeDue, GrowOverdue, Retry, CancelQueued, RecoverStale, vars
<1>7. QED
  BY <1>2, <1>3, <1>4, <1>5, <1>6

\* Nothing leaves the search backend.
LEMMA IndexedGrows ==
  ASSUME Shape, [Next]_vars, NEW s \in Scans
  PROVE  indexed[s] \subseteq indexed'[s] /\ indexed'[s] \subseteq 1..IssueCount
<1>1. indexed'[s] \subseteq 1..IssueCount
  BY ShapeStep DEF Shape, TypeOK
<1>2. ASSUME NEW w \in Workers, IndexPage(w) PROVE indexed[s] \subseteq indexed'[s]
  BY <1>2, BusyWorker DEF IndexPage, Shape, TypeOK
<1>3. ASSUME indexed' = indexed PROVE indexed[s] \subseteq indexed'[s]
  BY <1>3
<1>4. QED
  BY <1>1, <1>2, <1>3, ZenonT(60)
  DEF Next, EnqueueSteps, DedupeActive, FindNoActive, Create, CreateFails, LookAgain, ClaimNext,
      Index, IndexErrs, Settle, MarkCompleted, MarkFailed, Reschedule, Abandon,
      BecomeDue, GrowOverdue, Retry, CancelQueued, RecoverStale, DeleteScan, vars

\* A row that is still there was there before, unless it is new.
LEMMA PresentBefore ==
  ASSUME Shape, [Next]_vars, NEW j \in JobIds, Present(j)', job[j].status # "absent"
  PROVE  Present(j) /\ job'[j].scan = job[j].scan
BY RowSteps DEF RowStep, RowKept, RowMoved, SettledBy, Present, Statuses, ActiveStatuses

LEMMA CountedStep == ASSUME Shape, ClaimsCounted, [Next]_vars PROVE ClaimsCounted'
<1> SUFFICES ASSUME NEW v \in Workers, worker'[v].pc # "idle"
             PROVE  worker'[v].attempt <= job'[worker'[v].job].attempts
  BY DEF ClaimsCounted
<1>1. \A j \in JobIds : job[j].attempts \in Nat /\ job'[j].attempts \in Nat
  BY ShapeStep DEF Shape, TypeOK, Rows
<1>2. CASE Continues(v)
  <2>1. worker[v].job \in JobIds /\ worker[v].attempt \in Nat
    BY <1>2, BusyWorker DEF Continues
  <2>2. job[worker[v].job].attempts <= job'[worker[v].job].attempts
    BY <2>1, RowSteps DEF RowStep, RowKept
  <2>3. worker[v].attempt <= job[worker[v].job].attempts
    BY <1>2 DEF Continues, ClaimsCounted
  <2>4. QED
    BY <1>1, <1>2, <2>1, <2>2, <2>3 DEF Continues
<1>3. CASE Claims(v)
  BY <1>1, <1>3 DEF Claims
<1>4. QED
  BY <1>2, <1>3, WorkerSteps

\* One page takes a worker to the end, or past what it has read, provided that
\* the query does not cut its pages short.
LEMMA PageProgress ==
  ASSUME BatchSize <= QueryLimit, NEW s \in scans, NEW offset \in Nat, NEW i \in 1..IssueCount,
         \/ LastPage(offset, Cardinality(Page(s, offset)))
         \/ i <= offset + Cardinality(Page(s, offset))
  PROVE  i <= offset \/ i \in Page(s, offset)
<1> DEFINE last == IF offset + PageLimit < IssueCount THEN offset + PageLimit ELSE IssueCount
<1>1. /\ PageLimit = BatchSize /\ BatchSize \in Nat \ {0} /\ IssueCount \in Nat /\ i \in Nat
      /\ i <= IssueCount
  BY IndexAssumption DEF PageLimit
<1>2. /\ Page(s, offset) = (offset + 1)..last
      /\ Cardinality(Page(s, offset)) = IF offset < last THEN last - offset ELSE 0
  BY PageSize
<1>3. i <= offset \/ i <= last
  BY <1>1, <1>2 DEF LastPage
<1>4. last \in Nat
  BY <1>1
<1> HIDE DEF last
<1>5. QED
  BY <1>1, <1>2, <1>3, <1>4

LEMMA PagesStep ==
  ASSUME BatchSize <= QueryLimit, Shape, RowsOfStoredScans, PagesAreIndexed, [Next]_vars
  PROVE  PagesAreIndexed'
<1> SUFFICES ASSUME NEW v \in Workers, worker'[v].pc \in {"indexing", "indexed"},
                    job'[worker'[v].job].status \in Statuses, NEW i \in 1..IssueCount,
                    worker'[v].pc = "indexed" \/ i <= worker'[v].offset
             PROVE  i \in indexed'[job'[worker'[v].job].scan]
  BY DEF PagesAreIndexed, Present
<1>1. CASE Claims(v)
  BY <1>1 DEF Claims
<1>2. CASE Continues(v)
  <2> DEFINE j == worker[v].job
             s == job[j].scan
             offset == worker[v].offset
             n == Cardinality(Page(s, offset))
  <2>1. /\ j \in JobIds /\ job[j].status # "absent" /\ s \in Scans /\ worker'[v].job = j
        /\ offset \in Nat
    BY <1>2, BusyWorker DEF Continues
  <2>2. Present(j) /\ job'[j].scan = s
    BY <1>2, <2>1, PresentBefore DEF Present
  <2>3. s \in scans /\ indexed[s] \subseteq indexed'[s]
    BY <2>1, <2>2, IndexedGrows DEF RowsOfStoredScans
  <2>4. worker[v].pc \in {"indexing", "indexed"} =>
          (worker[v].pc = "indexed" \/ i <= offset => i \in indexed[s])
    BY <2>2 DEF PagesAreIndexed
  <2>5. CASE worker'[v].pc = worker[v].pc /\ worker'[v].offset = worker[v].offset
    BY <2>1, <2>2, <2>3, <2>4, <2>5
  <2>6. CASE IndexPage(v)
    <3>1. /\ worker[v].pc = "indexing"
          /\ indexed' = [indexed EXCEPT ![s] = @ \cup Page(s, offset)]
          /\ worker' = IF LastPage(offset, n) THEN [worker EXCEPT ![v].pc = "indexed"]
                                              ELSE [worker EXCEPT ![v].offset = offset + n]
      BY <2>6 DEF IndexPage
    <3>2. worker[v] \in [pc : {"indexing", "indexed", "erred"}, job : JobIds, attempt : Nat, offset : Nat]
          /\ worker \in [Workers -> WorkerStates] /\ indexed \in [Scans -> SUBSET (1..IssueCount)]
      BY <3>1 DEF Shape, TypeOK, WorkerStates, Idle
    <3>3. CASE LastPage(offset, n)
      <4>1. i <= offset \/ i \in Page(s, offset)
        BY <2>1, <2>3, <3>3, PageProgress
      <4>2. QED
        BY <2>1, <2>2, <2>3, <2>4, <3>1, <3>2, <4>1
    <3>4. CASE ~LastPage(offset, n)
      <4>1. worker' = [worker EXCEPT ![v].offset = offset + n]
        BY <3>1, <3>4
      <4>2. worker'[v].offset = offset + n /\ worker'[v].pc = "indexing"
        BY <3>1, <3>2, <4>1
      <4>3. i <= offset + n
        BY <4>2
      <4>4. i <= offset \/ i \in Page(s, offset)
        BY <2>1, <2>3, <4>3, PageProgress
      <4>5. QED
        BY <2>1, <2>2, <2>3, <2>4, <3>1, <3>2, <4>4
    <3>5. QED
      BY <3>3, <3>4
  <2>7. QED
    BY <1>2, <2>5, <2>6 DEF Continues
<1>3. QED
  BY <1>1, <1>2, WorkerSteps

LEMMA EarnedStep ==
  ASSUME BatchSize <= QueryLimit, Shape, EarnedInv, [Next]_vars
  PROVE  EarnedInv'
<1>1. RowsOfStoredScans' /\ ClaimsCounted' /\ PagesAreIndexed'
  BY StoredStep, CountedStep, PagesStep DEF EarnedInv
<1>2. ASSUME NEW j \in JobIds, job'[j].status = "completed"
      PROVE  indexed'[job'[j].scan] = 1..IssueCount
  <2>1. RowStep(j) /\ job[j].status # "absent"
    BY <1>2, RowSteps DEF RowStep, RowMoved, SettledBy, Statuses, ActiveStatuses
  <2>2. /\ job'[j].scan = job[j].scan
        /\ job[j].status = "completed" \/ \E w \in Workers : SettledBy(w, j) /\ worker[w].pc = "indexed"
    BY <1>2, <2>1 DEF RowStep, RowKept, RowMoved, SettledBy
  <2>3. job[j].scan \in Scans
    BY <2>1 DEF Shape, IdsHandedOut, UnusedRow
  <2>4. 1..IssueCount \subseteq indexed[job[j].scan]
    BY <2>2 DEF EarnedInv, CompletedMeansIndexed, PagesAreIndexed, SettledBy, Present
  <2>5. QED
    BY <2>2, <2>3, <2>4, IndexedGrows
<1>3. ASSUME NEW j \in JobIds, job'[j].status = "failed"
      PROVE  job'[j].attempts >= MaxRetries \/ job'[j].attempts >= MaxAttempts
  <2>1. RowStep(j) /\ job[j].attempts \in Nat /\ job'[j].attempts \in Nat
        /\ job[j].attempts <= job'[j].attempts
    BY RowSteps, ShapeStep DEF RowStep, RowKept, Shape, TypeOK, Rows
  <2>2. \/ job[j].status = "failed"
        \/ job[j].attempts >= MaxAttempts
        \/ \E w \in Workers : SettledBy(w, j) /\ Exhausted(worker[w].attempt)
    BY <1>3, <2>1 DEF RowStep, RowMoved, SettledBy
  <2>3. job[j].attempts >= MaxRetries \/ job[j].attempts >= MaxAttempts
    <3>1. ASSUME NEW w \in Workers, SettledBy(w, j), Exhausted(worker[w].attempt)
          PROVE  job[j].attempts >= MaxRetries
      <4>1. worker[w].attempt \in Nat /\ worker[w].attempt <= job[j].attempts
        BY <3>1, BusyWorker DEF SettledBy, EarnedInv, ClaimsCounted
      <4>2. QED
        BY <2>1, <3>1, <4>1, IndexAssumption DEF Exhausted
    <3>2. QED
      BY <2>2, <3>1 DEF EarnedInv, FailedMeansExhausted
  <2>4. QED
    BY <2>1, <2>3, IndexAssumption
<1>4. QED
  BY <1>1, <1>2, <1>3 DEF EarnedInv, CompletedMeansIndexed, FailedMeansExhausted

LEMMA EarnedInit == Init => EarnedInv
BY DEF Init, EarnedInv, RowsOfStoredScans, ClaimsCounted, PagesAreIndexed, CompletedMeansIndexed,
       FailedMeansExhausted, Idle, Present, Statuses, ActiveStatuses

\* A completed row means that all of its scan is in the search backend, and a
\* failed one that its attempts are used up: as long as the query does not cut
\* pages below the batch size, which doIndex takes for the end.
THEOREM RowsSettleForAReason == ASSUME BatchSize <= QueryLimit PROVE Spec => []SettledIsEarned
<1>1. Shape /\ EarnedInv /\ [Next]_vars => EarnedInv'
  BY EarnedStep
<1>2. Shape /\ EarnedInv => SettledIsEarned
  BY DEF Shape, EarnedInv, SettledIsEarned
<1>3. QED
  BY <1>1, <1>2, EarnedInit, TypeCorrect, PTL DEF Spec

-----------------------------------------------------------------------------
(* The queue implements DurableJob.                                        *)

\* Until recovery or an administrator puts a row back, the worker that claimed
\* it is the only one that holds it, and the row is running, or gone with its
\* scan.
HeldUnlessLost ==
  \A v \in Workers :
    (worker[v].pc # "idle" /\ worker[v].job \notin lost) =>
      /\ job[worker[v].job].status \in {"running", "deleted"}
      /\ \A w \in Workers \ {v} : worker[w].pc # "idle" => worker[w].job # worker[v].job

\* History speaks of rows that were inserted.
LostWereRows == \A j \in lost : job[j].status # "absent"

HeldInv == HeldUnlessLost /\ LostWereRows

LEMMA LostGrows ==
  ASSUME Shape, [Next]_vars
  PROVE  lost \subseteq lost' /\ \A j \in lost' \ lost : job[j].status # "absent"
<1>1. ASSUME NEW j \in JobIds, Retry(j)
      PROVE  lost \subseteq lost' /\ \A k \in lost' \ lost : job[k].status # "absent"
  BY <1>1 DEF Retry, Present, Statuses, ActiveStatuses
<1>2. ASSUME RecoverStale
      PROVE  lost \subseteq lost' /\ \A k \in lost' \ lost : job[k].status # "absent"
  BY <1>2 DEF RecoverStale, Shape, TypeOK
<1>3. ASSUME lost' = lost
      PROVE  lost \subseteq lost' /\ \A k \in lost' \ lost : job[k].status # "absent"
  BY <1>3
<1>4. QED
  BY <1>1, <1>2, <1>3, ZenonT(60)
  DEF Next, EnqueueSteps, DedupeActive, FindNoActive, Create, CreateFails, LookAgain, ClaimNext,
      Index, IndexPage, IndexErrs, Settle, MarkCompleted, MarkFailed, Reschedule, Abandon,
      BecomeDue, GrowOverdue, CancelQueued, DeleteScan, vars

LEMMA HeldStep == ASSUME Shape, HeldInv, [Next]_vars PROVE HeldInv'
<1>1. LostWereRows'
  <2>1. lost' \subseteq JobIds
    BY ShapeStep DEF Shape, TypeOK
  <2>2. \A j \in lost' : job[j].status # "absent"
    BY LostGrows DEF HeldInv, LostWereRows
  <2>3. QED
    BY <2>1, <2>2, RowSteps DEF RowStep, RowKept, LostWereRows
<1>2. SUFFICES ASSUME NEW v \in Workers, worker'[v].pc # "idle", worker'[v].job \notin lost'
      PROVE  /\ job'[worker'[v].job].status \in {"running", "deleted"}
             /\ \A w \in Workers \ {v} : worker'[w].pc # "idle" => worker'[w].job # worker'[v].job
  BY <1>1 DEF HeldInv, HeldUnlessLost
<1>3. lost \subseteq lost'
  BY LostGrows
<1>4. CASE Claims(v)
  <2>1. \A w \in Workers : worker[w].pc # "idle" => worker[w].job # worker'[v].job
    BY <1>2, <1>3, <1>4 DEF Claims, HeldInv, HeldUnlessLost
  <2>2. QED
    BY <1>4, <2>1 DEF Claims
<1>5. CASE Continues(v)
  <2> DEFINE j == worker[v].job
  <2>1. /\ worker'[v].job = j /\ j \in JobIds /\ j \notin lost /\ j \notin lost'
        /\ job[j].status \in {"running", "deleted"}
        /\ \A w \in Workers \ {v} : worker[w].pc # "idle" => worker[w].job # j
    BY <1>2, <1>3, <1>5, BusyWorker DEF Continues, HeldInv, HeldUnlessLost
  <2>2. job'[j].status \in {"running", "deleted"}
    <3>1. RowMoved(j)
      BY <2>1, RowSteps DEF RowStep
    <3>2. ~(\E w \in Workers : SettledBy(w, j))
      BY <1>2, <2>1 DEF SettledBy
    <3>3. QED
      BY <2>1, <3>1, <3>2 DEF RowMoved
  <2>3. ASSUME NEW w \in Workers \ {v}, worker'[w].pc # "idle" PROVE worker'[w].job # j
    <3>1. CASE Continues(w)
      BY <2>1, <3>1 DEF Continues
    <3>2. CASE Claims(w)
      BY <2>1, <3>2 DEF Claims
    <3>3. QED
      BY <2>3, <3>1, <3>2, WorkerSteps
  <2>4. QED
    BY <2>1, <2>2, <2>3
<1>6. QED
  BY <1>2, <1>4, <1>5, WorkerSteps

LEMMA PromiseStep ==
  ASSUME BatchSize <= QueryLimit, Shape, EarnedInv, HeldInv, [Next]_vars
  PROVE  Promise!Next
<1>1. Shape' /\ HeldInv'
  BY ShapeStep, HeldStep
<1>2. \A j \in JobIds : /\ job[j].status \in Statuses \cup {"absent", "deleted"}
                        /\ job'[j].status \in Statuses \cup {"absent", "deleted"}
  BY <1>1 DEF Shape, TypeOK, Rows
<1>3. Phase' \in [JobIds -> Promise!Phases]
  BY <1>2 DEF Phase, Active, Statuses, ActiveStatuses, Promise!Phases, Promise!PresentPhases
<1>4. ASSUME NEW j \in JobIds PROVE Promise!JobStep(j)
  <2>1. RowMoved(j)
    BY RowSteps DEF RowStep
  <2>2. lost \subseteq lost'
    BY LostGrows
  <2>3. CASE \E w \in Workers : SettledBy(w, j)
    <3>1. PICK w \in Workers : SettledBy(w, j)
      BY <2>3
    <3>2. j \in lost \/ job[j].status = "running"
      BY <3>1 DEF SettledBy, HeldInv, HeldUnlessLost, Statuses, ActiveStatuses
    <3>3. job'[j].status = "completed" => j \in Projected
      <4>1. ASSUME job'[j].status = "completed" PROVE j \in Projected
        <5>1. worker[w].pc = "indexed" /\ Present(j) /\ job[j].status # "absent"
          BY <3>1, <4>1 DEF SettledBy, Present, Statuses, ActiveStatuses
        <5>2. 1..IssueCount \subseteq indexed[job[j].scan]
          BY <3>1, <5>1 DEF EarnedInv, PagesAreIndexed, SettledBy
        <5>3. indexed[job[j].scan] \subseteq 1..IssueCount
          BY <5>1 DEF Shape, TypeOK, IdsHandedOut, UnusedRow
        <5>4. QED
          BY <5>1, <5>2, <5>3 DEF Projected
      <4>2. QED
        BY <4>1
    <3>4. QED
      BY <1>2, <2>2, <3>1, <3>2, <3>3
      DEF SettledBy, Phase, Active, Statuses, ActiveStatuses, Promise!JobStep, Promise!Complete,
          Promise!GiveUp, Promise!SettleAgain, Promise!PresentPhases
  <2>4. CASE ~(\E w \in Workers : SettledBy(w, j))
    BY <1>2, <2>1, <2>4
    DEF RowMoved, Phase, Active, Statuses, ActiveStatuses, Promise!JobStep, Promise!Submit,
        Promise!GiveUp, Promise!SettleAgain, Promise!Delete, Promise!PresentPhases
  <2>5. QED
    BY <2>3, <2>4
<1>5. /\ Projected' \subseteq {j \in JobIds : Phase'[j] # "absent"}
      /\ lost' \subseteq {j \in JobIds : Phase'[j] # "absent"}
  BY <1>1 DEF Projected, Phase, Shape, TypeOK, HeldInv, LostWereRows
<1>6. Projected \subseteq Projected'
  <2>1. SUFFICES ASSUME NEW j \in JobIds, job[j].status # "absent",
                        indexed[job[j].scan] = 1..IssueCount
        PROVE  job'[j].status # "absent" /\ indexed'[job'[j].scan] = 1..IssueCount
    BY DEF Projected
  <2>2. job'[j].status # "absent" /\ job'[j].scan = job[j].scan /\ job[j].scan \in Scans
    BY <2>1, RowSteps DEF RowStep, RowKept, Shape, IdsHandedOut, UnusedRow
  <2>3. QED
    BY <2>1, <2>2, IndexedGrows
<1>7. QED
  BY <1>3, <1>4, <1>5, <1>6, LostGrows DEF Promise!Next

\* The queue implements DurableJob, with a row's claim and settlement as its
\* phase and a projected scan as its work.
THEOREM QueueKeepsPromise == ASSUME BatchSize <= QueryLimit PROVE Spec => KeepsPromise
<1>1. Init => HeldInv /\ Promise!Init
  BY DEF Init, HeldInv, HeldUnlessLost, LostWereRows, Idle, Phase, Active, ActiveStatuses,
         Projected, Promise!Init
<1>2. Shape /\ EarnedInv /\ [Next]_vars => EarnedInv'
  BY EarnedStep
<1>3. Shape /\ HeldInv /\ [Next]_vars => HeldInv'
  BY HeldStep
<1>4. Spec => [](Shape /\ EarnedInv /\ HeldInv)
  BY <1>1, <1>2, <1>3, ShapeInit, ShapeStep, EarnedInit, PTL DEF Spec
<1>5. Shape /\ EarnedInv /\ HeldInv /\ [Next]_vars => [Promise!Next]_(Promise!vars)
  BY PromiseStep
<1>6. QED
  BY <1>1, <1>4, <1>5, PTL DEF Spec, KeepsPromise, Promise!Spec
================================================================================
