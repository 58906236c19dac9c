-------------------------- MODULE ScanJobQueueProofs --------------------------
(***************************************************************************)
(* Proofs about ScanJobQueue, for every number of rows, submitters,        *)
(* workers and administrators and every setting of the limits.             *)
(***************************************************************************)
EXTENDS ScanJobQueue, FiniteSetTheorems, TLAPS

-----------------------------------------------------------------------------
(* The inductive invariant, as named parts.                                *)

\* Rows exist for the ids that the sequence has handed out, and no others.
IdsHandedOut ==
  \A j \in JobIds : IF j < nextId THEN job[j].request \in Requests /\ job[j].status # "absent"
                                  ELSE job[j] = UnusedRow

-----------------------------------------------------------------------------
(* Type correctness.                                                       *)

\* An actor that is between two statements holds what it has read.
LEMMA BusySubmitter ==
  ASSUME TypeOK, NEW s \in Submitters, submitter[s].pc # "idle"
  PROVE  submitter[s].request \in Requests
BY DEF TypeOK, SubmitterStates, IdleSubmitter

LEMMA BusyWorker ==
  ASSUME TypeOK, NEW w \in Workers, worker[w].pc # "idle"
  PROVE  worker[w].job \in JobIds /\ worker[w].attempt \in Nat
BY DEF TypeOK, WorkerStates, IdleWorker

LEMMA BusyAdmin ==
  ASSUME TypeOK, NEW a \in Admins, admin[a].pc # "idle"
  PROVE  admin[a].job \in JobIds
BY DEF TypeOK, AdminStates, IdleAdmin

\* Every submission that the API can be sent is a request.
LEMMA RequestType ==
  ASSUME NEW p \in Projects, NEW c \in ClientKeys \cup {NoKey}, NEW h \in Payloads
  PROVE  [project |-> p, key |-> IdempotencyKey(c, h), hash |-> h] \in Requests
BY DEF Requests, IdempotencyKey, IdempotencyKeys

\* Type correctness of each action.
LEMMA IntakeTypes ==
  ASSUME TypeOK, IdsHandedOut, NEW s \in Submitters, SubmitSteps(s)
  PROVE  TypeOK'
<1> USE DEF TypeOK, table, history
<1>1. ASSUME NEW r \in Requests, AnswerFromExisting(s, r) PROVE TypeOK'
  <2>1. receipts' \subseteq [job : JobIds, request : Requests]
    BY <1>1 DEF AnswerFromExisting, SameIdentity
  <2>2. QED
    BY <1>1, <2>1 DEF AnswerFromExisting, Running
<1>2. ASSUME NEW r \in Requests, FindNothing(s, r) PROVE TypeOK'
  BY <1>2 DEF FindNothing, SubmitterStates, Running
<1>3. ASSUME PassBackpressure(s) PROVE TypeOK'
  BY <1>3 DEF PassBackpressure, SubmitterStates, IdleSubmitter, Running
<1>4. ASSUME RejectByBackpressure(s) PROVE TypeOK'
  BY <1>4 DEF RejectByBackpressure, SubmitterStates, Running
<1>5. ASSUME CreateJob(s) PROVE TypeOK'
  <2>1. submitter[s].request \in Requests
    BY <1>5, BusySubmitter DEF CreateJob
  <2>2. job' \in [JobIds -> Rows] /\ overdue' \subseteq Running'
    <3>1. /\ nextId \in JobIds
          /\ job' = [job EXCEPT ![nextId].status = "accepted",
                                ![nextId].request = submitter[s].request]
          /\ overdue' = overdue
      BY <1>5 DEF CreateJob
    <3>2. nextId \notin overdue
      BY <3>1, QueueAssumption DEF IdsHandedOut, UnusedRow, Running, JobIds
    <3>3. [job[nextId] EXCEPT !.status = "accepted", !.request = submitter[s].request] \in Rows
      BY <2>1, <3>1 DEF Rows, Statuses
    <3>4. job' = [job EXCEPT ![nextId] =
                   [job[nextId] EXCEPT !.status = "accepted", !.request = submitter[s].request]]
      BY <3>1
    <3>5. QED
      BY <3>1, <3>2, <3>3, <3>4 DEF Running
  <2>3. nextId' \in 1..(MaxJobs + 1)
    BY <1>5, QueueAssumption DEF CreateJob, JobIds
  <2>4. receipts' \subseteq [job : JobIds, request : Requests]
    BY <1>5, <2>1 DEF CreateJob
  <2>5. submitter' \in [Submitters -> SubmitterStates]
    BY <1>5 DEF CreateJob, SubmitterStates
  <2>6. QED
    BY <1>5, <2>2, <2>3, <2>4, <2>5 DEF CreateJob
<1>6. ASSUME CreateFails(s) PROVE TypeOK'
  BY <1>6 DEF CreateFails, SubmitterStates, Running
<1>7. QED
  BY <1>1, <1>2, <1>3, <1>4, <1>5, <1>6, RequestType DEF SubmitSteps

LEMMA ClaimTypes == ASSUME TypeOK, NEW w \in Workers, ClaimNext(w) PROVE TypeOK'
<1> USE DEF TypeOK
<1>1. PICK j \in JobIds :
        /\ IsOldestAccepted(j)
        /\ job' = [job EXCEPT ![j].status = "running", ![j].attempts = @ + 1]
        /\ overdue' = overdue \ {j}
        /\ worker' = [worker EXCEPT ![w] =
             [pc |-> "ingesting", job |-> j, attempt |-> job[j].attempts + 1]]
  BY DEF ClaimNext
<1>2. job[j].attempts + 1 \in Nat
  BY DEF Rows
<1>3. worker' \in [Workers -> WorkerStates]
  BY <1>1, <1>2 DEF WorkerStates
<1>4. job' \in [JobIds -> Rows] /\ overdue' \subseteq Running'
  BY <1>1, <1>2 DEF Rows, Statuses, Running
<1>5. QED
  BY <1>3, <1>4 DEF ClaimNext, history

LEMMA WorkTypes ==
  ASSUME TypeOK, NEW w \in Workers, Ingest(w) \/ Settle(w) \/ Abandon(w)
  PROVE  TypeOK'
<1> USE DEF TypeOK, table, history
<1>1. worker' \in [Workers -> WorkerStates]
  BY DEF Ingest, IngestSucceeds, IngestFails, Settle, MarkCompleted, MarkFailed, Abandon,
         WorkerStates, IdleWorker
<1>2. ASSUME IngestSucceeds(w) PROVE TypeOK'
  BY <1>1, <1>2, BusyWorker DEF IngestSucceeds, Running
<1>3. ASSUME IngestFails(w) PROVE TypeOK'
  BY <1>1, <1>3, BusyWorker DEF IngestFails, Running
<1>4. ASSUME MarkCompleted(w) PROVE TypeOK'
  <2>1. job' \in [JobIds -> Rows] /\ overdue' \subseteq Running'
    <3>1. CASE Present(worker[w].job)
      <4>1. /\ job' = [job EXCEPT ![worker[w].job].status = "completed", ![worker[w].job].scan = worker[w].attempt]
            /\ overdue' = overdue \ {worker[w].job}
            /\ worker[w].job \in JobIds /\ worker[w].attempt \in Nat
        BY <1>4, <3>1, BusyWorker DEF MarkCompleted
      <4>2. job' \in [JobIds -> Rows]
        BY <4>1 DEF Rows, Statuses
      <4>3. QED
        BY <4>1, <4>2 DEF Running
    <3>2. CASE ~Present(worker[w].job)
      BY <1>4, <3>2 DEF MarkCompleted, Running
    <3>3. QED
      BY <3>1, <3>2
  <2>2. QED
    BY <1>1, <1>4, <2>1 DEF MarkCompleted
<1>5. ASSUME MarkFailed(w) PROVE TypeOK'
  <2>1. job' \in [JobIds -> Rows] /\ overdue' \subseteq Running'
    <3>1. CASE Present(worker[w].job)
      <4>1. /\ job' = [job EXCEPT ![worker[w].job].status = "failed"]
            /\ overdue' = overdue \ {worker[w].job}
            /\ worker[w].job \in JobIds /\ worker[w].attempt \in Nat
        BY <1>5, <3>1, BusyWorker DEF MarkFailed
      <4>2. job' \in [JobIds -> Rows]
        BY <4>1 DEF Rows, Statuses
      <4>3. QED
        BY <4>1, <4>2 DEF Running
    <3>2. CASE ~Present(worker[w].job)
      BY <1>5, <3>2 DEF MarkFailed, Running
    <3>3. QED
      BY <3>1, <3>2
  <2>2. QED
    BY <1>1, <1>5, <2>1 DEF MarkFailed
<1>6. ASSUME Abandon(w) PROVE TypeOK'
  BY <1>1, <1>6 DEF Abandon, Running
<1>7. QED
  BY <1>2, <1>3, <1>4, <1>5, <1>6 DEF Ingest, Settle

LEMMA RecoveryTypes ==
  ASSUME TypeOK, (\E j \in JobIds : GrowOverdue(j)) \/ RecoverStale
  PROVE  TypeOK'
<1> USE DEF TypeOK, history
<1>1. ASSUME NEW j \in JobIds, GrowOverdue(j) PROVE TypeOK'
  BY <1>1 DEF GrowOverdue, Running
<1>2. ASSUME RecoverStale PROVE TypeOK'
  <2>1. job' \in [JobIds -> Rows]
    BY <1>2 DEF RecoverStale, Recovered, Rows, Statuses
  <2>2. lost' \subseteq JobIds
    BY <1>2 DEF RecoverStale, Running
  <2>3. QED
    BY <1>2, <2>1, <2>2 DEF RecoverStale
<1>3. QED
  BY <1>1, <1>2

LEMMA AdminTypes == ASSUME TypeOK, NEW a \in Admins, AdminSteps(a) PROVE TypeOK'
<1> USE DEF TypeOK, table, history
<1>1. ASSUME NEW j \in JobIds, ReadForRetry(a, j) \/ ReadForCancel(a, j) PROVE TypeOK'
  BY <1>1 DEF ReadForRetry, ReadForCancel, AdminStates, Running
<1>2. ASSUME Retry(a) PROVE TypeOK'
  <2>1. job' \in [JobIds -> Rows] /\ overdue' \subseteq Running'
    <3>1. CASE Present(admin[a].job)
      <4>1. /\ job' = [job EXCEPT ![admin[a].job].status = "accepted"]
            /\ overdue' = overdue \ {admin[a].job}
            /\ admin[a].job \in JobIds
        BY <1>2, <3>1, BusyAdmin DEF Retry
      <4>2. job' \in [JobIds -> Rows]
        BY <4>1 DEF Rows, Statuses
      <4>3. QED
        BY <4>1, <4>2 DEF Running
    <3>2. CASE ~Present(admin[a].job)
      BY <1>2, <3>2 DEF Retry, Running
    <3>3. QED
      BY <3>1, <3>2
  <2>2. admin' \in [Admins -> AdminStates]
    BY <1>2 DEF Retry, AdminStates
  <2>3. retries' \in [JobIds -> Nat] /\ lost' \subseteq JobIds
    BY <1>2, BusyAdmin DEF Retry
  <2>4. QED
    BY <1>2, <2>1, <2>2, <2>3 DEF Retry
<1>3. ASSUME CancelQueued(a) PROVE TypeOK'
  <2>1. job' \in [JobIds -> Rows] /\ overdue' \subseteq Running'
    BY <1>3, BusyAdmin DEF CancelQueued, Accepted, Rows, Statuses, Running
  <2>2. admin' \in [Admins -> AdminStates]
    BY <1>3 DEF CancelQueued, AdminStates
  <2>3. QED
    BY <1>3, <2>1, <2>2 DEF CancelQueued
<1>4. QED
  BY <1>1, <1>2, <1>3 DEF AdminSteps

LEMMA CleanupTypes == ASSUME TypeOK, DeleteCompletedJobs \/ DeleteScans PROVE TypeOK'
<1> USE DEF TypeOK, history
<1>1. ASSUME DeleteCompletedJobs PROVE TypeOK'
  <2>1. job' \in [JobIds -> Rows] /\ overdue \subseteq Running'
    BY <1>1 DEF DeleteCompletedJobs, Rows, Running
  <2>2. QED
    BY <1>1, <2>1 DEF DeleteCompletedJobs
<1>2. ASSUME DeleteScans PROVE TypeOK'
  <2>1. job' \in [JobIds -> Rows] /\ overdue \subseteq Running' /\ scans' \subseteq scans
    BY <1>2 DEF DeleteScans, SettledScans, Rows, Running
  <2>2. QED
    BY <1>2, <2>1 DEF DeleteScans
<1>3. QED
  BY <1>1, <1>2

LEMMA TypeStep == TypeOK /\ IdsHandedOut /\ [Next]_vars => TypeOK'
<1>1. ASSUME TypeOK, UNCHANGED vars PROVE TypeOK'
  BY <1>1 DEF TypeOK, vars, Running
<1>2. QED
  BY <1>1, IntakeTypes, ClaimTypes, WorkTypes, RecoveryTypes, AdminTypes, CleanupTypes DEF Next

\* The id sequence: only CreateJob uses a new id, no action forgets a request.
LEMMA IdsStep == TypeOK /\ IdsHandedOut /\ [Next]_vars => IdsHandedOut'
<1> SUFFICES ASSUME TypeOK, IdsHandedOut, [Next]_vars PROVE IdsHandedOut'
  OBVIOUS
<1> USE DEF IdsHandedOut, TypeOK
<1>1. ASSUME NEW s \in Submitters, CreateJob(s) PROVE IdsHandedOut'
  <2>1. submitter[s].request \in Requests
    BY <1>1, BusySubmitter DEF CreateJob
  <2>2. QED
    BY <1>1, <2>1, QueueAssumption DEF CreateJob, JobIds, Rows
<1>2. ASSUME nextId' = nextId,
             \A j \in JobIds : \/ job'[j] = job[j]
                               \/ /\ job[j].status # "absent"
                                  /\ job'[j].status # "absent"
                                  /\ job'[j].request = job[j].request
      PROVE  IdsHandedOut'
  BY <1>2 DEF UnusedRow
<1>3. ASSUME NEW s \in Submitters, SubmitSteps(s) PROVE IdsHandedOut'
  BY <1>1, <1>2, <1>3
  DEF SubmitSteps, AnswerFromExisting, FindNothing, PassBackpressure, RejectByBackpressure,
      CreateFails, table
<1>4. ASSUME NEW w \in Workers, ClaimNext(w) PROVE IdsHandedOut'
  BY <1>2, <1>4 DEF ClaimNext, IsOldestAccepted, Accepted, Rows
<1>5. ASSUME NEW w \in Workers, Ingest(w) \/ Abandon(w) PROVE IdsHandedOut'
  BY <1>2, <1>5 DEF Ingest, IngestSucceeds, IngestFails, Abandon, table
<1>6. ASSUME NEW w \in Workers, Settle(w) PROVE IdsHandedOut'
  BY <1>2, <1>6, BusyWorker DEF Settle, MarkCompleted, MarkFailed, Present, Statuses, Rows
<1>7. ASSUME NEW j \in JobIds, GrowOverdue(j) PROVE IdsHandedOut'
  BY <1>2, <1>7 DEF GrowOverdue
<1>8. ASSUME RecoverStale PROVE IdsHandedOut'
  BY <1>2, <1>8 DEF RecoverStale, Recovered, Running, Rows
<1>9. ASSUME NEW a \in Admins, AdminSteps(a) PROVE IdsHandedOut'
  <2>1. ASSUME Retry(a) PROVE IdsHandedOut'
    BY <1>2, <2>1, BusyAdmin DEF Retry, Present, Statuses, Rows
  <2>2. ASSUME CancelQueued(a) PROVE IdsHandedOut'
    BY <1>2, <2>2, BusyAdmin DEF CancelQueued, Accepted, Rows
  <2>3. QED
    BY <1>2, <1>9, <2>1, <2>2 DEF AdminSteps, ReadForRetry, ReadForCancel, table
<1>10. ASSUME DeleteCompletedJobs PROVE IdsHandedOut'
  BY <1>2, <1>10 DEF DeleteCompletedJobs, Rows
<1>11. ASSUME DeleteScans PROVE IdsHandedOut'
  <2>1. [UnusedRow EXCEPT !.scan = 0] = UnusedRow
    BY DEF UnusedRow
  <2>2. \A j \in JobIds : job[j] = UnusedRow => job'[j] = UnusedRow
    BY <1>11, <2>1 DEF DeleteScans
  <2>3. \A j \in JobIds : job'[j].status = job[j].status /\ job'[j].request = job[j].request
    BY <1>11 DEF DeleteScans, Rows
  <2>4. QED
    BY <1>11, <2>2, <2>3 DEF DeleteScans
<1>12. ASSUME UNCHANGED vars PROVE IdsHandedOut'
  BY <1>2, <1>12 DEF vars
<1>13. QED
  BY <1>3, <1>4, <1>5, <1>6, <1>7, <1>8, <1>9, <1>10, <1>11, <1>12 DEF Next

LEMMA TypeInit == Init => TypeOK /\ IdsHandedOut
<1> SUFFICES ASSUME Init PROVE TypeOK /\ IdsHandedOut
  OBVIOUS
<1>1. job \in [JobIds -> Rows] /\ IdsHandedOut
  BY DEF Init, IdsHandedOut, JobIds, Rows, UnusedRow
<1>2. nextId \in 1..(MaxJobs + 1)
  BY QueueAssumption DEF Init
<1>3. QED
  BY <1>1, <1>2 DEF Init, TypeOK, SubmitterStates, WorkerStates, AdminStates

\* Every reachable state has the types of TypeOK: in particular only running
\* rows are overdue, so RecoverStale never touches a row that was settled.
THEOREM TypeCorrect == Spec => [](TypeOK /\ IdsHandedOut)
BY TypeInit, TypeStep, IdsStep, PTL DEF Spec

-----------------------------------------------------------------------------
(* The life cycle of a row.                                                *)

\* Every step treats every row as RowStep allows.
LEMMA RowSteps ==
  TypeOK /\ IdsHandedOut /\ [Next]_vars => \A j \in JobIds : RowStep(j)
<1> SUFFICES ASSUME TypeOK, IdsHandedOut, [Next]_vars, NEW j \in JobIds
             PROVE  RowStep(j)
  OBVIOUS
<1> USE DEF TypeOK, RowStep, history
<1>0. job[j] \in Rows /\ retries[j] \in Nat
  OBVIOUS
<1>1. ASSUME NEW s \in Submitters, SubmitSteps(s) PROVE RowStep(j)
  <2>1. ASSUME CreateJob(s) PROVE RowStep(j)
    BY <2>1, QueueAssumption DEF CreateJob, IdsHandedOut, UnusedRow, JobIds, Rows
  <2>2. QED
    BY <1>1, <2>1
    DEF SubmitSteps, AnswerFromExisting, FindNothing, PassBackpressure, RejectByBackpressure,
        CreateFails, table
<1>2. ASSUME NEW w \in Workers, ClaimNext(w) PROVE RowStep(j)
  BY <1>0, <1>2 DEF ClaimNext, IsOldestAccepted, Accepted, Rows
<1>3. ASSUME NEW w \in Workers, Ingest(w) \/ Abandon(w) PROVE RowStep(j)
  BY <1>3 DEF Ingest, IngestSucceeds, IngestFails, Abandon, table
<1>4. ASSUME NEW w \in Workers, Settle(w) PROVE RowStep(j)
  BY <1>4, BusyWorker DEF Settle, MarkCompleted, MarkFailed, Present, Rows
<1>5. ASSUME NEW k \in JobIds, GrowOverdue(k) PROVE RowStep(j)
  BY <1>5 DEF GrowOverdue
<1>6. ASSUME RecoverStale PROVE RowStep(j)
  BY <1>6 DEF RecoverStale, Recovered, Running, Rows
<1>7. ASSUME NEW a \in Admins, AdminSteps(a) PROVE RowStep(j)
  <2>1. ASSUME Retry(a) PROVE RowStep(j)
    BY <2>1, BusyAdmin DEF Retry, Present, Rows
  <2>2. ASSUME CancelQueued(a) PROVE RowStep(j)
    BY <2>2, BusyAdmin DEF CancelQueued, Accepted, Rows
  <2>3. QED
    BY <1>7, <2>1, <2>2 DEF AdminSteps, ReadForRetry, ReadForCancel, table
<1>8. ASSUME DeleteCompletedJobs PROVE RowStep(j)
  BY <1>8 DEF DeleteCompletedJobs, Rows
<1>9. ASSUME DeleteScans PROVE RowStep(j)
  BY <1>0, <1>9 DEF DeleteScans, Rows
<1>10. ASSUME UNCHANGED vars PROVE RowStep(j)
  BY <1>10 DEF vars
<1>11. QED
  BY <1>1, <1>2, <1>3, <1>4, <1>5, <1>6, <1>7, <1>8, <1>9, <1>10 DEF Next

\* Rows live as RowLifecycle says.
THEOREM RowsFollowLifecycle == Spec => RowLifecycle
<1>1. [][Next]_vars /\ [](TypeOK /\ IdsHandedOut) => RowLifecycle
  BY RowSteps, PTL DEF RowLifecycle
<1>2. QED
  BY <1>1, TypeCorrect, PTL DEF Spec

-----------------------------------------------------------------------------
(* Attempts are bounded.                                                   *)

\* A row that waits has an attempt left: AttemptsBounded alone is not
\* inductive, a waiting row at the limit could be claimed once more.
WaitingHasAttemptLeft ==
  \A j \in Accepted : job[j].attempts < MaxAttempts + retries[j]

AttemptsInv == AttemptsBounded /\ WaitingHasAttemptLeft

LEMMA AttemptsStep ==
  TypeOK /\ IdsHandedOut /\ AttemptsInv /\ [Next]_vars => AttemptsInv'
<1> SUFFICES ASSUME TypeOK, IdsHandedOut, AttemptsInv, [Next]_vars, NEW j \in JobIds
             PROVE  /\ job'[j].attempts <= MaxAttempts + retries'[j]
                    /\ job'[j].status = "accepted" =>
                         job'[j].attempts < MaxAttempts + retries'[j]
  BY DEF AttemptsInv, AttemptsBounded, WaitingHasAttemptLeft, Accepted
<1>1. /\ job[j].attempts \in Nat /\ retries[j] \in Nat /\ MaxAttempts \in Nat \ {0}
      /\ job[j].attempts <= MaxAttempts + retries[j]
      /\ job[j].status = "accepted" => job[j].attempts < MaxAttempts + retries[j]
  BY QueueAssumption
  DEF TypeOK, Rows, AttemptsInv, AttemptsBounded, WaitingHasAttemptLeft, Accepted
<1>2. job[j].status = "absent" => job[j].attempts = 0
  BY DEF IdsHandedOut, UnusedRow
<1>3. RowStep(j)
  BY RowSteps
<1>4. QED
  BY <1>1, <1>2, <1>3 DEF RowStep, Statuses

\* Claims of one row never exceed MaxAttempts plus the retries asked for.
THEOREM AttemptsStayBounded == Spec => []AttemptsBounded
<1>1. Init => AttemptsInv
  BY QueueAssumption
  DEF Init, UnusedRow, AttemptsInv, AttemptsBounded, WaitingHasAttemptLeft, Accepted
<1>2. AttemptsInv => AttemptsBounded
  BY DEF AttemptsInv
<1>3. QED
  BY <1>1, <1>2, AttemptsStep, TypeCorrect, PTL DEF Spec

-----------------------------------------------------------------------------
(* Idempotent intake.                                                      *)

\* Of two rows of one identity the earlier is gone: the unique index.
ReplacedOnlyAfterDeletion ==
  \A j, k \in JobIds :
    ( /\ j < k /\ k < nextId
      /\ job[j].request.project = job[k].request.project
      /\ job[j].request.key = job[k].request.key ) => job[j].status = "deleted"

\* Answers name rows that were inserted, and what was inserted in them.
ReceiptsNameRows == \A r \in receipts : r.job < nextId

IntakeInv == ReplacedOnlyAfterDeletion /\ ReceiptsNameRows /\ ReceiptsHonest

\* Only CreateJob takes an id; no action rewrites what a submitter sent.
LEMMA RequestsKept ==
  ASSUME TypeOK, IdsHandedOut, [Next]_vars
  PROVE  \/ \E s \in Submitters : CreateJob(s)
         \/ nextId' = nextId /\ \A j \in JobIds : job'[j].request = job[j].request
<1> USE DEF TypeOK
<1>1. ASSUME NEW s \in Submitters, SubmitSteps(s), ~CreateJob(s)
      PROVE  nextId' = nextId /\ job' = job
  BY <1>1
  DEF SubmitSteps, AnswerFromExisting, FindNothing, PassBackpressure, RejectByBackpressure,
      CreateFails, table
<1>2. ASSUME NEW w \in Workers, ClaimNext(w) \/ Ingest(w) \/ Settle(w) \/ Abandon(w)
      PROVE  nextId' = nextId /\ \A j \in JobIds : job'[j].request = job[j].request
  <2>1. CASE ClaimNext(w)
    BY <2>1 DEF ClaimNext, Rows
  <2>2. CASE Ingest(w) \/ Abandon(w)
    BY <2>2 DEF Ingest, IngestSucceeds, IngestFails, Abandon, table
  <2>3. CASE Settle(w)
    BY <2>3, BusyWorker DEF Settle, MarkCompleted, MarkFailed, Rows
  <2>4. QED
    BY <1>2, <2>1, <2>2, <2>3
<1>3. ASSUME (\E k \in JobIds : GrowOverdue(k)) \/ RecoverStale
      PROVE  nextId' = nextId /\ \A j \in JobIds : job'[j].request = job[j].request
  BY <1>3 DEF GrowOverdue, RecoverStale, Recovered, Rows
<1>4. ASSUME NEW a \in Admins, AdminSteps(a)
      PROVE  nextId' = nextId /\ \A j \in JobIds : job'[j].request = job[j].request
  BY <1>4, BusyAdmin DEF AdminSteps, ReadForRetry, ReadForCancel, Retry, CancelQueued, table, Rows
<1>5. ASSUME DeleteCompletedJobs \/ DeleteScans
      PROVE  nextId' = nextId /\ \A j \in JobIds : job'[j].request = job[j].request
  <2>1. CASE DeleteCompletedJobs
    BY <2>1 DEF DeleteCompletedJobs, Rows
  <2>2. CASE DeleteScans
    BY <2>2 DEF DeleteScans, Rows
  <2>3. QED
    BY <1>5, <2>1, <2>2
<1>6. ASSUME UNCHANGED vars PROVE nextId' = nextId /\ job' = job
  BY <1>6 DEF vars
<1>7. QED
  BY <1>1, <1>2, <1>3, <1>4, <1>5, <1>6 DEF Next

\* A new receipt names a row that holds the request it answers.
LEMMA ReceiptsGrow ==
  ASSUME TypeOK, IdsHandedOut, [Next]_vars, ~(\E s \in Submitters : CreateJob(s)),
         NEW r \in receipts', r \notin receipts
  PROVE  r.job \in JobIds /\ r.job < nextId /\ job[r.job].request = r.request
<1>1. PICK s \in Submitters, q \in Requests : AnswerFromExisting(s, q)
  BY RequestType, ZenonT(60)
  DEF Next, SubmitSteps, FindNothing, PassBackpressure, RejectByBackpressure, CreateFails,
      ClaimNext, Ingest, IngestSucceeds, IngestFails, Settle, MarkCompleted, MarkFailed, Abandon,
      GrowOverdue, RecoverStale, AdminSteps, ReadForRetry, ReadForCancel, Retry, CancelQueued,
      DeleteCompletedJobs, DeleteScans, table, history, vars
<1>2. PICK j \in SameIdentity(q) : job[j].request.hash = q.hash /\ r = [job |-> j, request |-> q]
  BY <1>1 DEF AnswerFromExisting
<1>3. j \in JobIds /\ j < nextId /\ job[j].request \in Requests
  BY <1>2 DEF SameIdentity, Present, IdsHandedOut, UnusedRow, Statuses
<1>4. job[j].request = q
  BY <1>2, <1>3 DEF SameIdentity, Requests
<1>5. QED
  BY <1>2, <1>3, <1>4

LEMMA IntakeStep ==
  TypeOK /\ IdsHandedOut /\ IntakeInv /\ [Next]_vars => IntakeInv'
<1> SUFFICES ASSUME TypeOK, IdsHandedOut, IntakeInv, [Next]_vars PROVE IntakeInv'
  OBVIOUS
<1>1. \A j \in JobIds : job[j].status = "deleted" => job'[j].status = "deleted"
  BY RowSteps DEF RowStep, Statuses
<1>2. ASSUME NEW s \in Submitters, CreateJob(s) PROVE IntakeInv'
  <2>1. /\ nextId \in JobIds /\ nextId' = nextId + 1
        /\ SameIdentity(submitter[s].request) = {}
        /\ receipts' = receipts \cup {[job |-> nextId, request |-> submitter[s].request]}
    BY <1>2 DEF CreateJob
  <2>2. job'[nextId].request = submitter[s].request
    BY <1>2 DEF CreateJob, TypeOK, Rows
  <2>3. \A j \in JobIds : j # nextId => job'[j] = job[j]
    BY <1>2 DEF CreateJob, TypeOK
  <2>4. \A j \in JobIds :
          ( /\ j < nextId
            /\ job[j].request.project = submitter[s].request.project
            /\ job[j].request.key = submitter[s].request.key ) => job[j].status = "deleted"
    BY <2>1 DEF SameIdentity, Present, IdsHandedOut, TypeOK, Rows
  <2>5. ReplacedOnlyAfterDeletion'
    BY <2>1, <2>2, <2>3, <2>4 DEF IntakeInv, ReplacedOnlyAfterDeletion, JobIds
  <2>6. ReceiptsNameRows' /\ ReceiptsHonest'
    BY <2>1, <2>2, <2>3 DEF IntakeInv, ReceiptsNameRows, ReceiptsHonest, TypeOK, JobIds
  <2>7. QED
    BY <2>5, <2>6 DEF IntakeInv
<1>3. ASSUME ~(\E s \in Submitters : CreateJob(s)) PROVE IntakeInv'
  <2>1. nextId' = nextId /\ \A j \in JobIds : job'[j].request = job[j].request
    BY <1>3, RequestsKept
  <2>2. ReplacedOnlyAfterDeletion'
    BY <1>1, <2>1 DEF IntakeInv, ReplacedOnlyAfterDeletion
  <2>3. \A r \in receipts' : r.job \in JobIds /\ r.job < nextId /\ job[r.job].request = r.request
    BY <1>3, ReceiptsGrow DEF IntakeInv, ReceiptsNameRows, ReceiptsHonest, TypeOK
  <2>4. QED
    BY <2>1, <2>2, <2>3 DEF IntakeInv, ReceiptsNameRows, ReceiptsHonest
<1>4. QED
  BY <1>2, <1>3

\* However submissions interleave, no answer names a row with another payload,
\* and one identity is answered with a second row only after the first is gone.
THEOREM IntakeIsIdempotent == Spec => [](IdempotentIntake /\ ReceiptsHonest)
<1>1. Init => IntakeInv
  BY DEF Init, IntakeInv, ReplacedOnlyAfterDeletion, ReceiptsNameRows, ReceiptsHonest, JobIds
<1>2. TypeOK /\ IntakeInv => IdempotentIntake /\ ReceiptsHonest
  BY DEF TypeOK, IntakeInv, ReplacedOnlyAfterDeletion, ReceiptsNameRows, ReceiptsHonest,
         IdempotentIntake
<1>3. QED
  BY <1>1, <1>2, IntakeStep, TypeCorrect, PTL DEF Spec

\* An answer names a row of the table, which holds the payload that was submitted.
THEOREM AnswersAreHonest == Spec => []ReceiptsHonest
BY IntakeIsIdempotent, PTL

-----------------------------------------------------------------------------
(* Claims, and what has been ingested.                                     *)

\* The attempt that a worker holds has been counted in the row.
ClaimsCounted ==
  \A w \in Workers :
    worker[w].pc # "idle" => worker[w].attempt <= job[worker[w].job].attempts

\* A row is reported completed, and later deleted, only once its scan exists.
NothingDropped ==
  \A j \in JobIds : job[j].status \in {"completed", "deleted"} => j \in ingested

\* A worker about to report success has ingested its row.
SuccessIsIngested ==
  \A w \in Workers : worker[w].pc = "succeeded" => worker[w].job \in ingested

WorkInv == ClaimsCounted /\ ClaimsDistinct /\ SuccessIsIngested /\ NothingDropped

\* A step other than a claim gives no worker a row or an attempt it has not.
KeepsClaim(v) ==
  \/ worker'[v].pc = "idle"
  \/ /\ worker[v].pc # "idle"
     /\ worker'[v].job = worker[v].job /\ worker'[v].attempt = worker[v].attempt
     /\ worker'[v].pc = "succeeded" =>
          worker[v].pc = "succeeded" \/ worker[v].job \in ingested'

\* What has been ingested stays ingested.
LEMMA IngestedGrows == [Next]_vars => ingested \subseteq ingested'
BY ZenonT(60) DEF Next, SubmitSteps, AnswerFromExisting, FindNothing, PassBackpressure,
       RejectByBackpressure, CreateJob, CreateFails, ClaimNext, Ingest, IngestSucceeds,
       IngestFails, Settle, MarkCompleted, MarkFailed, Abandon, GrowOverdue, RecoverStale,
       AdminSteps, ReadForRetry, ReadForCancel, Retry, CancelQueued, DeleteCompletedJobs,
       DeleteScans, history, vars

LEMMA OthersClaimNothing ==
  ASSUME TypeOK, [Next]_vars, ~(\E w \in Workers : ClaimNext(w)), NEW v \in Workers
  PROVE  KeepsClaim(v)
<1> USE DEF KeepsClaim
<1>1. worker \in [Workers -> WorkerStates]
  BY DEF TypeOK
<1>2. ASSUME NEW w \in Workers, Ingest(w) PROVE KeepsClaim(v)
  BY <1>1, <1>2 DEF Ingest, IngestSucceeds, IngestFails, WorkerStates, IdleWorker, history
<1>3. ASSUME NEW w \in Workers, Settle(w) \/ Abandon(w)
      PROVE  KeepsClaim(v)
  BY <1>1, <1>3
  DEF Settle, MarkCompleted, MarkFailed, Abandon, WorkerStates, IdleWorker, history
<1>4. ASSUME worker' = worker
      PROVE  KeepsClaim(v)
  BY <1>4
<1>5. QED
  BY <1>2, <1>3, <1>4, ZenonT(60)
  DEF Next, SubmitSteps, AnswerFromExisting, FindNothing, PassBackpressure,
      RejectByBackpressure, CreateJob, CreateFails, GrowOverdue, RecoverStale, AdminSteps,
      ReadForRetry, ReadForCancel, Retry, CancelQueued, DeleteCompletedJobs, DeleteScans,
      table, history, vars

LEMMA WorkStep ==
  TypeOK /\ IdsHandedOut /\ WorkInv /\ [Next]_vars => WorkInv'
<1> SUFFICES ASSUME TypeOK, IdsHandedOut, WorkInv, [Next]_vars PROVE WorkInv'
  OBVIOUS
<1>1. \A j \in JobIds : /\ job[j].attempts \in Nat
                        /\ job'[j].attempts \in Nat
                        /\ job[j].attempts <= job'[j].attempts
  BY RowSteps DEF RowStep, TypeOK, Rows
<1>2. \A v \in Workers : worker[v].pc # "idle" =>
        worker[v].job \in JobIds /\ worker[v].attempt \in Nat
  BY BusyWorker
<1>3. ASSUME NEW w \in Workers, ClaimNext(w) PROVE WorkInv'
  <2>1. PICK j \in JobIds :
          /\ job' = [job EXCEPT ![j].status = "running", ![j].attempts = @ + 1]
          /\ worker' = [worker EXCEPT ![w] =
               [pc |-> "ingesting", job |-> j, attempt |-> job[j].attempts + 1]]
    BY <1>3 DEF ClaimNext
  <2>2. job'[j].attempts = job[j].attempts + 1 /\ job'[j].status = "running"
    BY <2>1 DEF TypeOK, Rows
  <2>3. \A v \in Workers :
          worker'[v] = IF v = w THEN [pc |-> "ingesting", job |-> j, attempt |-> job[j].attempts + 1]
                                ELSE worker[v]
    BY <2>1 DEF TypeOK
  <2>4. ClaimsCounted'
    BY <1>1, <1>2, <2>2, <2>3 DEF WorkInv, ClaimsCounted
  <2>5. ClaimsDistinct'
    BY <1>1, <1>2, <2>2, <2>3 DEF WorkInv, ClaimsCounted, ClaimsDistinct
  <2>6. ingested' = ingested
    BY <1>3 DEF ClaimNext, history
  <2>7. SuccessIsIngested'
    BY <2>3, <2>6 DEF WorkInv, SuccessIsIngested
  <2>8. \A k \in JobIds : job'[k].status \in {"completed", "deleted"} => job'[k].status = job[k].status
    BY <2>1, <2>2 DEF TypeOK
  <2>9. QED
    BY <2>4, <2>5, <2>6, <2>7, <2>8 DEF WorkInv, NothingDropped
<1>4. ASSUME ~(\E w \in Workers : ClaimNext(w)) PROVE WorkInv'
  <2>1. \A v \in Workers : KeepsClaim(v)
    BY <1>4, OthersClaimNothing
  <2>2. ingested \subseteq ingested'
    BY IngestedGrows
  <2>3. ClaimsCounted' /\ ClaimsDistinct'
    BY <1>1, <1>2, <2>1 DEF WorkInv, ClaimsCounted, ClaimsDistinct, KeepsClaim
  <2>4. SuccessIsIngested'
    BY <2>1, <2>2 DEF WorkInv, SuccessIsIngested, KeepsClaim
  <2>5. NothingDropped'
    <3>1. ASSUME NEW j \in JobIds, job'[j].status \in {"completed", "deleted"}
          PROVE  j \in ingested
      BY <3>1, RowSteps DEF RowStep, WorkInv, NothingDropped, SuccessIsIngested
    <3>2. QED
      BY <2>2, <3>1 DEF NothingDropped
  <2>6. QED
    BY <2>3, <2>4, <2>5 DEF WorkInv
<1>5. QED
  BY <1>3, <1>4

\* Two claims of one row are told apart by their attempt, and a row is
\* completed or deleted only after an Ingest of it has succeeded.
THEOREM ClaimsAreDistinctAndNothingDropped == Spec => [](ClaimsDistinct /\ NothingDropped)
<1>1. Init => WorkInv
  BY DEF Init, WorkInv, ClaimsCounted, ClaimsDistinct, SuccessIsIngested, NothingDropped,
         IdleWorker, UnusedRow
<1>2. WorkInv => ClaimsDistinct /\ NothingDropped
  BY DEF WorkInv
<1>3. QED
  BY <1>1, <1>2, WorkStep, TypeCorrect, PTL DEF Spec

-----------------------------------------------------------------------------
(* Links from rows to scans.                                               *)

\* A worker about to link a scan to its row has inserted it, and retention has
\* not deleted it since.
SuccessHasScan ==
  \A w \in Workers :
    worker[w].pc = "succeeded" => <<worker[w].job, worker[w].attempt>> \in scans

LinkInv == LinkedScanExists /\ SuccessHasScan

\* A step that keeps all links and scans, and gives no worker a new success.
KeepsLinks ==
  /\ \A j \in JobIds : job'[j].scan = job[j].scan
  /\ scans \subseteq scans'
  /\ \A v \in Workers : worker'[v].pc = "succeeded" =>
        worker'[v] = worker[v] \/ <<worker'[v].job, worker'[v].attempt>> \in scans'

LEMMA OthersKeepLinks ==
  ASSUME TypeOK, [Next]_vars, ~DeleteScans, ~(\E w \in Workers : MarkCompleted(w))
  PROVE  KeepsLinks
<1> USE DEF KeepsLinks
<1>0. job \in [JobIds -> Rows] /\ worker \in [Workers -> WorkerStates]
  BY DEF TypeOK
<1>1. ASSUME NEW s \in Submitters, SubmitSteps(s) PROVE KeepsLinks
  <2>1. CASE CreateJob(s)
    BY <1>0, <2>1 DEF CreateJob, Rows
  <2>2. CASE ~CreateJob(s)
    BY <1>1, <2>2
    DEF SubmitSteps, AnswerFromExisting, FindNothing, PassBackpressure, RejectByBackpressure,
        CreateFails, table
  <2>3. QED
    BY <2>1, <2>2
<1>2. ASSUME NEW w \in Workers, ClaimNext(w) PROVE KeepsLinks
  BY <1>0, <1>2 DEF ClaimNext, Rows
<1>3. ASSUME NEW w \in Workers, Ingest(w) PROVE KeepsLinks
  <2>1. CASE IngestSucceeds(w)
    <3>1. /\ \A v \in Workers : v # w => worker'[v] = worker[v]
          /\ worker'[w].job = worker[w].job /\ worker'[w].attempt = worker[w].attempt
      BY <1>0, <2>1, BusyWorker DEF IngestSucceeds, WorkerStates, IdleWorker
    <3>2. QED
      BY <2>1, <3>1 DEF IngestSucceeds
  <2>2. CASE IngestFails(w)
    BY <1>0, <2>2 DEF IngestFails, WorkerStates, IdleWorker
  <2>3. QED
    BY <1>3, <2>1, <2>2 DEF Ingest
<1>4. ASSUME NEW w \in Workers, MarkFailed(w) \/ Abandon(w) PROVE KeepsLinks
  <2>1. CASE MarkFailed(w)
    BY <1>0, <2>1, BusyWorker DEF MarkFailed, Rows, IdleWorker
  <2>2. CASE Abandon(w)
    BY <1>0, <2>2 DEF Abandon, IdleWorker, table
  <2>3. QED
    BY <1>4, <2>1, <2>2
<1>5. ASSUME (\E k \in JobIds : GrowOverdue(k)) \/ RecoverStale \/ DeleteCompletedJobs
      PROVE  KeepsLinks
  <2>1. CASE \E k \in JobIds : GrowOverdue(k)
    BY <2>1 DEF GrowOverdue
  <2>2. CASE RecoverStale
    BY <1>0, <2>2 DEF RecoverStale, Recovered, Rows
  <2>3. CASE DeleteCompletedJobs
    BY <1>0, <2>3 DEF DeleteCompletedJobs, Rows
  <2>4. QED
    BY <1>5, <2>1, <2>2, <2>3
<1>6. ASSUME NEW a \in Admins, AdminSteps(a) PROVE KeepsLinks
  BY <1>0, <1>6, BusyAdmin
  DEF AdminSteps, ReadForRetry, ReadForCancel, Retry, CancelQueued, table, Rows
<1>7. ASSUME UNCHANGED vars PROVE KeepsLinks
  BY <1>7 DEF vars
<1>8. QED
  BY <1>1, <1>2, <1>3, <1>4, <1>5, <1>6, <1>7 DEF Next, Settle

LEMMA LinkStep == TypeOK /\ LinkInv /\ [Next]_vars => LinkInv'
<1> SUFFICES ASSUME TypeOK, LinkInv, [Next]_vars PROVE LinkInv'
  OBVIOUS
<1> USE DEF LinkInv, LinkedScanExists, SuccessHasScan
<1>0. job \in [JobIds -> Rows] /\ worker \in [Workers -> WorkerStates]
  BY DEF TypeOK
<1>1. CASE KeepsLinks
  BY <1>1 DEF KeepsLinks
<1>2. ASSUME NEW w \in Workers, MarkCompleted(w) PROVE LinkInv'
  <2>1. <<worker[w].job, worker[w].attempt>> \in scans /\ worker[w].job \in JobIds
    BY <1>2, BusyWorker DEF MarkCompleted
  <2>2. scans' = scans /\ \A v \in Workers : worker'[v] = worker[v] \/ worker'[v].pc = "idle"
    BY <1>0, <1>2 DEF MarkCompleted, IdleWorker
  <2>3. \A j \in JobIds :
          \/ job'[j].scan = job[j].scan
          \/ j = worker[w].job /\ job'[j].scan = worker[w].attempt
    <3>1. CASE Present(worker[w].job)
      <4>1. job' = [job EXCEPT ![worker[w].job].status = "completed",
                               ![worker[w].job].scan = worker[w].attempt]
        BY <1>2, <3>1 DEF MarkCompleted
      <4>2. QED
        BY <1>0, <2>1, <4>1 DEF Rows
    <3>2. CASE ~Present(worker[w].job)
      BY <1>2, <3>2 DEF MarkCompleted
    <3>3. QED
      BY <3>1, <3>2
  <2>4. QED
    BY <2>1, <2>2, <2>3
<1>3. CASE DeleteScans
  <2>1. PICK S \in SUBSET SettledScans :
          /\ scans' = scans \ S
          /\ job' = [j \in JobIds |-> IF <<j, job[j].scan>> \in S
                                      THEN [job[j] EXCEPT !.scan = 0] ELSE job[j]]
    BY <1>3 DEF DeleteScans
  <2>2. LinkedScanExists'
    BY <1>0, <2>1 DEF Rows
  <2>3. SuccessHasScan'
    BY <1>3, <2>1 DEF DeleteScans, SettledScans
  <2>4. QED
    BY <2>2, <2>3
<1>4. QED
  BY <1>1, <1>2, <1>3, OthersKeepLinks

\* The scan_id of a row never dangles: not when a late worker completes a row
\* that was settled before, nor when retention deletes jobs and scans.
THEOREM LinksAreGood == Spec => []LinkedScanExists
<1>1. Init => LinkInv
  BY DEF Init, LinkInv, LinkedScanExists, SuccessHasScan, IdleWorker, UnusedRow
<1>2. LinkInv => LinkedScanExists
  BY DEF LinkInv
<1>3. QED
  BY <1>1, <1>2, LinkStep, TypeCorrect, PTL DEF Spec

-----------------------------------------------------------------------------
(* The queue implements DurableJob.                                        *)

\* Until recovery or an administrator puts a row back, the worker that claimed
\* it is the only one that holds it, and the row is running.
HeldUnlessLost ==
  \A v \in Workers :
    (worker[v].pc # "idle" /\ worker[v].job \notin lost) =>
      /\ job[worker[v].job].status = "running"
      /\ \A w \in Workers \ {v} : worker[w].pc # "idle" => worker[w].job # worker[v].job

\* History speaks of rows that were inserted.
HistoryNamesRows == \A j \in ingested \cup lost : job[j].status # "absent"

HeldInv == HeldUnlessLost /\ HistoryNamesRows

\* What can happen to a row that nobody has put back.
UncontestedStep(j) ==
  LET before == job[j].status
      after == job'[j].status
  IN  \/ after = before
      \/ before = "absent" /\ after = "accepted"
      \/ before = "accepted" /\ after \in {"running", "cancelled"}
      \/ before = "completed" /\ after = "deleted"
      \/ \E w \in Workers :
           /\ worker[w].job = j /\ worker'[w].pc = "idle"
           /\ \/ worker[w].pc = "succeeded" /\ after = "completed"
              \/ worker[w].pc = "erred" /\ after = "failed"

LEMMA LostGrows == [Next]_vars => lost \subseteq lost'
BY ZenonT(60) DEF Next, SubmitSteps, AnswerFromExisting, FindNothing, PassBackpressure,
       RejectByBackpressure, CreateJob, CreateFails, ClaimNext, Ingest, IngestSucceeds,
       IngestFails, Settle, MarkCompleted, MarkFailed, Abandon, GrowOverdue, RecoverStale,
       AdminSteps, ReadForRetry, ReadForCancel, Retry, CancelQueued, DeleteCompletedJobs,
       DeleteScans, history, vars

LEMMA UncontestedSteps ==
  ASSUME TypeOK, IdsHandedOut, [Next]_vars, NEW j \in JobIds, j \notin lost'
  PROVE  UncontestedStep(j)
<1> USE DEF UncontestedStep
<1>0. job \in [JobIds -> Rows] /\ worker \in [Workers -> WorkerStates]
  BY DEF TypeOK
<1>1. ASSUME NEW s \in Submitters, SubmitSteps(s) PROVE UncontestedStep(j)
  <2>1. ASSUME CreateJob(s) PROVE UncontestedStep(j)
    BY <1>0, <2>1, QueueAssumption DEF CreateJob, IdsHandedOut, UnusedRow, JobIds, Rows, TypeOK
  <2>2. QED
    BY <1>1, <2>1
    DEF SubmitSteps, AnswerFromExisting, FindNothing, PassBackpressure, RejectByBackpressure,
        CreateFails, table
<1>2. ASSUME NEW w \in Workers, ClaimNext(w) PROVE UncontestedStep(j)
  BY <1>0, <1>2 DEF ClaimNext, IsOldestAccepted, Accepted, Rows
<1>3. ASSUME NEW w \in Workers, Ingest(w) \/ Abandon(w) PROVE UncontestedStep(j)
  BY <1>3 DEF Ingest, IngestSucceeds, IngestFails, Abandon, table
<1>4. ASSUME NEW w \in Workers, Settle(w) PROVE UncontestedStep(j)
  <2>1. worker'[w].pc = "idle"
    BY <1>0, <1>4 DEF Settle, MarkCompleted, MarkFailed, IdleWorker
  <2>2. QED
    BY <1>0, <1>4, <2>1, BusyWorker DEF Settle, MarkCompleted, MarkFailed, Rows
<1>5. ASSUME NEW k \in JobIds, GrowOverdue(k) PROVE UncontestedStep(j)
  BY <1>5 DEF GrowOverdue
<1>6. ASSUME RecoverStale PROVE UncontestedStep(j)
  BY <1>0, <1>6 DEF RecoverStale
<1>7. ASSUME NEW a \in Admins, AdminSteps(a) PROVE UncontestedStep(j)
  <2>1. ASSUME Retry(a) PROVE UncontestedStep(j)
    BY <1>0, <2>1, BusyAdmin DEF Retry
  <2>2. ASSUME CancelQueued(a) PROVE UncontestedStep(j)
    BY <1>0, <2>2, BusyAdmin DEF CancelQueued, Accepted, Rows
  <2>3. QED
    BY <1>7, <2>1, <2>2 DEF AdminSteps, ReadForRetry, ReadForCancel, table
<1>8. ASSUME DeleteCompletedJobs PROVE UncontestedStep(j)
  BY <1>0, <1>8 DEF DeleteCompletedJobs, Rows
<1>9. ASSUME DeleteScans PROVE UncontestedStep(j)
  BY <1>0, <1>9 DEF DeleteScans, Rows
<1>10. ASSUME UNCHANGED vars PROVE UncontestedStep(j)
  BY <1>10 DEF vars
<1>11. QED
  BY <1>1, <1>2, <1>3, <1>4, <1>5, <1>6, <1>7, <1>8, <1>9, <1>10 DEF Next

\* A worker holds a row of the table, so its ingest names a row that exists.
LEMMA NewHistory ==
  ASSUME TypeOK, IdsHandedOut, HeldInv, [Next]_vars
  PROVE  \A j \in (ingested' \cup lost') : job'[j].status # "absent"
<1>1. \A j \in JobIds : job[j].status # "absent" => job'[j].status # "absent"
  BY RowSteps DEF RowStep, Statuses
<1>2. ingested' \subseteq JobIds /\ lost' \subseteq JobIds
  BY TypeStep DEF TypeOK
<1>3. \A j \in ingested \cup lost : job[j].status # "absent"
  BY DEF HeldInv, HistoryNamesRows
<1>4. ASSUME NEW w \in Workers, IngestSucceeds(w)
      PROVE  \A j \in (ingested' \cup lost') \ (ingested \cup lost) : job[j].status # "absent"
  BY <1>4 DEF IngestSucceeds, HeldInv, HeldUnlessLost, HistoryNamesRows
<1>5. ASSUME RecoverStale
      PROVE  \A j \in (ingested' \cup lost') \ (ingested \cup lost) : job[j].status # "absent"
  BY <1>5 DEF RecoverStale, TypeOK, Running
<1>6. ASSUME NEW a \in Admins, Retry(a)
      PROVE  \A j \in (ingested' \cup lost') \ (ingested \cup lost) : job[j].status # "absent"
  BY <1>6 DEF Retry, Present, Statuses
<1>7. ASSUME ingested' = ingested, lost' = lost
      PROVE  \A j \in (ingested' \cup lost') \ (ingested \cup lost) : job[j].status # "absent"
  BY <1>7
<1>8. \A j \in (ingested' \cup lost') \ (ingested \cup lost) : job[j].status # "absent"
  BY <1>4, <1>5, <1>6, <1>7, ZenonT(60)
  DEF Next, SubmitSteps, AnswerFromExisting, FindNothing, PassBackpressure,
      RejectByBackpressure, CreateJob, CreateFails, ClaimNext, Ingest, IngestFails, Settle,
      MarkCompleted, MarkFailed, Abandon, GrowOverdue, AdminSteps, ReadForRetry, ReadForCancel,
      CancelQueued, DeleteCompletedJobs, DeleteScans, history, vars
<1>9. QED
  BY <1>1, <1>2, <1>3, <1>8

LEMMA HeldStep ==
  TypeOK /\ IdsHandedOut /\ HeldInv /\ [Next]_vars => HeldInv'
<1> SUFFICES ASSUME TypeOK, IdsHandedOut, HeldInv, [Next]_vars PROVE HeldUnlessLost'
  BY NewHistory DEF HeldInv, HistoryNamesRows
<1>1. \A v \in Workers : worker[v].pc # "idle" => worker[v].job \in JobIds
  BY BusyWorker
<1>2. \A v \in Workers :
        (worker[v].pc # "idle" /\ worker[v].job \notin lost) =>
          /\ job[worker[v].job].status = "running"
          /\ \A w \in Workers \ {v} : worker[w].pc # "idle" => worker[w].job # worker[v].job
  BY DEF HeldInv, HeldUnlessLost
<1>3. ASSUME NEW w \in Workers, ClaimNext(w) PROVE HeldUnlessLost'
  <2>1. PICK j \in JobIds :
          /\ job[j].status = "accepted"
          /\ job' = [job EXCEPT ![j].status = "running", ![j].attempts = @ + 1]
          /\ worker' = [worker EXCEPT ![w] =
               [pc |-> "ingesting", job |-> j, attempt |-> job[j].attempts + 1]]
    BY <1>3 DEF ClaimNext, IsOldestAccepted, Accepted
  <2>2. job'[j].status = "running" /\ \A k \in JobIds : k # j => job'[k] = job[k]
    BY <2>1 DEF TypeOK, Rows
  <2>3. \A v \in Workers :
          IF v = w THEN worker'[v].job = j ELSE worker'[v] = worker[v]
    BY <2>1 DEF TypeOK
  <2>4. lost' = lost
    BY <1>3 DEF ClaimNext, history
  <2>5. \A v \in Workers : worker[v].pc # "idle" /\ worker[v].job = j => j \in lost
    BY <1>2, <2>1
  <2>6. QED
    BY <1>1, <1>2, <2>2, <2>3, <2>4, <2>5 DEF HeldUnlessLost
<1>4. ASSUME ~(\E w \in Workers : ClaimNext(w)) PROVE HeldUnlessLost'
  <2>1. \A v \in Workers : KeepsClaim(v)
    BY <1>4, OthersClaimNothing
  <2>2. SUFFICES ASSUME NEW v \in Workers, worker'[v].pc # "idle", worker'[v].job \notin lost'
        PROVE  /\ job'[worker'[v].job].status = "running"
               /\ \A w \in Workers \ {v} :
                    worker'[w].pc # "idle" => worker'[w].job # worker'[v].job
    BY DEF HeldUnlessLost
  <2>3. /\ worker[v].pc # "idle" /\ worker[v].job = worker'[v].job
        /\ worker[v].job \in JobIds /\ worker[v].job \notin lost
    BY <1>1, <2>1, <2>2, LostGrows DEF KeepsClaim
  <2>4. UncontestedStep(worker[v].job)
    BY <2>2, <2>3, UncontestedSteps
  <2>5. job[worker[v].job].status = "running"
    BY <1>2, <2>3
  <2>6. \A w \in Workers \ {v} : worker[w].pc # "idle" => worker[w].job # worker[v].job
    BY <1>2, <2>3
  <2>7. job'[worker[v].job].status = "running"
    BY <2>2, <2>4, <2>5, <2>6 DEF UncontestedStep
  <2>8. QED
    BY <2>1, <2>3, <2>6, <2>7 DEF KeepsClaim
<1>5. QED
  BY <1>3, <1>4

LEMMA PromiseStep ==
  TypeOK /\ IdsHandedOut /\ WorkInv /\ HeldInv /\ [Next]_vars => Promise!Next
<1> SUFFICES ASSUME TypeOK, IdsHandedOut, WorkInv, HeldInv, [Next]_vars PROVE Promise!Next
  OBVIOUS
<1>1. TypeOK' /\ HeldInv'
  BY TypeStep, HeldStep
<1>2. \A j \in JobIds : job[j].status \in Statuses \cup {"absent", "deleted"}
                        /\ job'[j].status \in Statuses \cup {"absent", "deleted"}
  BY <1>1 DEF TypeOK, Rows
<1>3. Phase' \in [JobIds -> Promise!Phases]
  BY <1>2 DEF Phase, Statuses, Promise!Phases, Promise!PresentPhases
<1>4. ASSUME NEW j \in JobIds PROVE Promise!JobStep(j)
  <2>1. RowStep(j)
    BY RowSteps
  <2>2. \A w \in Workers : worker[w].pc = "succeeded" => worker[w].job \in ingested
    BY DEF WorkInv, SuccessIsIngested
  <2>3. CASE j \in lost'
    BY <1>2, <2>1, <2>2, <2>3
    DEF RowStep, Phase, Statuses, Promise!JobStep, Promise!Submit, Promise!GiveUp,
        Promise!SettleAgain, Promise!Delete, Promise!PresentPhases
  <2>4. CASE j \notin lost'
    <3>1. UncontestedStep(j) /\ j \notin lost
      BY <2>4, UncontestedSteps, LostGrows
    <3>2. \A w \in Workers : worker[w].pc # "idle" /\ worker[w].job = j =>
                               job[j].status = "running"
      BY <3>1 DEF HeldInv, HeldUnlessLost
    <3>3. QED
      BY <1>2, <2>2, <3>1, <3>2
      DEF UncontestedStep, Phase, Statuses, Promise!JobStep, Promise!Submit, Promise!Complete,
          Promise!GiveUp, Promise!Delete, Promise!PresentPhases
  <2>5. QED
    BY <2>3, <2>4
<1>5. /\ ingested' \subseteq {j \in JobIds : Phase'[j] # "absent"}
      /\ lost' \subseteq {j \in JobIds : Phase'[j] # "absent"}
  BY <1>1 DEF HeldInv, HistoryNamesRows, Phase, TypeOK
<1>6. QED
  BY <1>3, <1>4, <1>5, IngestedGrows, LostGrows DEF Promise!Next

\* The queue implements DurableJob: every step of every actor is one the
\* promise allows, with a row's claim and settlement as its phase.
THEOREM QueueKeepsPromise == Spec => KeepsPromise
<1>1. Init => WorkInv /\ HeldInv /\ Promise!Init
  BY DEF Init, WorkInv, ClaimsCounted, ClaimsDistinct, SuccessIsIngested, NothingDropped,
         HeldInv, HeldUnlessLost, HistoryNamesRows, IdleWorker, UnusedRow, Phase, Promise!Init
<1>2. Spec => [](TypeOK /\ IdsHandedOut /\ WorkInv /\ HeldInv)
  BY <1>1, TypeInit, TypeStep, IdsStep, WorkStep, HeldStep, PTL DEF Spec
<1>3. QED
  BY <1>1, <1>2, PromiseStep, PTL DEF Spec, KeepsPromise, Promise!Spec

-----------------------------------------------------------------------------
(* The backlog is bounded.  Lookup, check and insert of a submission are   *)
(* separate statements, so the submissions between the check and the       *)
(* insert are counted like rows.                                           *)

\* The rows of p that backpressure looks at.
Backlog(p) == OfProject(Accepted \cup Running, p)

Load(p) == Cardinality(Backlog(p)) + Cardinality(Admitted(p))

Limit == (MaxAccepted - 1) + (MaxRunning - 1) + Cardinality(Submitters)

LEMMA FiniteBacklog ==
  ASSUME NEW p
  PROVE  /\ IsFiniteSet(JobIds)
         /\ IsFiniteSet(OfProject(Accepted, p)) /\ IsFiniteSet(OfProject(Running, p))
         /\ IsFiniteSet(Backlog(p)) /\ IsFiniteSet(Admitted(p))
         /\ Cardinality(Backlog(p)) \in Nat /\ Cardinality(Admitted(p)) \in Nat
         /\ Cardinality(Submitters) \in Nat /\ Cardinality(Admitted(p)) <= Cardinality(Submitters)
<1>1. IsFiniteSet(JobIds)
  BY QueueAssumption, FS_Interval DEF JobIds
<1>2. /\ OfProject(Accepted, p) \in SUBSET JobIds /\ OfProject(Running, p) \in SUBSET JobIds
      /\ Backlog(p) \in SUBSET JobIds /\ Admitted(p) \in SUBSET Submitters
  BY DEF OfProject, Accepted, Running, Backlog, Admitted
<1>3. /\ IsFiniteSet(OfProject(Accepted, p)) /\ IsFiniteSet(OfProject(Running, p))
      /\ IsFiniteSet(Backlog(p))
  BY <1>1, <1>2, FS_Subset
<1>4. IsFiniteSet(Admitted(p)) /\ Cardinality(Admitted(p)) <= Cardinality(Submitters)
  BY <1>2, QueueAssumption, FS_Subset
<1>5. QED
  BY <1>1, <1>3, <1>4, QueueAssumption, FS_CardinalityType

\* A submission passes the check: the rows are below the limits.
LEMMA CheckedLoad ==
  ASSUME MaxAccepted > 0, MaxRunning > 0, NEW p, ~QueueFull(p)
  PROVE  Cardinality(Backlog(p)) <= (MaxAccepted - 1) + (MaxRunning - 1)
<1> DEFINE A == OfProject(Accepted, p)
           R == OfProject(Running, p)
<1>1. IsFiniteSet(A) /\ IsFiniteSet(R)
  BY FiniteBacklog
<1>2. Cardinality(A) \in Nat /\ Cardinality(R) \in Nat
  BY <1>1, FS_CardinalityType
<1>3. Cardinality(A) <= MaxAccepted - 1 /\ Cardinality(R) <= MaxRunning - 1
  BY <1>2, QueueAssumption DEF QueueFull, Reached
<1>4. Backlog(p) = A \cup R
  BY DEF Backlog, OfProject
<1>5. A \cap R \in SUBSET A
  OBVIOUS
<1>6. IsFiniteSet(A \cap R)
  BY <1>1, <1>5, FS_Subset
<1>7. Cardinality(A \cap R) \in Nat
  BY <1>6, FS_CardinalityType
<1>8. Cardinality(A \cup R) = Cardinality(A) + Cardinality(R) - Cardinality(A \cap R)
  BY <1>1, FS_Union
<1> HIDE DEF A, R
<1>9. QED
  BY <1>2, <1>3, <1>4, <1>7, <1>8, QueueAssumption

\* Administrative retries only add up.
LEMMA NoRetryBefore ==
  ASSUME TypeOK, IdsHandedOut, [Next]_vars, \A j \in JobIds : retries'[j] = 0
  PROVE  \A j \in JobIds : retries[j] = 0
<1>1. \A j \in JobIds : retries[j] \in Nat
  BY DEF TypeOK
<1>2. QED
  BY <1>1, RowSteps DEF RowStep

\* Without administrative retries a row enters the backlog only when it is
\* inserted.
LEMMA BacklogKept ==
  ASSUME TypeOK, IdsHandedOut, [Next]_vars, NEW p,
         \A j \in JobIds : retries'[j] = 0, ~(\E s \in Submitters : CreateJob(s))
  PROVE  Backlog(p)' \subseteq Backlog(p)
<1> SUFFICES ASSUME NEW j \in JobIds, job'[j].status \in {"accepted", "running"}
             PROVE  job[j].status \in {"accepted", "running"} /\ job'[j].request = job[j].request
  BY DEF Backlog, OfProject, Accepted, Running
<1>1. nextId' = nextId /\ job'[j].request = job[j].request
  BY RequestsKept
<1>2. IdsHandedOut'
  BY IdsStep
<1>3. retries[j] = 0 /\ retries'[j] = 0 /\ retries[j] \in Nat
  BY NoRetryBefore
<1>4. RowStep(j)
  BY RowSteps
<1>5. job[j].status # "absent"
  <2>1. j < nextId
    BY <1>1, <1>2 DEF IdsHandedOut, UnusedRow
  <2>2. QED
    BY <2>1 DEF IdsHandedOut
<1>6. QED
  BY <1>1, <1>3, <1>4, <1>5 DEF RowStep

\* Other submissions are admitted by PassBackpressure alone.
LEMMA AdmittedKept ==
  ASSUME TypeOK, [Next]_vars, NEW p, ~(\E s \in Submitters : PassBackpressure(s))
  PROVE  Admitted(p)' \subseteq Admitted(p)
<1> SUFFICES ASSUME NEW t \in Submitters, submitter'[t].pc = "admitted"
             PROVE  submitter'[t] = submitter[t]
  BY DEF Admitted
<1>1. submitter \in [Submitters -> SubmitterStates]
  BY DEF TypeOK
<1>2. ASSUME NEW s \in Submitters, SubmitSteps(s) PROVE submitter'[t] = submitter[t]
  <2>1. ASSUME NEW q, AnswerFromExisting(s, q) \/ FindNothing(s, q)
        PROVE  submitter'[t] = submitter[t]
    BY <1>1, <2>1 DEF AnswerFromExisting, FindNothing
  <2>2. CASE RejectByBackpressure(s) \/ CreateJob(s) \/ CreateFails(s)
    BY <1>1, <2>2 DEF RejectByBackpressure, CreateJob, CreateFails, IdleSubmitter
  <2>3. QED
    BY <1>2, <2>1, <2>2, Zenon DEF SubmitSteps
<1>3. ASSUME submitter' = submitter PROVE submitter'[t] = submitter[t]
  BY <1>3
<1>4. QED
  BY <1>2, <1>3, ZenonT(60)
  DEF Next, ClaimNext, Ingest, IngestSucceeds, IngestFails, Settle, MarkCompleted, MarkFailed,
      Abandon, GrowOverdue, RecoverStale, AdminSteps, ReadForRetry, ReadForCancel, Retry,
      CancelQueued, DeleteCompletedJobs, DeleteScans, vars

\* The set of rows and the set of submissions shrink: so does the load.
LEMMA LoadShrinks ==
  ASSUME NEW p, Backlog(p)' \subseteq Backlog(p), Admitted(p)' \subseteq Admitted(p)
  PROVE  Load(p)' <= Load(p)
<1>1. /\ IsFiniteSet(Backlog(p)) /\ IsFiniteSet(Admitted(p))
      /\ Cardinality(Backlog(p)) \in Nat /\ Cardinality(Admitted(p)) \in Nat
  BY FiniteBacklog
<1>2. /\ IsFiniteSet(Backlog(p)') /\ IsFiniteSet(Admitted(p)')
      /\ Cardinality(Backlog(p)') <= Cardinality(Backlog(p))
      /\ Cardinality(Admitted(p)') <= Cardinality(Admitted(p))
  BY <1>1, FS_Subset
<1>3. Cardinality(Backlog(p)') \in Nat /\ Cardinality(Admitted(p)') \in Nat
  BY <1>2, FS_CardinalityType
<1>4. QED
  BY <1>1, <1>2, <1>3 DEF Load

\* A set grows by at most one when an element is added.
LEMMA AddOne ==
  ASSUME NEW S, NEW x, IsFiniteSet(S)
  PROVE  IsFiniteSet(S \cup {x}) /\ Cardinality(S \cup {x}) <= Cardinality(S) + 1
<1> DEFINE T == S \cup {x}
<1>1. IsFiniteSet(T) /\ Cardinality(T) = IF x \in S THEN Cardinality(S) ELSE Cardinality(S) + 1
  BY FS_AddElement, Zenon
<1>2. Cardinality(S) \in Nat
  BY FS_CardinalityType
<1> HIDE DEF T
<1>3. IsFiniteSet(T) /\ Cardinality(T) <= Cardinality(S) + 1
  BY <1>1, <1>2
<1>4. QED
  BY <1>3 DEF T

\* An admitted submission becomes a row, which adds nothing to the load.
LEMMA CreateJobLoad ==
  ASSUME TypeOK, NEW s \in Submitters, CreateJob(s), NEW p
  PROVE  Load(p)' <= Load(p)
<1>1. /\ IsFiniteSet(Backlog(p)) /\ IsFiniteSet(Admitted(p))
      /\ Cardinality(Backlog(p)) \in Nat /\ Cardinality(Admitted(p)) \in Nat
  BY FiniteBacklog
<1>2. /\ submitter[s].pc = "admitted"
      /\ submitter' = [submitter EXCEPT ![s] = IdleSubmitter]
      /\ nextId \in JobIds
      /\ job' = [job EXCEPT ![nextId].status = "accepted",
                            ![nextId].request = submitter[s].request]
  BY DEF CreateJob
<1>3. \A j \in JobIds : j # nextId => job'[j] = job[j]
  BY <1>2 DEF TypeOK
<1>4. job'[nextId].request = submitter[s].request
  BY <1>2 DEF TypeOK, Rows
<1>5. \A t \in Submitters : submitter'[t] = IF t = s THEN IdleSubmitter ELSE submitter[t]
  BY <1>2 DEF TypeOK
<1>6. CASE submitter[s].request.project = p
  <2>1. s \in Admitted(p)
    BY <1>2, <1>6 DEF Admitted
  <2>2. Admitted(p)' = Admitted(p) \ {s}
    BY <1>5 DEF Admitted, IdleSubmitter
  <2>3. Cardinality(Admitted(p)') = Cardinality(Admitted(p)) - 1
    BY <1>1, <2>1, <2>2, FS_RemoveElement
  <2>4. Backlog(p)' \in SUBSET (Backlog(p) \cup {nextId})
    BY <1>3 DEF Backlog, OfProject, Accepted, Running
  <2>5. /\ IsFiniteSet(Backlog(p) \cup {nextId})
        /\ Cardinality(Backlog(p) \cup {nextId}) <= Cardinality(Backlog(p)) + 1
    BY <1>1, AddOne, Zenon
  <2>6. IsFiniteSet(Backlog(p)') /\ Cardinality(Backlog(p)') <= Cardinality(Backlog(p) \cup {nextId})
    BY <2>4, <2>5, FS_Subset
  <2>7. Cardinality(Backlog(p)') \in Nat /\ Cardinality(Backlog(p) \cup {nextId}) \in Nat
    BY <2>5, <2>6, FS_CardinalityType
  <2>8. QED
    BY <1>1, <2>3, <2>5, <2>6, <2>7 DEF Load
<1>7. CASE submitter[s].request.project # p
  <2>1. Backlog(p)' \subseteq Backlog(p)
    BY <1>3, <1>4, <1>7 DEF Backlog, OfProject, Accepted, Running
  <2>2. Admitted(p)' \subseteq Admitted(p)
    BY <1>5 DEF Admitted, IdleSubmitter
  <2>3. QED
    BY <2>1, <2>2, LoadShrinks
<1>8. QED
  BY <1>6, <1>7

\* Whoever passes the check finds the rows of its own project below the limits;
\* the other projects are left alone.
LEMMA PassLoad ==
  ASSUME TypeOK, NEW s \in Submitters, PassBackpressure(s), NEW p,
         MaxAccepted > 0, MaxRunning > 0
  PROVE  Load(p)' <= Limit \/ Load(p)' <= Load(p)
<1>1. Backlog(p)' = Backlog(p)
  BY DEF PassBackpressure, table, Backlog, OfProject, Accepted, Running
<1>2. submitter' = [submitter EXCEPT ![s].pc = "admitted"] /\ submitter[s].pc = "unseen"
  BY DEF PassBackpressure
<1>3. submitter[s] \in [pc : {"unseen", "admitted"}, request : Requests]
  BY <1>2 DEF TypeOK, SubmitterStates, IdleSubmitter
<1>4. CASE submitter[s].request.project = p
  <2>1. Cardinality(Backlog(p)) <= (MaxAccepted - 1) + (MaxRunning - 1)
    BY <1>4, CheckedLoad DEF PassBackpressure
  <2>2. Admitted(p)' \in SUBSET Submitters
    BY DEF Admitted
  <2>3. IsFiniteSet(Admitted(p)') /\ Cardinality(Admitted(p)') <= Cardinality(Submitters)
    BY <2>2, QueueAssumption, FS_Subset
  <2>4. Cardinality(Admitted(p)') \in Nat /\ Cardinality(Submitters) \in Nat
    BY <2>3, QueueAssumption, FS_CardinalityType
  <2>5. Cardinality(Backlog(p)) \in Nat
    BY FiniteBacklog
  <2>6. Load(p)' <= Limit
    BY <1>1, <2>1, <2>3, <2>4, <2>5, QueueAssumption DEF Load, Limit
  <2>7. QED
    BY <2>6
<1>5. CASE submitter[s].request.project # p
  <2>1. \A t \in Submitters : t # s => submitter'[t] = submitter[t]
    BY <1>2 DEF TypeOK
  <2>2. submitter'[s].request = submitter[s].request
    BY <1>2, <1>3 DEF TypeOK
  <2>3. Admitted(p)' \subseteq Admitted(p)
    BY <1>5, <2>1, <2>2 DEF Admitted
  <2>4. QED
    BY <1>1, <2>3, LoadShrinks
<1>6. QED
  BY <1>4, <1>5

LEMMA BacklogStep ==
  TypeOK /\ IdsHandedOut /\ BoundedBacklog /\ [Next]_vars => BoundedBacklog'
<1> SUFFICES ASSUME TypeOK, IdsHandedOut, BoundedBacklog, [Next]_vars,
                    MaxAccepted > 0, MaxRunning > 0, \A j \in JobIds : retries'[j] = 0,
                    NEW p \in Projects
             PROVE  Load(p)' <= Limit
  BY DEF BoundedBacklog, Load, Limit, Backlog
<1>1. Load(p) <= Limit
  BY NoRetryBefore DEF BoundedBacklog, Load, Limit, Backlog
<1>2. Load(p)' <= Load(p) \/ Load(p)' <= Limit
  <2>1. CASE \E s \in Submitters : CreateJob(s)
    BY <2>1, CreateJobLoad
  <2>2. CASE \E s \in Submitters : PassBackpressure(s)
    BY <2>2, PassLoad
  <2>3. CASE /\ ~(\E s \in Submitters : CreateJob(s))
             /\ ~(\E s \in Submitters : PassBackpressure(s))
    BY <2>3, BacklogKept, AdmittedKept, LoadShrinks
  <2>4. QED
    BY <2>1, <2>2, <2>3
<1>3. Load(p) \in Int /\ Limit \in Int
  BY FiniteBacklog, QueueAssumption DEF Load, Limit
<1>4. Load(p)' \in Int
  <2>1. /\ Backlog(p)' \in SUBSET JobIds /\ IsFiniteSet(JobIds)
        /\ Admitted(p)' \in SUBSET Submitters
    BY FiniteBacklog DEF Backlog, OfProject, Accepted, Running, Admitted
  <2>2. IsFiniteSet(Backlog(p)') /\ IsFiniteSet(Admitted(p)')
    BY <2>1, QueueAssumption, FS_Subset
  <2>3. QED
    BY <2>2, FS_CardinalityType DEF Load
<1>5. QED
  BY <1>1, <1>2, <1>3, <1>4

\* Backpressure holds up to the submissions in flight: with both limits set and
\* no administrative retries, the waiting and running rows of a project and the
\* submissions admitted for it never exceed the limits by more than the number
\* of submitters.
THEOREM BacklogStaysBounded == Spec => []BoundedBacklog
<1>1. Init => BoundedBacklog
  <2> SUFFICES ASSUME Init, MaxAccepted > 0, MaxRunning > 0, NEW p \in Projects
               PROVE  Load(p) <= Limit
    BY DEF BoundedBacklog, Load, Limit, Backlog
  <2>1. Backlog(p) = {} /\ Admitted(p) = {}
    BY DEF Init, Backlog, OfProject, Accepted, Running, Admitted, UnusedRow, IdleSubmitter
  <2>2. Load(p) = 0
    BY <2>1, FS_EmptySet DEF Load
  <2>3. Cardinality(Submitters) \in Nat
    BY FiniteBacklog
  <2>4. QED
    BY <2>2, <2>3, QueueAssumption DEF Limit
<1>2. QED
  BY <1>1, BacklogStep, TypeCorrect, PTL DEF Spec
===============================================================================
