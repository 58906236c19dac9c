------------------------------ MODULE ScanJobQueue ------------------------------
(***************************************************************************)
(* The durable scan queue: the scan_jobs table of PostgreSQL and everyone  *)
(* who writes it.  HTTP submitters insert rows (SubmitWithOptions), worker *)
(* goroutines claim and settle them (ProcessNext), the recovery loop       *)
(* requeues or fails rows left running (RecoverStale), administrators      *)
(* retry and cancel them (runAction) and the retention loop deletes them   *)
(* (runDataCleanup).                                                       *)
(*                                                                         *)
(* One action is one SQL statement or transaction: what runs between two   *)
(* statements of a handler can interleave with every other actor.          *)
(*                                                                         *)
(* Time is abstracted to the one bit the code derives from it: a running   *)
(* row is overdue when its updated_at lies before the recovery cut-off.    *)
(* worker_id and worker_heartbeat are written by the code but guard        *)
(* nothing that runs, so they are left out.                                *)
(***************************************************************************)
EXTENDS Naturals, FiniteSets

CONSTANTS
  Projects,     \* project keys
  ClientKeys,   \* values of the Idempotency-Key header
  NoKey,        \* the header is missing or blank
  Payloads,     \* payloads, told apart by their SHA-256 hash
  Submitters,   \* concurrent POST /api/v1/scans requests
  Workers,      \* worker goroutines, of all ollantaworker processes
  Admins,       \* concurrent administration requests
  MaxAccepted,  \* ScanBackpressureConfig.MaxAccepted, 0 switches it off
  MaxRunning,   \* ScanBackpressureConfig.MaxRunning, 0 switches it off
  AgeLimited,   \* whether MaxOldestAcceptedAge is set
  MaxAttempts,  \* JobRecoveryConfig.MaxAttempts
  MaxJobs,      \* bound: rows ever inserted
  MaxRetries    \* bound: administrative retries of one row

ASSUME QueueAssumption ==
  /\ MaxAccepted \in Nat /\ MaxRunning \in Nat
  /\ AgeLimited \in BOOLEAN
  /\ MaxAttempts \in Nat \ {0}
  /\ MaxJobs \in Nat /\ MaxRetries \in Nat
  /\ IsFiniteSet(Submitters)

VARIABLES
  job,       \* the scan_jobs table, by id
  nextId,    \* the id sequence
  overdue,   \* running rows whose updated_at is before the recovery cut-off
  scans,     \* rows of the scans table: <<job, attempt that ingested it>>
  submitter, \* what each submission in progress has read
  worker,    \* what each worker goroutine is doing
  admin,     \* what each administrator has read and decided
  receipts,  \* history: the answers 202 and 200 given to submitters
  ingested,  \* history: jobs for which Ingest returned without error
  retries,   \* history: how often Retry was applied to each row
  lost       \* history: rows put back by recovery or by an administrator

table == <<job, nextId, overdue, scans>>
history == <<receipts, ingested, retries, lost>>
vars == <<job, nextId, overdue, scans, submitter, worker, admin, receipts, ingested, retries,
          lost>>

-----------------------------------------------------------------------------
JobIds == 1..MaxJobs

\* scanIdempotencyKey: the client's key, or one derived from the payload.
IdempotencyKey(clientKey, hash) ==
  IF clientKey = NoKey THEN <<"payload", hash>> ELSE <<"client", clientKey>>

IdempotencyKeys == ({"client"} \X ClientKeys) \cup ({"payload"} \X Payloads)

Requests == [project : Projects, key : IdempotencyKeys, hash : Payloads]
NoRequest == [project |-> "none"]

Statuses == {"accepted", "running", "completed", "failed", "cancelled"}

\* "absent" before the INSERT; "deleted" afterwards, the other fields of a
\* deleted row are history that no action reads.
Rows == [status   : Statuses \cup {"absent", "deleted"},
         request  : Requests \cup {NoRequest},
         attempts : Nat,
         scan     : Nat]   \* scan_id: the attempt that produced the scan, 0 for NULL

Present(j) == job[j].status \in Statuses
Accepted == {j \in JobIds : job[j].status = "accepted"}
Running == {j \in JobIds : job[j].status = "running"}
OfProject(S, p) == {j \in S : job[j].request.project = p}

\* The rows the unique index on (project_key, idempotency_key) compares with r.
SameIdentity(r) ==
  {j \in JobIds : /\ Present(j)
                  /\ job[j].request.project = r.project
                  /\ job[j].request.key = r.key}

IdleSubmitter == [pc |-> "idle", request |-> NoRequest]
IdleWorker == [pc |-> "idle", job |-> 0, attempt |-> 0]
IdleAdmin == [pc |-> "idle", job |-> 0]

SubmitterStates == {IdleSubmitter} \cup [pc : {"unseen", "admitted"}, request : Requests]
WorkerStates ==
  {IdleWorker} \cup [pc : {"ingesting", "succeeded", "erred"}, job : JobIds, attempt : Nat]
AdminStates == {IdleAdmin} \cup [pc : {"retry", "cancel"}, job : JobIds]

UnusedRow == [status |-> "absent", request |-> NoRequest, attempts |-> 0, scan |-> 0]

Init ==
  /\ job = [j \in JobIds |-> UnusedRow]
  /\ nextId = 1
  /\ overdue = {}
  /\ scans = {}
  /\ submitter = [s \in Submitters |-> IdleSubmitter]
  /\ worker = [w \in Workers |-> IdleWorker]
  /\ admin = [a \in Admins |-> IdleAdmin]
  /\ receipts = {}
  /\ ingested = {}
  /\ retries = [j \in JobIds |-> 0]
  /\ lost = {}

-----------------------------------------------------------------------------
(* Intake: SubmitWithOptions, three statements on three connections.       *)

\* Mutant of AnswerFromExisting: the payload hashes are not compared.
AnswerAnyPayload(s, r) ==
  /\ submitter[s].pc = "idle"
  /\ \E j \in SameIdentity(r) : receipts' = receipts \cup {[job |-> j, request |-> r]}
  /\ UNCHANGED <<table, submitter, worker, admin, ingested, retries, lost>>

\* FindByIdempotencyKey finds a row: the same payload is answered with that
\* row (200), another payload with a conflict (409).
AnswerFromExisting(s, r) ==
  /\ submitter[s].pc = "idle"
  /\ \E j \in SameIdentity(r) :
       receipts' = IF job[j].request.hash = r.hash
                   THEN receipts \cup {[job |-> j, request |-> r]}
                   ELSE receipts
  /\ UNCHANGED <<table, submitter, worker, admin, ingested, retries, lost>>

\* FindByIdempotencyKey finds nothing: the submission goes on.
FindNothing(s, r) ==
  /\ submitter[s].pc = "idle"
  /\ SameIdentity(r) = {}
  /\ submitter' = [submitter EXCEPT ![s] = [pc |-> "unseen", request |-> r]]
  /\ UNCHANGED <<table, worker, admin, history>>

\* Mutant of Reached: off by one.
ReachedLate(limit, n) == limit > 0 /\ n > limit

Reached(limit, n) == limit > 0 /\ n >= limit

\* Whether checkBackpressure must reject by the counters of QueuePressure.
QueueFull(p) ==
  \/ Reached(MaxAccepted, Cardinality(OfProject(Accepted, p)))
  \/ Reached(MaxRunning, Cardinality(OfProject(Running, p)))

\* checkBackpressure lets the submission through.
PassBackpressure(s) ==
  /\ submitter[s].pc = "unseen"
  /\ ~QueueFull(submitter[s].request.project)
  /\ submitter' = [submitter EXCEPT ![s].pc = "admitted"]
  /\ UNCHANGED <<table, worker, admin, history>>

\* checkBackpressure rejects it (429): a counter, or the age of the oldest
\* accepted row, whatever that age is.
RejectByBackpressure(s) ==
  /\ submitter[s].pc = "unseen"
  /\ LET p == submitter[s].request.project
     IN  QueueFull(p) \/ (AgeLimited /\ OfProject(Accepted, p) # {})
  /\ submitter' = [submitter EXCEPT ![s] = IdleSubmitter]
  /\ UNCHANGED <<table, worker, admin, history>>

\* Mutant of CreateJob: no unique index on the table.
CreateJobUnchecked(s) ==
  /\ submitter[s].pc = "admitted"
  /\ nextId \in JobIds
  /\ job' = [job EXCEPT ![nextId].status = "accepted",
                        ![nextId].request = submitter[s].request]
  /\ nextId' = nextId + 1
  /\ receipts' = receipts \cup {[job |-> nextId, request |-> submitter[s].request]}
  /\ submitter' = [submitter EXCEPT ![s] = IdleSubmitter]
  /\ UNCHANGED <<overdue, scans, worker, admin, ingested, retries, lost>>

\* createJob inserts the row and answers 202.
CreateJob(s) ==
  /\ submitter[s].pc = "admitted"
  /\ nextId \in JobIds
  /\ SameIdentity(submitter[s].request) = {}
  /\ job' = [job EXCEPT ![nextId].status = "accepted",
                        ![nextId].request = submitter[s].request]
  /\ nextId' = nextId + 1
  /\ receipts' = receipts \cup {[job |-> nextId, request |-> submitter[s].request]}
  /\ submitter' = [submitter EXCEPT ![s] = IdleSubmitter]
  /\ UNCHANGED <<overdue, scans, worker, admin, ingested, retries, lost>>

\* createJob meets the unique index, or any other error: 500, no row.
CreateFails(s) ==
  /\ submitter[s].pc = "admitted"
  /\ submitter' = [submitter EXCEPT ![s] = IdleSubmitter]
  /\ UNCHANGED <<table, worker, admin, history>>

-----------------------------------------------------------------------------
(* Processing: ScanJobProcessor.ProcessNext in each worker goroutine.      *)

\* The accepted row with the smallest created_at, id.
IsOldestAccepted(j) == j \in Accepted /\ \A k \in Accepted : j <= k

\* ClaimNext.
ClaimNext(w) ==
  /\ worker[w].pc = "idle"
  /\ \E j \in JobIds :
       /\ IsOldestAccepted(j)
       /\ job' = [job EXCEPT ![j].status = "running", ![j].attempts = @ + 1]
       /\ overdue' = overdue \ {j}
       /\ worker' = [worker EXCEPT ![w] =
            [pc |-> "ingesting", job |-> j, attempt |-> job[j].attempts + 1]]
  /\ UNCHANGED <<nextId, scans, submitter, admin, history>>

\* Ingest returns a result: the scan and everything after it is stored.
IngestSucceeds(w) ==
  /\ worker[w].pc = "ingesting"
  /\ scans' = scans \cup {<<worker[w].job, worker[w].attempt>>}
  /\ ingested' = ingested \cup {worker[w].job}
  /\ worker' = [worker EXCEPT ![w].pc = "succeeded"]
  /\ UNCHANGED <<job, nextId, overdue, submitter, admin, receipts, retries, lost>>

\* The payload does not decode or Ingest returns an error, before or after
\* it has inserted the row of the scan.
IngestFails(w) ==
  /\ worker[w].pc = "ingesting"
  /\ \/ scans' = scans
     \/ scans' = scans \cup {<<worker[w].job, worker[w].attempt>>}
  /\ worker' = [worker EXCEPT ![w].pc = "erred"]
  /\ UNCHANGED <<job, nextId, overdue, submitter, admin, history>>

\* MarkCompleted: by id alone, whatever the row's status and whoever has
\* claimed it since.  A row deleted meanwhile is left alone (ErrNotFound).
MarkCompleted(w) ==
  /\ worker[w].pc = "succeeded"
  /\ LET j == worker[w].job
     IN  IF Present(j)
         THEN /\ job' = [job EXCEPT ![j].status = "completed",
                                    ![j].scan = worker[w].attempt]
              /\ overdue' = overdue \ {j}
         ELSE UNCHANGED <<job, overdue>>
  /\ worker' = [worker EXCEPT ![w] = IdleWorker]
  /\ UNCHANGED <<nextId, scans, submitter, admin, history>>

\* MarkFailed: by id alone, like MarkCompleted.
MarkFailed(w) ==
  /\ worker[w].pc = "erred"
  /\ LET j == worker[w].job
     IN  IF Present(j)
         THEN /\ job' = [job EXCEPT ![j].status = "failed"]
              /\ overdue' = overdue \ {j}
         ELSE UNCHANGED <<job, overdue>>
  /\ worker' = [worker EXCEPT ![w] = IdleWorker]
  /\ UNCHANGED <<nextId, scans, submitter, admin, history>>

\* The goroutine stops before it has settled its row: the process is killed,
\* its context is cancelled, or the statement that settles the row errs.
\* A process that comes back is idle.
Abandon(w) ==
  /\ worker[w].pc # "idle"
  /\ worker' = [worker EXCEPT ![w] = IdleWorker]
  /\ UNCHANGED <<table, submitter, admin, history>>

-----------------------------------------------------------------------------
(* Recovery: RecoverStale, run by a timer in every worker process.         *)

\* StaleAfter passes since the last write of updated_at.  Heartbeats do not
\* write it.
GrowOverdue(j) ==
  /\ j \in Running \ overdue
  /\ overdue' = overdue \cup {j}
  /\ UNCHANGED <<job, nextId, scans, submitter, worker, admin, history>>

\* Mutant of Recovered: one attempt too many.
RecoveredLate(row) ==
  IF row.attempts <= MaxAttempts THEN [row EXCEPT !.status = "accepted"]
                                 ELSE [row EXCEPT !.status = "failed"]

\* Mutant of Recovered: rows out of attempts are left as they are.
RecoveredBelowLimit(row) ==
  IF row.attempts < MaxAttempts THEN [row EXCEPT !.status = "accepted"] ELSE row

Recovered(row) ==
  IF row.attempts < MaxAttempts THEN [row EXCEPT !.status = "accepted"]
                                ELSE [row EXCEPT !.status = "failed"]

\* Mutant of RecoverStale: updated_at is not written.
RecoverStaleUntouched ==
  /\ overdue # {}
  /\ job' = [j \in JobIds |-> IF j \in overdue THEN Recovered(job[j]) ELSE job[j]]
  /\ lost' = lost \cup overdue
  /\ UNCHANGED <<nextId, overdue, scans, submitter, worker, admin, receipts, ingested, retries>>

RecoverStale ==
  /\ overdue # {}
  /\ job' = [j \in JobIds |-> IF j \in overdue THEN Recovered(job[j]) ELSE job[j]]
  /\ overdue' = {}
  /\ lost' = lost \cup overdue
  /\ UNCHANGED <<nextId, scans, submitter, worker, admin, receipts, ingested, retries>>

-----------------------------------------------------------------------------
(* Administration: runAction reads the task, then applies the action.      *)

\* backgroundSupportedActions of the row as it is now; a running row is
\* stale only when it is overdue.
SupportsRetry(j) ==
  \/ job[j].status \in {"failed", "cancelled"}
  \/ job[j].status = "running" /\ j \in overdue

ReadForRetry(a, j) ==
  /\ admin[a].pc = "idle"
  /\ SupportsRetry(j)
  /\ retries[j] < MaxRetries
  /\ admin' = [admin EXCEPT ![a] = [pc |-> "retry", job |-> j]]
  /\ UNCHANGED <<table, submitter, worker, history>>

ReadForCancel(a, j) ==
  /\ admin[a].pc = "idle"
  /\ job[j].status = "accepted"
  /\ admin' = [admin EXCEPT ![a] = [pc |-> "cancel", job |-> j]]
  /\ UNCHANGED <<table, submitter, worker, history>>

\* Mutant of Retry: the attempts start again.
RetryFromZero(a) ==
  /\ admin[a].pc = "retry"
  /\ LET j == admin[a].job
     IN  IF Present(j)
         THEN /\ job' = [job EXCEPT ![j].status = "accepted", ![j].attempts = 0]
              /\ overdue' = overdue \ {j}
              /\ retries' = [retries EXCEPT ![j] = @ + 1]
              /\ lost' = lost \cup {j}
         ELSE UNCHANGED <<job, overdue, retries, lost>>
  /\ admin' = [admin EXCEPT ![a] = IdleAdmin]
  /\ UNCHANGED <<nextId, scans, submitter, worker, receipts, ingested>>

\* Retry: by id alone.  Neither attempts nor scan_id is reset.
Retry(a) ==
  /\ admin[a].pc = "retry"
  /\ LET j == admin[a].job
     IN  IF Present(j)
         THEN /\ job' = [job EXCEPT ![j].status = "accepted"]
              /\ overdue' = overdue \ {j}
              /\ retries' = [retries EXCEPT ![j] = @ + 1]
              /\ lost' = lost \cup {j}
         ELSE UNCHANGED <<job, overdue, retries, lost>>
  /\ admin' = [admin EXCEPT ![a] = IdleAdmin]
  /\ UNCHANGED <<nextId, scans, submitter, worker, receipts, ingested>>

\* Mutant of CancelQueued: the status is not checked again.
CancelWhatWasQueued(a) ==
  /\ admin[a].pc = "cancel"
  /\ job' = [job EXCEPT ![admin[a].job].status = "cancelled"]
  /\ admin' = [admin EXCEPT ![a] = IdleAdmin]
  /\ UNCHANGED <<nextId, overdue, scans, submitter, worker, history>>

\* CancelQueued: only while the row is still accepted.
CancelQueued(a) ==
  /\ admin[a].pc = "cancel"
  /\ LET j == admin[a].job
     IN  job' = IF j \in Accepted THEN [job EXCEPT ![j].status = "cancelled"] ELSE job
  /\ admin' = [admin EXCEPT ![a] = IdleAdmin]
  /\ UNCHANGED <<nextId, overdue, scans, submitter, worker, history>>

-----------------------------------------------------------------------------
(* Retention: runDataCleanup, one DELETE per table.                        *)

\* Completed rows past their retention go; which ones depends on their age.
DeleteCompletedJobs ==
  /\ \E S \in (SUBSET {j \in JobIds : job[j].status = "completed"}) \ {{}} :
       job' = [j \in JobIds |-> IF j \in S THEN [job[j] EXCEPT !.status = "deleted"]
                                           ELSE job[j]]
  /\ UNCHANGED <<nextId, overdue, scans, submitter, worker, admin, history>>

\* A scan whose job is still being settled is younger than any retention.
SettledScans ==
  {c \in scans : \A w \in Workers : worker[w].pc # "idle" => worker[w].job # c[1]}

\* Mutant of DeleteScans: scan_id has no foreign key.
DeleteScansOnly ==
  /\ \E S \in (SUBSET SettledScans) \ {{}} :
       scans' = scans \ S
  /\ UNCHANGED <<job, nextId, overdue, submitter, worker, admin, history>>

\* Old scans go, and the foreign key empties the scan_id that named them.
DeleteScans ==
  /\ \E S \in (SUBSET SettledScans) \ {{}} :
       /\ scans' = scans \ S
       /\ job' = [j \in JobIds |-> IF <<j, job[j].scan>> \in S
                                   THEN [job[j] EXCEPT !.scan = 0] ELSE job[j]]
  /\ UNCHANGED <<nextId, overdue, submitter, worker, admin, history>>

-----------------------------------------------------------------------------
SubmitSteps(s) ==
  \/ \E p \in Projects, c \in ClientKeys \cup {NoKey}, h \in Payloads :
       LET r == [project |-> p, key |-> IdempotencyKey(c, h), hash |-> h]
       IN  AnswerFromExisting(s, r) \/ FindNothing(s, r)
  \/ PassBackpressure(s) \/ RejectByBackpressure(s)
  \/ CreateJob(s) \/ CreateFails(s)

Settle(w) == MarkCompleted(w) \/ MarkFailed(w)
Ingest(w) == IngestSucceeds(w) \/ IngestFails(w)

AdminSteps(a) ==
  \/ \E j \in JobIds : ReadForRetry(a, j) \/ ReadForCancel(a, j)
  \/ Retry(a) \/ CancelQueued(a)

Next ==
  \/ \E s \in Submitters : SubmitSteps(s)
  \/ \E w \in Workers : ClaimNext(w) \/ Ingest(w) \/ Settle(w) \/ Abandon(w)
  \/ \E j \in JobIds : GrowOverdue(j)
  \/ RecoverStale
  \/ \E a \in Admins : AdminSteps(a)
  \/ DeleteCompletedJobs
  \/ DeleteScans

Spec == Init /\ [][Next]_vars

\* Worker goroutines keep polling, Ingest ends, time passes and the recovery
\* timer fires.  Nothing is assumed of submitters, administrators or crashes.
Fairness ==
  /\ \A w \in Workers : WF_vars(ClaimNext(w)) /\ WF_vars(Ingest(w)) /\ WF_vars(Settle(w))
  /\ \A j \in JobIds : WF_vars(GrowOverdue(j))
  /\ WF_vars(RecoverStale)

FairSpec == Spec /\ Fairness

-----------------------------------------------------------------------------
TypeOK ==
  /\ job \in [JobIds -> Rows]
  /\ nextId \in 1..(MaxJobs + 1)
  /\ overdue \subseteq Running
  /\ scans \subseteq (JobIds \X Nat)
  /\ submitter \in [Submitters -> SubmitterStates]
  /\ worker \in [Workers -> WorkerStates]
  /\ admin \in [Admins -> AdminStates]
  /\ receipts \subseteq [job : JobIds, request : Requests]
  /\ ingested \subseteq JobIds
  /\ retries \in [JobIds -> Nat]
  /\ lost \subseteq JobIds

\* Two submissions of one project and idempotency key that were answered with
\* different jobs: the earlier job had been deleted by retention.  The lookup
\* and the INSERT of SubmitWithOptions are separate statements, only the
\* unique index stands between two concurrent submitters.
IdempotentIntake ==
  \A r1, r2 \in receipts :
    ( /\ r1.request.project = r2.request.project
      /\ r1.request.key = r2.request.key
      /\ r1.job < r2.job ) => job[r1.job].status = "deleted"

\* A submitter is only ever referred to a job that holds the payload it sent:
\* a reused key never hides a different payload (checkIdempotency).
ReceiptsHonest == \A r \in receipts : job[r.job].request = r.request

\* Backpressure is read in one statement and the row inserted in another, so
\* the limits can be overrun, but only by the submissions in flight: the
\* unsettled rows of a project, and the submissions already admitted for it,
\* stay below the two limits plus one per concurrent submitter.  Rows that an
\* administrator has put back are not counted against intake.
Admitted(p) ==
  {s \in Submitters : submitter[s].pc = "admitted" /\ submitter[s].request.project = p}
BoundedBacklog ==
  (MaxAccepted > 0 /\ MaxRunning > 0 /\ \A j \in JobIds : retries[j] = 0) =>
    \A p \in Projects :
      Cardinality(OfProject(Accepted \cup Running, p)) + Cardinality(Admitted(p))
        <= (MaxAccepted - 1) + (MaxRunning - 1) + Cardinality(Submitters)

\* The life cycle of one row, whatever interleaves: every step leaves its
\* status and attempts alone or is exactly one of these.  Only a claim counts
\* an attempt, only recovery of an overdue row returns it unasked, a row is
\* cancelled only while it waits and deleted only once completed.
RowStep(j) ==
  LET before == job[j].status
      after == job'[j].status
      sameAttempts == job'[j].attempts = job[j].attempts
      sameRetries == retries'[j] = retries[j]
  IN  \/ after = before /\ sameAttempts /\ sameRetries
      \/ before = "absent" /\ after = "accepted" /\ sameAttempts /\ sameRetries
      \/ before = "accepted" /\ after = "running" /\ sameRetries
         /\ job'[j].attempts = job[j].attempts + 1
      \/ j \in overdue /\ before = "running" /\ sameAttempts /\ sameRetries
         /\ after = IF job[j].attempts < MaxAttempts THEN "accepted" ELSE "failed"
      \/ before \in Statuses /\ sameAttempts /\ sameRetries
         /\ \E w \in Workers :
              /\ worker[w].job = j
              /\ \/ worker[w].pc = "succeeded" /\ after = "completed"
                 \/ worker[w].pc = "erred" /\ after = "failed"
      \/ before \in Statuses /\ after = "accepted" /\ sameAttempts
         /\ retries'[j] = retries[j] + 1
      \/ before = "accepted" /\ after = "cancelled" /\ sameAttempts /\ sameRetries
      \/ before = "completed" /\ after = "deleted" /\ sameAttempts /\ sameRetries
RowLifecycle == [][\A j \in JobIds : RowStep(j)]_vars

\* However workers crash or stall, recovery gives a row MaxAttempts claims,
\* and every administrative retry one more: attempts is never reset, so a row
\* that keeps killing its worker cannot circulate for ever.
AttemptsBounded ==
  \A j \in JobIds : job[j].attempts <= MaxAttempts + retries[j]

\* Two workers may hold one row (see ExclusiveProcessing), but never on the
\* same attempt: the scans that they insert can be told apart.
ClaimsDistinct ==
  \A v, w \in Workers :
    (/\ v # w /\ worker[v].pc # "idle" /\ worker[w].pc # "idle"
     /\ worker[v].job = worker[w].job) => worker[v].attempt # worker[w].attempt

\* The queue is a DurableJob: a scan is reported completed, and its row deleted,
\* only after some Ingest of it has succeeded, and a settled row stays settled
\* unless recovery or an administrator once took its claim from a worker.
Phase == [j \in JobIds |->
  IF job[j].status \in {"accepted", "running"} THEN "pending" ELSE job[j].status]
Promise == INSTANCE DurableJob
  WITH Jobs <- JobIds, phase <- Phase, done <- ingested, contested <- lost
KeepsPromise == Promise!Spec

\* scan_id never names a scan that is gone.
LinkedScanExists ==
  \A j \in JobIds : job[j].scan # 0 => <<j, job[j].scan>> \in scans

\* Every accepted or claimed row is settled, whatever crashes: a row left
\* running turns overdue, and recovery requeues or fails it.
AcceptedSettles ==
  \A j \in JobIds :
    job[j].status \in {"accepted", "running"} ~>
      job[j].status \in {"completed", "failed", "cancelled", "deleted"}

\* What docs/background-tasks.md says of ClaimNext: no two goroutines process
\* the same job.
ExclusiveProcessing ==
  \A v, w \in Workers :
    v # w /\ worker[v].pc = "ingesting" /\ worker[w].pc = "ingesting"
      => worker[v].job # worker[w].job
=============================================================================
