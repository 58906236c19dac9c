----------------------------- MODULE IndexJobQueue -----------------------------
(***************************************************************************)
(* The durable search-projection queue: the index_jobs table and everyone  *)
(* who writes it.  Ingest asks for the projection of a scan (Enqueue),     *)
(* indexer processes claim a row, page through the issues of its scan and  *)
(* write them to the search backend (processNext, doIndex), the recovery   *)
(* loop returns rows left running, administrators retry and cancel rows,   *)
(* and retention deletes scans together with their rows.                   *)
(*                                                                         *)
(* One action is one SQL statement, or one page of doIndex.  Time is two   *)
(* bits per row: its next_attempt_at lies in the future (waiting), or its  *)
(* updated_at lies before the recovery cut-off (overdue).                  *)
(***************************************************************************)
EXTENDS Naturals, FiniteSets

CONSTANTS
  Scans,           \* scans that ingest has stored
  Enqueuers,       \* concurrent calls of Enqueue
  Workers,         \* Worker.Start loops, of all ollantaindexer processes
  IssueCount,      \* issues of a scan
  BatchSize,       \* Config.IndexBatchSize
  QueryLimit,      \* the largest page that IssueRepository.Query returns
  MaxRetries,      \* Config.IndexMaxRetries
  MaxAttempts,     \* JobRecoveryConfig.MaxAttempts
  MaxJobs,         \* bound: rows ever inserted
  MaxAdminRetries  \* bound: administrative retries of one row

NoScan == "none"

ASSUME IndexAssumption ==
  /\ NoScan \notin Scans
  /\ IssueCount \in Nat
  /\ BatchSize \in Nat \ {0} /\ QueryLimit \in Nat \ {0}
  /\ MaxRetries \in Nat \ {0} /\ MaxAttempts \in Nat \ {0}
  /\ MaxJobs \in Nat /\ MaxAdminRetries \in Nat

VARIABLES
  scans,     \* the scans that retention has not deleted
  job,       \* the index_jobs table, by id
  nextId,    \* the id sequence
  waiting,   \* accepted rows whose next_attempt_at lies in the future
  overdue,   \* running rows whose updated_at is before the recovery cut-off
  indexed,   \* the search backend: the issues of each scan that it holds
  enqueuer,  \* the scan each Enqueue in progress is about
  worker,    \* what each worker is doing
  requested, \* history: scans for which Enqueue returned no error
  lost,      \* history: rows put back by recovery or by an administrator
  retries    \* history: how often an administrator has put each row back

vars == <<scans, job, nextId, waiting, overdue, indexed, enqueuer, worker,
          requested, lost, retries>>

-----------------------------------------------------------------------------
JobIds == 1..MaxJobs

ActiveStatuses == {"accepted", "running"}
Statuses == ActiveStatuses \cup {"completed", "failed", "cancelled"}

Rows == [status   : Statuses \cup {"absent", "deleted"},
         scan     : Scans \cup {NoScan},
         attempts : Nat]

Present(j) == job[j].status \in Statuses
Active(j) == job[j].status \in ActiveStatuses

\* GetActiveByScanID, and what the partial unique index on scan_id compares.
ActiveOf(s) == {j \in JobIds : Active(j) /\ job[j].scan = s}

\* An UPDATE that makes j active passes the unique index.
MayBeActive(j) == ActiveOf(job[j].scan) \subseteq {j}

Idle == [pc |-> "idle", job |-> 0, attempt |-> 0, offset |-> 0]
WorkerStates == {Idle} \cup
  [pc : {"indexing", "indexed", "erred"}, job : JobIds, attempt : Nat, offset : Nat]
EnqueuerStates ==
  {[pc |-> "idle", scan |-> NoScan]} \cup [pc : {"unseen", "refused"}, scan : Scans]

Init ==
  /\ scans = Scans
  /\ job = [j \in JobIds |-> [status |-> "absent", scan |-> NoScan, attempts |-> 0]]
  /\ nextId = 1
  /\ waiting = {}
  /\ overdue = {}
  /\ indexed = [s \in Scans |-> {}]
  /\ enqueuer = [e \in Enqueuers |-> [pc |-> "idle", scan |-> NoScan]]
  /\ worker = [w \in Workers |-> Idle]
  /\ requested = {}
  /\ lost = {}
  /\ retries = [j \in JobIds |-> 0]

\* Mutant of Write: updated_at is not written.
WriteUntouched(j, status, retryLater) ==
  /\ job' = [job EXCEPT ![j].status = status]
  /\ overdue' = overdue
  /\ waiting' = IF retryLater THEN waiting \cup {j} ELSE waiting \ {j}

\* One UPDATE of row j: it writes updated_at, so the row is not overdue.
Write(j, status, retryLater) ==
  /\ job' = [job EXCEPT ![j].status = status]
  /\ overdue' = overdue \ {j}
  /\ waiting' = IF retryLater THEN waiting \cup {j} ELSE waiting \ {j}

-----------------------------------------------------------------------------
(* Enqueue: look for an active row, insert one, look again.                *)

Return(e) == enqueuer' = [enqueuer EXCEPT ![e] = [pc |-> "idle", scan |-> NoScan]]

\* GetActiveByScanID finds a row: nothing to do.
DedupeActive(e, s) ==
  /\ enqueuer[e].pc = "idle"
  /\ ActiveOf(s) # {}
  /\ requested' = requested \cup {s}
  /\ UNCHANGED <<scans, job, nextId, waiting, overdue, indexed, enqueuer, worker, lost, retries>>

FindNoActive(e, s) ==
  /\ enqueuer[e].pc = "idle"
  /\ s \in scans
  /\ ActiveOf(s) = {}
  /\ enqueuer' = [enqueuer EXCEPT ![e] = [pc |-> "unseen", scan |-> s]]
  /\ UNCHANGED <<scans, job, nextId, waiting, overdue, indexed, worker, requested, lost, retries>>

\* Create: the scan must still exist and have no active row.
Create(e) ==
  LET s == enqueuer[e].scan
  IN  /\ enqueuer[e].pc = "unseen"
      /\ nextId \in JobIds
      /\ s \in scans
      /\ ActiveOf(s) = {}
      /\ job' = [job EXCEPT ![nextId].status = "accepted", ![nextId].scan = s]
      /\ nextId' = nextId + 1
      /\ requested' = requested \cup {s}
      /\ Return(e)
      /\ UNCHANGED <<scans, waiting, overdue, indexed, worker, lost, retries>>

\* Create errs, on an index or a foreign key or for any other reason.
CreateFails(e) ==
  /\ enqueuer[e].pc = "unseen"
  /\ enqueuer' = [enqueuer EXCEPT ![e].pc = "refused"]
  /\ UNCHANGED <<scans, job, nextId, waiting, overdue, indexed, worker, requested, lost, retries>>

\* Mutant of LookAgain: every failed INSERT counts as a duplicate.
LookAgainBlindly(e) ==
  /\ enqueuer[e].pc = "refused"
  /\ requested' = requested \cup {enqueuer[e].scan}
  /\ Return(e)
  /\ UNCHANGED <<scans, job, nextId, waiting, overdue, indexed, worker, lost, retries>>

\* After a failed INSERT an active row means that another call was faster;
\* without one Enqueue returns the error.
LookAgain(e) ==
  LET s == enqueuer[e].scan
  IN  /\ enqueuer[e].pc = "refused"
      /\ requested' = IF ActiveOf(s) # {} THEN requested \cup {s} ELSE requested
      /\ Return(e)
      /\ UNCHANGED <<scans, job, nextId, waiting, overdue, indexed, worker, lost, retries>>

-----------------------------------------------------------------------------
(* Processing: processNext and doIndex in each worker.                     *)

\* Mutant of Claimable: the status is not filtered.
ClaimableWhenActive(j) == Active(j) /\ j \notin waiting

\* ClaimNext takes the due row with the smallest next_attempt_at.  The order
\* of the due rows is left open: it shifts with every Reschedule.
Claimable(j) == job[j].status = "accepted" /\ j \notin waiting

ClaimNext(w) ==
  /\ worker[w].pc = "idle"
  /\ \E j \in JobIds :
       /\ Claimable(j)
       /\ job' = [job EXCEPT ![j].status = "running", ![j].attempts = @ + 1]
       /\ overdue' = overdue \ {j}
       /\ worker' = [worker EXCEPT ![w] = [pc |-> "indexing", job |-> j,
                       attempt |-> job[j].attempts + 1, offset |-> 0]]
  /\ UNCHANGED <<scans, nextId, waiting, indexed, enqueuer, requested, lost, retries>>

\* IssueRepository.Query caps the page; a deleted scan has no issues left.
PageLimit == IF BatchSize > QueryLimit THEN QueryLimit ELSE BatchSize
Page(s, offset) ==
  {i \in 1..IssueCount : s \in scans /\ offset < i /\ i <= offset + PageLimit}

\* Mutant of LastPage: a full page is taken for the last one.
LastPageEarly(offset, n) == n <= BatchSize

\* doIndex stops at a page that is empty or shorter than the batch size.
LastPage(offset, n) == n < BatchSize

\* One round of doIndex: query a page, write it to the search backend.
IndexPage(w) ==
  LET s == job[worker[w].job].scan
      offset == worker[w].offset
      page == Page(s, offset)
      n == Cardinality(page)
  IN  /\ worker[w].pc = "indexing"
      /\ indexed' = [indexed EXCEPT ![s] = @ \cup page]
      /\ worker' = IF LastPage(offset, n)
                   THEN [worker EXCEPT ![w].pc = "indexed"]
                   ELSE [worker EXCEPT ![w].offset = offset + n]
      /\ UNCHANGED <<scans, job, nextId, waiting, overdue, enqueuer, requested, lost, retries>>

\* The query or the search backend errs; the pages before stay indexed.
IndexErrs(w) ==
  /\ worker[w].pc = "indexing"
  /\ worker' = [worker EXCEPT ![w].pc = "erred"]
  /\ UNCHANGED <<scans, job, nextId, waiting, overdue, indexed, enqueuer, requested, lost, retries>>

\* MarkCompleted, by id alone.
MarkCompleted(w) ==
  LET j == worker[w].job
  IN  /\ worker[w].pc = "indexed"
      /\ IF Present(j) THEN Write(j, "completed", FALSE) ELSE UNCHANGED <<job, overdue, waiting>>
      /\ worker' = [worker EXCEPT ![w] = Idle]
      /\ UNCHANGED <<scans, nextId, indexed, enqueuer, requested, lost, retries>>

ExhaustedEarly(attempt) == attempt + 1 >= MaxRetries

\* The attempt this worker claimed was the last one it may retry.
Exhausted(attempt) == attempt >= MaxRetries

\* MarkFailed, by id alone.
MarkFailed(w) ==
  LET j == worker[w].job
  IN  /\ worker[w].pc = "erred"
      /\ Exhausted(worker[w].attempt)
      /\ IF Present(j) THEN Write(j, "failed", FALSE) ELSE UNCHANGED <<job, overdue, waiting>>
      /\ worker' = [worker EXCEPT ![w] = Idle]
      /\ UNCHANGED <<scans, nextId, indexed, enqueuer, requested, lost, retries>>

\* Reschedule, by id alone: it may reopen a row that another worker has
\* settled since, unless the unique index refuses it.
Reschedule(w) ==
  LET j == worker[w].job
  IN  /\ worker[w].pc = "erred"
      /\ ~Exhausted(worker[w].attempt)
      /\ IF Present(j) /\ MayBeActive(j)
         THEN Write(j, "accepted", TRUE)
         ELSE UNCHANGED <<job, overdue, waiting>>
      /\ worker' = [worker EXCEPT ![w] = Idle]
      /\ UNCHANGED <<scans, nextId, indexed, enqueuer, requested, lost, retries>>

\* The process stops, or the statement that settles the row errs.
Abandon(w) ==
  /\ worker[w].pc # "idle"
  /\ worker' = [worker EXCEPT ![w] = Idle]
  /\ UNCHANGED <<scans, job, nextId, waiting, overdue, indexed, enqueuer, requested, lost, retries>>

-----------------------------------------------------------------------------
(* Time, recovery, administration and retention.                           *)

\* next_attempt_at arrives.
BecomeDue(j) ==
  /\ j \in waiting
  /\ waiting' = waiting \ {j}
  /\ UNCHANGED <<scans, job, nextId, overdue, indexed, enqueuer, worker, requested, lost, retries>>

\* StaleAfter passes since the last write of updated_at.
GrowOverdue(j) ==
  /\ job[j].status = "running"
  /\ j \notin overdue
  /\ overdue' = overdue \cup {j}
  /\ UNCHANGED <<scans, job, nextId, waiting, indexed, enqueuer, worker, requested, lost, retries>>

\* Mutant of Recovered: rows out of attempts are left as they are.
RecoveredBelowLimit(row) ==
  IF row.attempts < MaxAttempts THEN [row EXCEPT !.status = "accepted"] ELSE row

Recovered(row) ==
  IF row.attempts < MaxAttempts THEN [row EXCEPT !.status = "accepted"]
                                ELSE [row EXCEPT !.status = "failed"]

RecoverStale ==
  /\ overdue # {}
  /\ job' = [j \in JobIds |-> IF j \in overdue THEN Recovered(job[j]) ELSE job[j]]
  /\ overdue' = {}
  /\ lost' = lost \cup overdue
  /\ UNCHANGED <<scans, nextId, waiting, indexed, enqueuer, worker, requested, retries>>

\* Retry by id alone.  RetryIndexJob calls it in any state of the row; what
\* runAction reads before it calls it is out of date by then.
Retry(j) ==
  /\ Present(j)
  /\ MayBeActive(j)
  /\ retries[j] < MaxAdminRetries
  /\ Write(j, "accepted", FALSE)
  /\ lost' = lost \cup {j}
  /\ retries' = [retries EXCEPT ![j] = @ + 1]
  /\ UNCHANGED <<scans, nextId, indexed, enqueuer, worker, requested>>

CancelQueued(j) ==
  /\ job[j].status = "accepted"
  /\ Write(j, "cancelled", FALSE)
  /\ UNCHANGED <<scans, nextId, indexed, enqueuer, worker, requested, lost, retries>>

\* Retention deletes an old scan, and the foreign key its rows with it.
DeleteScan(s) ==
  LET mine == {j \in JobIds : job[j].scan = s}
  IN  /\ s \in scans
      /\ scans' = scans \ {s}
      /\ job' = [j \in JobIds |->
                   IF j \in mine THEN [job[j] EXCEPT !.status = "deleted"] ELSE job[j]]
      /\ waiting' = waiting \ mine
      /\ overdue' = overdue \ mine
      /\ UNCHANGED <<nextId, indexed, enqueuer, worker, requested, lost, retries>>

-----------------------------------------------------------------------------
Index(w) == IndexPage(w) \/ IndexErrs(w)
Settle(w) == MarkCompleted(w) \/ MarkFailed(w) \/ Reschedule(w)

EnqueueSteps(e) ==
  \/ \E s \in Scans : DedupeActive(e, s) \/ FindNoActive(e, s)
  \/ Create(e) \/ CreateFails(e) \/ LookAgain(e)

Next ==
  \/ \E e \in Enqueuers : EnqueueSteps(e)
  \/ \E w \in Workers : ClaimNext(w) \/ Index(w) \/ Settle(w) \/ Abandon(w)
  \/ \E j \in JobIds : BecomeDue(j) \/ GrowOverdue(j) \/ Retry(j) \/ CancelQueued(j)
  \/ RecoverStale
  \/ \E s \in Scans : DeleteScan(s)

Spec == Init /\ [][Next]_vars

\* Workers keep polling and their calls end, time passes, the recovery timer
\* fires.  Nothing is assumed of enqueuers, administrators or retention.
Fairness ==
  /\ \A w \in Workers : WF_vars(ClaimNext(w)) /\ WF_vars(Index(w)) /\ WF_vars(Settle(w))
  /\ \A j \in JobIds : WF_vars(BecomeDue(j)) /\ WF_vars(GrowOverdue(j))
  /\ WF_vars(RecoverStale)

FairSpec == Spec /\ Fairness

-----------------------------------------------------------------------------
TypeOK ==
  /\ scans \subseteq Scans
  /\ job \in [JobIds -> Rows]
  /\ nextId \in 1..(MaxJobs + 1)
  /\ waiting \subseteq {j \in JobIds : job[j].status = "accepted"}
  /\ overdue \subseteq {j \in JobIds : job[j].status = "running"}
  /\ indexed \in [Scans -> SUBSET (1..IssueCount)]
  /\ enqueuer \in [Enqueuers -> EnqueuerStates]
  /\ worker \in [Workers -> WorkerStates]
  /\ requested \subseteq Scans
  /\ lost \subseteq JobIds
  /\ retries \in [JobIds -> Nat]

\* When Enqueue returns no error the scan has a row, its own or the one of a
\* call that raced it: the error of a lost race is told from other errors.
EnqueueHonoured ==
  \A s \in requested \cap scans : \E j \in JobIds : Present(j) /\ job[j].scan = s

\* A completed row means that every issue of its scan is in the search
\* backend, however many workers have paged through it, erred and resumed.
CompletedMeansIndexed ==
  \A j \in JobIds : job[j].status = "completed" => indexed[job[j].scan] = 1..IssueCount

\* No row is given up early: a failed row has used the attempts of the worker
\* or those of recovery, whoever failed it.
FailedMeansExhausted ==
  \A j \in JobIds : job[j].status = "failed" =>
    job[j].attempts >= MaxRetries \/ job[j].attempts >= MaxAttempts

\* A row settles for a reason: the scan is projected, or the attempts are used up.  Only
\* running rows are overdue (TypeOK), so none is settled by recovery instead of its worker.
SettledIsEarned == TypeOK /\ CompletedMeansIndexed /\ FailedMeansExhausted

\* The queue is a DurableJob: a row completes only when its scan is projected,
\* and a settled row stays settled unless its claim was once taken from a
\* worker, by recovery or by an administrator.
Phase == [j \in JobIds |-> IF Active(j) THEN "pending" ELSE job[j].status]
Projected == {j \in JobIds : job[j].status # "absent" /\ indexed[job[j].scan] = 1..IssueCount}
Promise == INSTANCE DurableJob
  WITH Jobs <- JobIds, phase <- Phase, done <- Projected, contested <- lost
KeepsPromise == Promise!Spec

\* A scan whose projection was accepted is indexed, or a row of it shows that
\* it was not, whatever crashes.
RequestSettles ==
  \A s \in Scans :
    s \in requested ~>
      \/ s \notin scans
      \/ indexed[s] = 1..IssueCount
      \/ \E j \in JobIds : job[j].scan = s /\ job[j].status \in {"failed", "cancelled"}
=============================================================================
