----------------------------- MODULE IngestPipeline -----------------------------
(***************************************************************************)
(* IngestUseCase.Ingest: how the report of a claimed scan job becomes a    *)
(* scan of one project.  Worker goroutines run it, several at a time; each *)
(* step is a statement or transaction of its own, with a timeout of its    *)
(* own, so that ingests of one project interleave and may stop anywhere.   *)
(* Users change the status of stored issues and the project's main branch  *)
(* meanwhile.                                                              *)
(*                                                                         *)
(* The life of the job row is reduced to what the pipeline sees of it:     *)
(* claimed, settled by ProcessNext without an ownership check, put back by *)
(* the recovery loop when it takes too long (ScanJobQueue has the rest).   *)
(* Measures, snapshots and profiles are stored or not; their values are    *)
(* abstracted to the report they come from.                                *)
(***************************************************************************)
EXTENDS Naturals, FiniteSets

CONSTANTS
  Workers,      \* worker goroutines
  Jobs,         \* accepted scan jobs of one project
  Names,        \* branch names, "" for none, and keys of pull requests
  Report,       \* the report of each job
  Gate,         \* its quality gate, given the job of the previous scan or None
  Keys,         \* what issues are matched by: rule key and line hash
  Users,        \* each changes the status of one issue, once
  Edits,        \* values users set the project's main branch to
  None,         \* no scan, no row
  QueryLimit,   \* rows IssueRepository.Query returns at most
  MaxAttempts,  \* JobRecoveryConfig.MaxAttempts
  MaxScans,     \* bound: scans ever inserted
  MaxFaults     \* bound: errors, late answers and stopped goroutines

\* type and name are the scope of a scan: its branch, or the key of its pull
\* request; date is its analysis date, found the issues in it, code whether it
\* carries a code snapshot.
Reports == [type : {"branch", "pull_request"}, name : Names, date : Nat, found : SUBSET Keys,
            code : BOOLEAN]

ASSUME PipelineAssumption ==
  /\ Report \in [Jobs -> Reports]
  /\ Gate \in [Jobs -> [Jobs \cup {None} -> {"OK", "ERROR"}]]
  /\ IsFiniteSet(Keys)
  /\ Edits \subseteq Names
  /\ QueryLimit \in Nat
  /\ MaxAttempts \in Nat \ {0}
  /\ MaxScans \in Nat /\ MaxFaults \in Nat
  /\ None \notin Nat /\ None \notin Names

VARIABLES
  job,        \* the scan_jobs rows
  scan,       \* the scans table, by id
  issue,      \* the issues table: the row of each key in each scan
  mainBranch, \* projects.main_branch, None before the project exists
  live,       \* live_measures.scan_id
  samples,    \* measure_daily_aggregates.sample_count
  snapshot,   \* code_snapshot_scopes.scan_id, by scope
  handed,     \* index jobs and webhook events created: <<what, scan>>
  worker,     \* what each goroutine is doing
  user,       \* what each user has read and decided
  edited,     \* the main branch last set through the API, None at first
  faults      \* how much has gone wrong

store == <<scan, issue, live, samples, snapshot>>
vars == <<job, scan, issue, mainBranch, live, samples, snapshot, handed, worker, user,
          edited, faults>>

-----------------------------------------------------------------------------
ScanIds == 1..MaxScans
ScanOrNone == ScanIds \cup {None}

\* What Ingest stores of a scan after the row itself, in this order.
Parts == {"issues", "measures", "profiles"}

\* compared is history: the scan this one was tracked against.
ScanRows == [job : Jobs, compared : ScanOrNone, parts : SUBSET Parts]

IssueStatuses == {"open", "closed", "confirmed"}
IssueRows == [status : IssueStatuses, tracking : {"new", "unchanged", "reopened"}]

JobRows == [status : {"accepted", "running", "completed", "failed"},
            attempts : Nat, scan : ScanOrNone]

\* prev and old are the previous scan and its issues as read, scan the row
\* inserted.  A worker without a job has pc "idle".
WorkerSteps ==
  {"upsertProject", "fetchPrevScan", "fetchPrevIssues", "insertScan", "insertIssues",
   "insertMeasures", "upsertLive", "upsertRollup", "replaceSnapshot", "replaceProfiles",
   "enqueueIndex", "fireCompleted", "fireGateChanged", "succeeded", "failed"}

IdleWorker == [pc |-> "idle"]
WorkerStates ==
  {IdleWorker} \cup [pc : WorkerSteps, job : Jobs, prev : ScanOrNone,
                     old : [Keys -> IssueStatuses \cup {None}], scan : ScanOrNone]

\* NULL is told from a row and from a status.
ASSUME NullAssumption ==
  None \notin ScanRows /\ None \notin IssueRows /\ None \notin IssueStatuses

IdleUser == [pc |-> "idle"]
UserStates == {IdleUser, [pc |-> "done"]} \cup
              [pc : {"decided"}, scan : ScanIds, key : Keys, to : IssueStatuses]

Scopes == {<<Report[j].type, Report[j].name>> : j \in Jobs}
ScopeOf(s) == <<Report[scan[s].job].type, Report[scan[s].job].name>>
DateOf(s) == Report[scan[s].job].date
JobOf(s) == IF s = None THEN None ELSE scan[s].job
GateOf(s) == Gate[JobOf(s)][JobOf(scan[s].compared)]
Inserted == {s \in ScanIds : scan[s] # None}

Nothing == [k \in Keys |-> None]

Init ==
  /\ job = [j \in Jobs |-> [status |-> "accepted", attempts |-> 0, scan |-> None]]
  /\ scan = [s \in ScanIds |-> None]
  /\ issue = [s \in ScanIds |-> Nothing]
  /\ mainBranch = None
  /\ live = None
  /\ samples = 0
  /\ snapshot = [c \in Scopes |-> None]
  /\ handed = {}
  /\ worker = [w \in Workers |-> IdleWorker]
  /\ user = [u \in Users |-> IdleUser]
  /\ edited = None
  /\ faults = 0

-----------------------------------------------------------------------------
Fault == faults < MaxFaults /\ faults' = faults + 1

(* The job row: claimed, settled, recovered, abandoned.                    *)

\* Jobs were submitted in any order, so any accepted one may be the oldest.
ClaimNext(w, j) ==
  /\ worker[w].pc = "idle"
  /\ job[j].status = "accepted"
  /\ job' = [job EXCEPT ![j].status = "running", ![j].attempts = @ + 1]
  /\ worker' = [worker EXCEPT ![w] = [pc |-> "upsertProject", job |-> j, prev |-> None,
                                      old |-> Nothing, scan |-> None]]
  /\ UNCHANGED <<store, mainBranch, handed, user, edited, faults>>

MarkCompleted(w) ==
  /\ worker[w].pc = "succeeded"
  /\ job' = [job EXCEPT ![worker[w].job].status = "completed",
                        ![worker[w].job].scan = worker[w].scan]
  /\ worker' = [worker EXCEPT ![w] = IdleWorker]
  /\ UNCHANGED <<store, mainBranch, handed, user, edited, faults>>

MarkFailed(w) ==
  /\ worker[w].pc = "failed"
  /\ job' = [job EXCEPT ![worker[w].job].status = "failed"]
  /\ worker' = [worker EXCEPT ![w] = IdleWorker]
  /\ UNCHANGED <<store, mainBranch, handed, user, edited, faults>>

\* The process dies, or is told to stop while it holds the job.
Abandon(w) ==
  /\ Fault
  /\ worker[w].pc # "idle"
  /\ worker' = [worker EXCEPT ![w] = IdleWorker]
  /\ UNCHANGED <<job, store, mainBranch, handed, user, edited>>

\* The recovery loop takes back a row that has been running for too long,
\* whether its worker has died or is slow.
RecoverStale(j) ==
  /\ job[j].status = "running"
  /\ job' = [job EXCEPT ![j].status =
               IF job[j].attempts < MaxAttempts THEN "accepted" ELSE "failed"]
  /\ UNCHANGED <<store, mainBranch, handed, worker, user, edited, faults>>

-----------------------------------------------------------------------------
(* The steps of Ingest.                                                    *)

\* A statement is answered, or takes effect and times out all the same.
AnsweredOrLate(w, next) ==
  \/ worker' = [worker EXCEPT ![w].pc = next] /\ UNCHANGED faults
  \/ worker' = [worker EXCEPT ![w].pc = "failed"] /\ Fault

\* The request carries no main branch: the project's own is overwritten.
UpsertProject(w) ==
  /\ worker[w].pc = "upsertProject"
  /\ mainBranch' = ""
  /\ AnsweredOrLate(w, "fetchPrevScan")
  /\ UNCHANGED <<job, store, handed, user, edited>>

\* ResolveDefaultBranch, without a configured branch: main, then master,
\* then the branch scanned last, then none.
DefaultBranches ==
  LET named == {s \in Inserted : ScopeOf(s)[1] = "branch" /\ ScopeOf(s)[2] # ""}
      names == {ScopeOf(s)[2] : s \in named}
  IN  IF "main" \in names THEN {"main"}
      ELSE IF "master" \in names THEN {"master"}
      ELSE IF named = {} THEN {""}
      ELSE {ScopeOf(s)[2] : s \in {t \in named : \A u \in named : DateOf(u) <= DateOf(t)}}

\* Mutant of InScope: GetLatest in place of GetLatestInScope.
InProject(s, scope, default) == TRUE

\* The condition GetLatestInScope selects scans by.
InScope(s, scope, default) ==
  IF scope[1] = "pull_request"
  THEN ScopeOf(s) = scope
  ELSE LET branch == IF scope[2] = "" THEN default ELSE scope[2]
       IN  /\ ScopeOf(s)[1] = "branch"
           /\ ScopeOf(s)[2] = branch \/ (branch = default /\ ScopeOf(s)[2] = "")

IsLatest(s, S) ==
  s \in S /\ \A t \in S : DateOf(t) < DateOf(s) \/ (DateOf(t) = DateOf(s) /\ t <= s)

FetchPrevScan(w) ==
  /\ worker[w].pc = "fetchPrevScan"
  /\ \E default \in DefaultBranches :
       LET r == Report[worker[w].job]
           S == {s \in Inserted : InScope(s, <<r.type, r.name>>, default)}
       IN  IF S = {}
           THEN worker' = [worker EXCEPT ![w].pc = "insertScan"]
           ELSE \E s \in S : /\ IsLatest(s, S)
                             /\ worker' = [worker EXCEPT ![w].pc = "fetchPrevIssues",
                                                         ![w].prev = s]
  /\ UNCHANGED <<job, store, mainBranch, handed, user, edited, faults>>

\* The query fails: the step is skipped, and there is no previous scan.
FetchPrevScanFails(w) ==
  /\ Fault
  /\ worker[w].pc = "fetchPrevScan"
  /\ worker' = [worker EXCEPT ![w].pc = "insertScan"]
  /\ UNCHANGED <<job, store, mainBranch, handed, user, edited>>

\* fetchPrevIssues asks for 10000 rows and gets at most QueryLimit of them.
FetchPrevIssues(w) ==
  /\ worker[w].pc = "fetchPrevIssues"
  /\ LET row == issue[worker[w].prev]
         rows == {k \in Keys : row[k] # None}
     IN  \E page \in SUBSET rows :
           /\ Cardinality(page) <= QueryLimit
           /\ page = rows \/ Cardinality(page) = QueryLimit
           /\ worker' = [worker EXCEPT ![w].pc = "insertScan",
                           ![w].old = [k \in Keys |-> IF k \in page THEN row[k].status ELSE None]]
  /\ UNCHANGED <<job, store, mainBranch, handed, user, edited, faults>>

\* Any error reads as "no issues".
FetchPrevIssuesFails(w) ==
  /\ Fault
  /\ worker[w].pc = "fetchPrevIssues"
  /\ worker' = [worker EXCEPT ![w].pc = "insertScan"]
  /\ UNCHANGED <<job, store, mainBranch, handed, user, edited>>

\* service.Track, for one issue of the report; confirmed issues count as open.
Track(old) ==
  CASE old \in {"open", "confirmed"} -> "unchanged"
    [] old = "closed" -> "reopened"
    [] OTHER -> "new"

\* scans.Create inserts the row, which says "completed" from the start.
InsertRow(w, late) ==
  /\ worker[w].pc = "insertScan"
  /\ LET s == Cardinality(Inserted) + 1
     IN  /\ s \in ScanIds
         /\ scan' = [scan EXCEPT ![s] = [job |-> worker[w].job, compared |-> worker[w].prev,
                                         parts |-> {}]]
         /\ \/ /\ worker' = [worker EXCEPT ![w].pc = "insertIssues", ![w].scan = s]
               /\ UNCHANGED faults
            \/ /\ worker' = [worker EXCEPT ![w].pc = late, ![w].scan = s]
               /\ Fault
  /\ UNCHANGED <<job, issue, live, samples, snapshot, mainBranch, handed, user, edited>>

\* Mutant of InsertScan: StrategyRetry in place of StrategyAbort.
InsertScanAgain(w) == InsertRow(w, "insertScan")

InsertScan(w) == InsertRow(w, "failed")

\* Mutant of InsertIssues: the live measures come next.
InsertIssuesThenLive(w) ==
  /\ worker[w].pc = "insertIssues"
  /\ scan' = [scan EXCEPT ![worker[w].scan].parts = @ \cup {"issues"}]
  /\ AnsweredOrLate(w, "upsertLive")
  /\ UNCHANGED <<job, issue, live, samples, snapshot, mainBranch, handed, user, edited>>

\* BulkInsert, one COPY, and DiscoverTags, which may fail after it.
InsertIssues(w) ==
  /\ worker[w].pc = "insertIssues"
  /\ LET s == worker[w].scan
         found == Report[worker[w].job].found
     IN  /\ issue' = [issue EXCEPT ![s] =
                        [k \in Keys |-> IF k \in found
                                        THEN [status |-> "open",
                                              tracking |-> Track(worker[w].old[k])]
                                        ELSE None]]
         /\ scan' = [scan EXCEPT ![s].parts = @ \cup {"issues"}]
  /\ AnsweredOrLate(w, "insertMeasures")
  /\ UNCHANGED <<job, live, samples, snapshot, mainBranch, handed, user, edited>>

InsertMeasures(w) ==
  /\ worker[w].pc = "insertMeasures"
  /\ scan' = [scan EXCEPT ![worker[w].scan].parts = @ \cup {"measures"}]
  /\ AnsweredOrLate(w, "upsertLive")
  /\ UNCHANGED <<job, issue, live, samples, snapshot, mainBranch, handed, user, edited>>

\* The last writer wins, whatever the date and the scope of its scan.
UpsertLive(w) ==
  /\ worker[w].pc = "upsertLive"
  /\ live' = worker[w].scan
  /\ worker' = [worker EXCEPT ![w].pc = "upsertRollup"]
  /\ UNCHANGED <<job, scan, issue, samples, snapshot, mainBranch, handed, user, edited, faults>>

UpsertRollup(w) ==
  /\ worker[w].pc = "upsertRollup"
  /\ samples' = samples + 1
  /\ worker' = [worker EXCEPT ![w].pc = "replaceSnapshot"]
  /\ UNCHANGED <<job, scan, issue, live, snapshot, mainBranch, handed, user, edited, faults>>

ReplaceSnapshot(w) ==
  /\ worker[w].pc = "replaceSnapshot"
  /\ Report[worker[w].job].code
  /\ snapshot' = [snapshot EXCEPT ![ScopeOf(worker[w].scan)] = worker[w].scan]
  /\ AnsweredOrLate(w, "replaceProfiles")
  /\ UNCHANGED <<job, scan, issue, live, samples, mainBranch, handed, user, edited>>

ReplaceProfiles(w) ==
  /\ worker[w].pc = "replaceProfiles"
  /\ scan' = [scan EXCEPT ![worker[w].scan].parts = @ \cup {"profiles"}]
  /\ AnsweredOrLate(w, "enqueueIndex")
  /\ UNCHANGED <<job, issue, live, samples, snapshot, mainBranch, handed, user, edited>>

HandOver(w, what, next) ==
  /\ handed' = handed \cup {<<what, worker[w].scan>>}
  /\ worker' = [worker EXCEPT ![w].pc = next]
  /\ UNCHANGED <<job, store, mainBranch, user, edited, faults>>

EnqueueSearchIndex(w) ==
  worker[w].pc = "enqueueIndex" /\ HandOver(w, "index", "fireCompleted")

DispatchScanWebhook(w) ==
  worker[w].pc = "fireCompleted" /\ HandOver(w, "scan.completed", "fireGateChanged")

GateBefore(w) == IF worker[w].prev = None THEN "" ELSE GateOf(worker[w].prev)

DispatchGateChanged(w) ==
  /\ worker[w].pc = "fireGateChanged"
  /\ GateBefore(w) # GateOf(worker[w].scan)
  /\ HandOver(w, "gate.changed", "succeeded")

\* A step that aborts the ingest fails without effect.
AbortingSteps == {"upsertProject", "insertScan", "insertIssues", "insertMeasures",
                  "replaceSnapshot", "replaceProfiles"}

Abort(w) ==
  /\ Fault
  /\ worker[w].pc \in AbortingSteps
  /\ worker' = [worker EXCEPT ![w].pc = "failed"]
  /\ UNCHANGED <<job, store, mainBranch, handed, user, edited>>

StepAfter(pc) ==
  CASE pc = "upsertLive" -> "upsertRollup"
    [] pc = "upsertRollup" -> "replaceSnapshot"
    [] pc = "replaceSnapshot" -> "replaceProfiles"
    [] pc = "replaceProfiles" -> "enqueueIndex"
    [] pc = "enqueueIndex" -> "fireCompleted"
    [] pc = "fireCompleted" -> "fireGateChanged"
    [] pc = "fireGateChanged" -> "succeeded"

\* Steps whose error is only logged.
LoggedSteps == {"upsertLive", "upsertRollup", "enqueueIndex", "fireCompleted", "fireGateChanged"}

LogAndGoOn(w) ==
  /\ worker[w].pc \in LoggedSteps
  /\ Fault
  /\ worker' = [worker EXCEPT ![w].pc = StepAfter(@)]
  /\ UNCHANGED <<job, store, mainBranch, handed, user, edited>>

\* Steps with nothing to do: no code in the report, the gate as before.
NothingToDo(w) ==
  \/ worker[w].pc = "replaceSnapshot" /\ ~Report[worker[w].job].code
  \/ worker[w].pc = "fireGateChanged" /\ GateBefore(w) = GateOf(worker[w].scan)

PassOver(w) ==
  /\ NothingToDo(w)
  /\ worker' = [worker EXCEPT ![w].pc = StepAfter(@)]
  /\ UNCHANGED <<job, store, mainBranch, handed, user, edited, faults>>

-----------------------------------------------------------------------------
(* Users, between the steps.                                               *)

\* PUT /projects/{key} with a main_branch.
EditProject(b) ==
  /\ mainBranch # None
  /\ edited = None
  /\ mainBranch' = b
  /\ edited' = b
  /\ UNCHANGED <<job, store, handed, worker, user, faults>>

ValidTransitions ==
  [open |-> {"closed", "confirmed"}, closed |-> {"open"}, confirmed |-> {}]

\* Transition reads the row and checks the change the user asks for.
ReadForTransition(u, s, k) ==
  /\ user[u].pc = "idle"
  /\ issue[s][k] # None
  /\ \E to \in ValidTransitions[issue[s][k].status] :
       user' = [user EXCEPT ![u] = [pc |-> "decided", scan |-> s, key |-> k, to |-> to]]
  /\ UNCHANGED <<job, store, mainBranch, handed, worker, edited, faults>>

\* It then writes by id, without looking at the status again.
WriteTransition(u) ==
  /\ user[u].pc = "decided"
  /\ issue' = [issue EXCEPT ![user[u].scan][user[u].key].status = user[u].to]
  /\ user' = [user EXCEPT ![u] = [pc |-> "done"]]
  /\ UNCHANGED <<job, scan, live, samples, snapshot, mainBranch, handed, worker, edited, faults>>

-----------------------------------------------------------------------------
Step(w) ==
  \/ \E j \in Jobs : ClaimNext(w, j)
  \/ UpsertProject(w) \/ FetchPrevScan(w) \/ FetchPrevScanFails(w)
  \/ FetchPrevIssues(w) \/ FetchPrevIssuesFails(w)
  \/ InsertScan(w) \/ InsertIssues(w) \/ InsertMeasures(w)
  \/ UpsertLive(w) \/ UpsertRollup(w) \/ ReplaceSnapshot(w) \/ ReplaceProfiles(w)
  \/ EnqueueSearchIndex(w) \/ DispatchScanWebhook(w) \/ DispatchGateChanged(w)
  \/ Abort(w) \/ LogAndGoOn(w) \/ PassOver(w)
  \/ MarkCompleted(w) \/ MarkFailed(w) \/ Abandon(w)

Next ==
  \/ \E w \in Workers : Step(w)
  \/ \E j \in Jobs : RecoverStale(j)
  \/ \E b \in Edits : EditProject(b)
  \/ \E u \in Users : WriteTransition(u)
  \/ \E u \in Users, s \in ScanIds, k \in Keys : ReadForTransition(u, s, k)

Spec == Init /\ [][Next]_vars

-----------------------------------------------------------------------------
(* Properties.                                                             *)

\* Every variable holds what its declaration says: the rows of the tables and
\* the local state of each goroutine and user are well formed.
TypeOK ==
  /\ job \in [Jobs -> JobRows]
  /\ scan \in [ScanIds -> ScanRows \cup {None}]
  /\ issue \in [ScanIds -> [Keys -> IssueRows \cup {None}]]
  /\ mainBranch \in Names \cup {"", None} /\ edited \in Names \cup {None}
  /\ live \in ScanOrNone
  /\ samples \in Nat
  /\ snapshot \in [Scopes -> ScanOrNone]
  /\ handed \subseteq {"index", "scan.completed", "gate.changed"} \X ScanIds
  /\ worker \in [Workers -> WorkerStates]
  /\ user \in [Users -> UserStates]
  /\ faults \in Nat

\* A job that says "completed" links a scan of its own report that is stored in
\* full, although the steps commit one by one, answers get lost, goroutines
\* stop half-way and two of them may process the job (ProcessNext, Ingest).
LinkedScanWhole ==
  \A j \in Jobs : job[j].status = "completed" =>
    /\ job[j].scan \in Inserted
    /\ scan[job[j].scan].job = j
    /\ scan[job[j].scan].parts = Parts

\* Nothing points to a scan that is still being stored: the live measures and
\* the code snapshot show a scan whose issues and measures are there, and a
\* scan is given to the search index and to webhooks when all of it is
\* (the order of the steps of Ingest).
PublishedIsStored ==
  /\ \A s \in {live} \cup {snapshot[c] : c \in Scopes} :
       s # None => s \in Inserted /\ {"issues", "measures"} \subseteq scan[s].parts
  /\ \A h \in handed : h[2] \in Inserted /\ scan[h[2]].parts = Parts

\* Whatever refers to a scan finds all of it: the completed job that links it, the live measures and
\* snapshots that show it, the index and the webhooks that are told of it (Ingest, ProcessNext).
StoredBeforeShown == LinkedScanWhole /\ PublishedIsStored

\* Two scopes that no choice of the default branch makes one.
Apart(a, b) ==
  \/ a[1] # b[1]
  \/ a[2] # b[2] /\ (a[1] = "pull_request" \/ (a[2] # "" /\ b[2] # ""))

\* An issue is called unchanged or reopened only if the scan it was compared
\* with holds the issue and belongs to the same branch or pull request,
\* whatever was ingested in between and however the default branch moved
\* (fetchPreviousScan, fetchPrevIssues, Track).
TrackingIsGrounded ==
  \A s \in Inserted, k \in Keys :
    issue[s][k] # None /\ issue[s][k].tracking # "new" =>
      /\ scan[s].compared \in Inserted
      /\ ~Apart(ScopeOf(s), ScopeOf(scan[s].compared))
      /\ issue[scan[s].compared][k] # None

\* Each claim of a job inserts at most one scan, also when the answer to a
\* statement is lost, and the daily rollup counts a scan at most once.
ScansPerClaim ==
  /\ \A j \in Jobs : Cardinality({s \in Inserted : scan[s].job = j}) <= job[j].attempts
  /\ samples <= Cardinality({s \in Inserted : "measures" \in scan[s].parts})

\* Over state of the right shape, no tracking state is a wrong guess (Track).
TrackingIsSound == TypeOK /\ TrackingIsGrounded

\* When issues of the previous scan are read for tracking, all of them are
\* (fetchPrevIssues asks for 10000, IssueRepository.Query returns at most 1000).
TrackedAgainstAll ==
  \A w \in Workers : worker[w].pc = "insertScan" /\ worker[w].old # Nothing =>
    \A k \in Keys : worker[w].old[k] = None <=> issue[worker[w].prev][k] = None

\* A scan is compared only with scans that are stored in full: what a reader
\* may expect if Ingest stored a scan "in a single transaction".
PreviousScanWhole ==
  \A s \in Inserted : scan[s].compared # None => scan[scan[s].compared].parts = Parts
=============================================================================
