-------------------------- MODULE IngestPipelineProofs --------------------------
(***************************************************************************)
(* Proofs about IngestPipeline, for every number of jobs, goroutines,      *)
(* users and scans, all reports and every number of faults.                *)
(***************************************************************************)
EXTENDS IngestPipeline, FiniteSetTheorems, TLAPS

-----------------------------------------------------------------------------
(* The inductive invariant, as named parts.                                *)

\* The steps before the row of the scan is inserted, and those after it.
BeforeRow == {"upsertProject", "fetchPrevScan", "fetchPrevIssues", "insertScan"}
AfterRow == WorkerSteps \ (BeforeRow \cup {"failed"})

\* What is stored of a scan when its worker is about to take a step.
StoredAt(pc) ==
  IF pc = "insertIssues" THEN {}
  ELSE IF pc = "insertMeasures" THEN {"issues"}
  ELSE IF pc \in {"upsertLive", "upsertRollup", "replaceSnapshot", "replaceProfiles"}
  THEN {"issues", "measures"}
  ELSE Parts

\* Ids are handed out in order and without gaps.
ScansInOrder == Inserted = 1..Cardinality(Inserted)

\* A worker's scan is a row of its job, tracked against what the worker has read
\* and stored as far as the worker has come.
WorkersTrackScans ==
  \A w \in Workers : worker[w].pc # "idle" =>
    /\ worker[w].pc \in BeforeRow => worker[w].scan = None
    /\ worker[w].pc \in AfterRow => /\ worker[w].scan # None
                                    /\ scan[worker[w].scan].parts = StoredAt(worker[w].pc)
    /\ worker[w].scan # None => /\ worker[w].scan \in Inserted
                                /\ scan[worker[w].scan].job = worker[w].job
                                /\ scan[worker[w].scan].compared = worker[w].prev

\* No two workers store the same scan, although they may hold the same job.
ScansNotShared ==
  \A v, w \in Workers :
    v # w /\ worker[v].pc # "idle" /\ worker[w].pc # "idle" /\ worker[v].scan # None =>
      worker[v].scan # worker[w].scan

\* Issues come in one piece, and after the row of their scan.
IssuesHaveScans ==
  \A s \in ScanIds, k \in Keys :
    issue[s][k] # None => s \in Inserted /\ "issues" \in scan[s].parts

\* What a user has decided to change is still there.
UsersNameIssues ==
  \A u \in Users : user[u].pc = "decided" => issue[user[u].scan][user[u].key] # None

\* What a worker has read of the previous scan was there, and is of its scope.
ReadsAreOfScope ==
  \A w \in Workers : worker[w].pc # "idle" =>
    /\ worker[w].pc \in {"upsertProject", "fetchPrevScan"} => worker[w].prev = None
    /\ worker[w].pc = "fetchPrevIssues" => worker[w].prev # None
    /\ worker[w].prev # None =>
         /\ worker[w].prev \in Inserted
         /\ ~Apart(<<Report[worker[w].job].type, Report[worker[w].job].name>>,
                   ScopeOf(worker[w].prev))
    /\ \A k \in Keys : worker[w].old[k] # None =>
         worker[w].prev # None /\ issue[worker[w].prev][k] # None

Shape ==
  /\ TypeOK /\ ScansInOrder /\ WorkersTrackScans /\ ScansNotShared
  /\ IssuesHaveScans /\ UsersNameIssues /\ ReadsAreOfScope

\* The scans of a job, and the workers that have claimed it and may still
\* insert one.
ScansOf(j) == {s \in Inserted : scan[s].job = j}
MayInsert(j) == {w \in Workers : worker[w].pc # "idle" /\ worker[w].job = j /\ worker[w].scan = None}

ClaimsBoundScans ==
  \A j \in Jobs : /\ IsFiniteSet(MayInsert(j))
                  /\ Cardinality(ScansOf(j)) + Cardinality(MayInsert(j)) <= job[j].attempts

\* The scans that the rollup may have counted, and the workers that are about
\* to count theirs.
Measured == {s \in Inserted : "measures" \in scan[s].parts}
MayCount == {w \in Workers : worker[w].pc \in {"upsertLive", "upsertRollup"}}

MeasuresBoundSamples ==
  /\ IsFiniteSet(MayCount)
  /\ samples + Cardinality(MayCount) <= Cardinality(Measured)

CountInv == ClaimsBoundScans /\ MeasuresBoundSamples

-----------------------------------------------------------------------------
(* The kinds of steps a worker takes.                                      *)

LEMMA BusyWorker ==
  ASSUME TypeOK, NEW w \in Workers, worker[w].pc # "idle"
  PROVE  worker[w] \in [pc : WorkerSteps, job : Jobs, prev : ScanOrNone,
                        old : [Keys -> IssueStatuses \cup {None}], scan : ScanOrNone]
<1>1. worker[w] \in WorkerStates
  BY DEF TypeOK
<1>2. worker[w] # IdleWorker
  BY DEF IdleWorker
<1>3. QED
  BY <1>1, <1>2, Zenon DEF WorkerStates

\* Worker w goes on to step next with what it holds.
GoesOn(w, next) ==
  /\ worker[w].pc # "idle" /\ next \in WorkerSteps
  /\ worker' = [worker EXCEPT ![w].pc = next]

\* It writes neither scans nor issues.
Passes(w) ==
  /\ scan' = scan /\ issue' = issue
  /\ \E next \in WorkerSteps :
       /\ GoesOn(w, next)
       /\ \/ next = "failed"
          \/ worker[w].pc = "upsertProject" /\ next = "fetchPrevScan"
          \/ worker[w].pc \in BeforeRow /\ next = "insertScan"
          \/ /\ worker[w].pc \in AfterRow /\ next \in AfterRow
             /\ StoredAt(next) = StoredAt(worker[w].pc)
             /\ next \in {"upsertLive", "upsertRollup"} => worker[w].pc \in {"upsertLive", "upsertRollup"}

\* It adds a part to its scan.
Stores(w, part) ==
  /\ worker[w].pc \in AfterRow /\ part \in Parts
  /\ scan' = [scan EXCEPT ![worker[w].scan].parts = @ \cup {part}]
  /\ \E next \in WorkerSteps :
       /\ GoesOn(w, next)
       /\ \/ next = "failed"
          \/ next \in AfterRow /\ StoredAt(next) = StoredAt(worker[w].pc) \cup {part}

FindsPrev(w) ==
  /\ worker[w].pc = "fetchPrevScan"
  /\ scan' = scan /\ issue' = issue
  /\ \E s \in Inserted :
       /\ worker' = [worker EXCEPT ![w].pc = "fetchPrevIssues", ![w].prev = s]
       /\ \E default : InScope(s, <<Report[worker[w].job].type, Report[worker[w].job].name>>, default)

Releases(w) ==
  /\ worker[w].pc # "idle"
  /\ scan' = scan /\ issue' = issue
  /\ worker' = [worker EXCEPT ![w] = IdleWorker]

StepKind(w) ==
  \/ \E j \in Jobs : ClaimNext(w, j)
  \/ Passes(w) \/ FindsPrev(w) \/ FetchPrevIssues(w) \/ InsertScan(w)
  \/ InsertIssues(w) /\ Stores(w, "issues")
  \/ Stores(w, "measures") /\ issue' = issue /\ worker[w].pc = "insertMeasures"
  \/ Stores(w, "profiles") /\ issue' = issue /\ worker[w].pc = "replaceProfiles"
  \/ Releases(w)

LEMMA StepKinds == ASSUME TypeOK, NEW w \in Workers, Step(w) PROVE StepKind(w)
<1> USE DEF AfterRow, BeforeRow, WorkerSteps
<1>1. ASSUME UpsertProject(w) PROVE Passes(w)
  BY <1>1 DEF UpsertProject, AnsweredOrLate, Passes, GoesOn, store
<1>2. ASSUME FetchPrevScan(w) PROVE Passes(w) \/ FindsPrev(w)
  BY <1>2 DEF FetchPrevScan, Passes, GoesOn, FindsPrev, store
<1>3. ASSUME FetchPrevScanFails(w) \/ FetchPrevIssuesFails(w) PROVE Passes(w)
  BY <1>3 DEF FetchPrevScanFails, FetchPrevIssuesFails, Passes, GoesOn, store
<1>4. ASSUME InsertIssues(w) PROVE Stores(w, "issues")
  BY <1>4 DEF InsertIssues, AnsweredOrLate, Stores, GoesOn, StoredAt, Parts
<1>5. ASSUME InsertMeasures(w) PROVE Stores(w, "measures")
  BY <1>5 DEF InsertMeasures, AnsweredOrLate, Stores, GoesOn, StoredAt, Parts
<1>6. ASSUME UpsertLive(w) \/ UpsertRollup(w) PROVE Passes(w)
  BY <1>6 DEF UpsertLive, UpsertRollup, Passes, GoesOn, StoredAt
<1>7. ASSUME ReplaceSnapshot(w) PROVE Passes(w)
  BY <1>7 DEF ReplaceSnapshot, AnsweredOrLate, Passes, GoesOn, StoredAt
<1>8. ASSUME ReplaceProfiles(w) PROVE Stores(w, "profiles")
  BY <1>8 DEF ReplaceProfiles, AnsweredOrLate, Stores, GoesOn, StoredAt, Parts
<1>9. ASSUME EnqueueSearchIndex(w) \/ DispatchScanWebhook(w) \/ DispatchGateChanged(w) PROVE Passes(w)
  BY <1>9 DEF EnqueueSearchIndex, DispatchScanWebhook, DispatchGateChanged, HandOver, Passes,
              GoesOn, StoredAt, store
<1>10. ASSUME Abort(w) PROVE Passes(w)
  BY <1>10 DEF Abort, AbortingSteps, Passes, GoesOn, store
<1>11. ASSUME LogAndGoOn(w) PROVE Passes(w)
  BY <1>11 DEF LogAndGoOn, LoggedSteps, StepAfter, Passes, GoesOn, StoredAt, store
<1>12. ASSUME PassOver(w) PROVE Passes(w)
  BY <1>12 DEF PassOver, NothingToDo, StepAfter, Passes, GoesOn, StoredAt, store
<1>13. ASSUME MarkCompleted(w) \/ MarkFailed(w) \/ Abandon(w) PROVE Releases(w)
  BY <1>13 DEF MarkCompleted, MarkFailed, Abandon, Releases, store
<1>14. QED
  BY <1>1, <1>2, <1>3, <1>4, <1>5, <1>6, <1>7, <1>8, <1>9, <1>10, <1>11, <1>12, <1>13
  DEF Step, StepKind, InsertMeasures, ReplaceProfiles

\* Goroutines apart, only users touch issues, and nothing touches scans.
LEMMA OtherSteps ==
  ASSUME [Next]_vars, ~(\E w \in Workers : Step(w))
  PROVE  /\ scan' = scan /\ worker' = worker /\ live' = live /\ snapshot' = snapshot
         /\ handed' = handed /\ samples' = samples
         /\ issue' = issue \/ \E u \in Users : WriteTransition(u)
BY DEF Next, RecoverStale, EditProject, WriteTransition, ReadForTransition, store, vars

-----------------------------------------------------------------------------
(* What the kinds of steps do to the worker and to its scan.               *)

\* A worker that goes on changes its program counter alone.
LEMMA WorkerGoesOn ==
  ASSUME TypeOK, NEW w \in Workers, NEW next, GoesOn(w, next)
  PROVE  /\ worker' \in [Workers -> WorkerStates]
         /\ worker'[w].pc = next /\ worker'[w].job = worker[w].job
         /\ worker'[w].prev = worker[w].prev /\ worker'[w].old = worker[w].old
         /\ worker'[w].scan = worker[w].scan
         /\ \A v \in Workers : v # w => worker'[v] = worker[v]
<1>1. /\ worker[w] \in [pc : WorkerSteps, job : Jobs, prev : ScanOrNone,
                        old : [Keys -> IssueStatuses \cup {None}], scan : ScanOrNone]
      /\ next \in WorkerSteps /\ worker' = [worker EXCEPT ![w].pc = next]
  BY BusyWorker DEF GoesOn
<1>2. worker \in [Workers -> WorkerStates]
  BY DEF TypeOK
<1>3. worker'[w] = [worker[w] EXCEPT !.pc = next]
  BY <1>1, <1>2
<1>4. worker'[w] \in [pc : WorkerSteps, job : Jobs, prev : ScanOrNone,
                      old : [Keys -> IssueStatuses \cup {None}], scan : ScanOrNone]
  BY <1>1, <1>3
<1>5. worker'[w] \in WorkerStates
  BY <1>4, Zenon DEF WorkerStates
<1>6. \A v \in Workers : v # w => worker'[v] = worker[v]
  BY <1>1, <1>2
<1>7. worker' \in [Workers -> WorkerStates]
  BY <1>1, <1>2, <1>5, <1>6
<1>8. QED
  BY <1>1, <1>3, <1>6, <1>7

\* A part is added to one scan, whose row is otherwise as before.
LEMMA ScanGetsPart ==
  ASSUME TypeOK, NEW s \in Inserted, NEW part \in Parts,
         scan' = [scan EXCEPT ![s].parts = @ \cup {part}]
  PROVE  /\ scan' \in [ScanIds -> ScanRows \cup {None}]
         /\ Inserted' = Inserted
         /\ scan'[s].job = scan[s].job /\ scan'[s].compared = scan[s].compared
         /\ scan'[s].parts = scan[s].parts \cup {part}
         /\ \A t \in ScanIds : t # s => scan'[t] = scan[t]
<1>1. s \in ScanIds /\ scan[s] \in ScanRows /\ scan \in [ScanIds -> ScanRows \cup {None}]
  BY DEF Inserted, TypeOK
<1>2. scan'[s] = [scan[s] EXCEPT !.parts = @ \cup {part}] /\ scan'[s] \in ScanRows
  BY <1>1 DEF ScanRows
<1>3. \A t \in ScanIds : t # s => scan'[t] = scan[t]
  BY <1>1
<1>4. scan' \in [ScanIds -> ScanRows \cup {None}]
  BY <1>1, <1>2, <1>3
<1>5. Inserted' = Inserted
  BY <1>1, <1>2, <1>3, NullAssumption DEF Inserted
<1>6. QED
  BY <1>1, <1>2, <1>3, <1>4, <1>5 DEF ScanRows

\* A new scan takes the next id, and belongs to the worker that inserts it.
LEMMA ScanGetsInserted ==
  ASSUME Shape, NEW w \in Workers, InsertScan(w)
  PROVE  \E s \in ScanIds :
           /\ s \notin Inserted /\ Inserted' = Inserted \cup {s}
           /\ s = Cardinality(Inserted) + 1 /\ Inserted' = 1..s
           /\ scan' \in [ScanIds -> ScanRows \cup {None}]
           /\ scan'[s].job = worker[w].job /\ scan'[s].compared = worker[w].prev
           /\ scan'[s].parts = {}
           /\ \A t \in ScanIds : t # s => scan'[t] = scan[t]
           /\ worker' \in [Workers -> WorkerStates]
           /\ worker'[w].pc \in {"insertIssues", "failed"} /\ worker'[w].scan = s
           /\ worker'[w].job = worker[w].job /\ worker'[w].prev = worker[w].prev
           /\ worker'[w].old = worker[w].old
           /\ \A v \in Workers : v # w => worker'[v] = worker[v]
<1> DEFINE s == Cardinality(Inserted) + 1
           row == [job |-> worker[w].job, compared |-> worker[w].prev, parts |-> {}]
<1>1. PICK next \in {"insertIssues", "failed"} :
        /\ s \in ScanIds /\ worker[w].pc = "insertScan" /\ scan' = [scan EXCEPT ![s] = row]
        /\ worker' = [worker EXCEPT ![w].pc = next, ![w].scan = s]
  BY DEF InsertScan, InsertRow
<1>2. /\ worker[w] \in [pc : WorkerSteps, job : Jobs, prev : ScanOrNone,
                        old : [Keys -> IssueStatuses \cup {None}], scan : ScanOrNone]
      /\ scan \in [ScanIds -> ScanRows \cup {None}]
      /\ worker \in [Workers -> WorkerStates]
  BY <1>1, BusyWorker DEF Shape, TypeOK
<1>3. row \in ScanRows
  BY <1>2 DEF ScanRows
<1>4. Cardinality(Inserted) \in Nat
  <2>1. ScanIds \subseteq Nat /\ IsFiniteSet(ScanIds)
    BY PipelineAssumption, FS_Interval DEF ScanIds
  <2>2. Inserted \in SUBSET ScanIds
    BY DEF Inserted
  <2>3. QED
    BY <2>1, <2>2, FS_Subset, FS_CardinalityType
<1>5. s \notin Inserted
  <2>1. Inserted = 1..Cardinality(Inserted)
    BY DEF Shape, ScansInOrder
  <2>2. ASSUME NEW n \in Nat PROVE n + 1 \notin 1..n
    OBVIOUS
  <2>3. QED
    BY <1>4, <2>1, <2>2
<1>6. scan'[s] = row /\ \A t \in ScanIds : t # s => scan'[t] = scan[t]
  BY <1>1, <1>2
<1>7. Inserted' = Inserted \cup {s}
  BY <1>1, <1>3, <1>6, NullAssumption DEF Inserted
<1>8. scan' \in [ScanIds -> ScanRows \cup {None}]
  BY <1>1, <1>2, <1>3
<1>9. Inserted' = 1..s
  <2>1. Inserted = 1..Cardinality(Inserted)
    BY DEF Shape, ScansInOrder
  <2>2. ASSUME NEW n \in Nat PROVE (1..n) \cup {n + 1} = 1..(n + 1)
    OBVIOUS
  <2>3. QED
    BY <1>4, <1>7, <2>1, <2>2
<1> HIDE DEF s
<1>10. worker'[w] = [worker[w] EXCEPT !.pc = next, !.scan = s]
  BY <1>1, <1>2
<1>11. worker'[w] \in [pc : WorkerSteps, job : Jobs, prev : ScanOrNone,
                       old : [Keys -> IssueStatuses \cup {None}], scan : ScanOrNone]
  BY <1>1, <1>2, <1>10 DEF WorkerSteps, ScanOrNone
<1>12. worker'[w] \in WorkerStates
  BY <1>11, Zenon DEF WorkerStates
<1>13. \A v \in Workers : v # w => worker'[v] = worker[v]
  BY <1>1, <1>2
<1>14. worker' \in [Workers -> WorkerStates]
  BY <1>1, <1>2, <1>12, <1>13
<1>15. QED
  BY <1>1, <1>2, <1>5, <1>6, <1>7, <1>8, <1>9, <1>10, <1>13, <1>14 DEF s

-----------------------------------------------------------------------------
(* Type correctness.                                                       *)

LEMMA WorkerScan ==
  ASSUME Shape, NEW w \in Workers, worker[w].pc \in AfterRow
  PROVE  /\ worker[w].scan \in Inserted /\ worker[w].job \in Jobs
         /\ scan[worker[w].scan].job = worker[w].job
         /\ scan[worker[w].scan].parts = StoredAt(worker[w].pc)
         /\ worker[w].pc # "idle"
<1>1. worker[w].pc # "idle"
  BY DEF AfterRow, WorkerSteps
<1>2. QED
  BY <1>1, BusyWorker DEF Shape, WorkersTrackScans

\* The worker part of TypeOK, for the kinds of steps.
LEMMA WorkerType ==
  ASSUME Shape, NEW w \in Workers, StepKind(w)
  PROVE  worker' \in [Workers -> WorkerStates]
<1>1. TypeOK /\ worker \in [Workers -> WorkerStates]
  BY DEF Shape, TypeOK
<1>2. ASSUME NEW j \in Jobs, ClaimNext(w, j) PROVE worker' \in [Workers -> WorkerStates]
  <2>1. Nothing \in [Keys -> IssueStatuses \cup {None}]
    BY DEF Nothing
  <2>2. [pc |-> "upsertProject", job |-> j, prev |-> None, old |-> Nothing, scan |-> None] \in
          [pc : WorkerSteps, job : Jobs, prev : ScanOrNone,
           old : [Keys -> IssueStatuses \cup {None}], scan : ScanOrNone]
    BY <2>1 DEF WorkerSteps, ScanOrNone
  <2>3. [pc |-> "upsertProject", job |-> j, prev |-> None, old |-> Nothing, scan |-> None] \in WorkerStates
    BY <2>2, Zenon DEF WorkerStates
  <2>4. QED
    BY <1>1, <1>2, <2>3 DEF ClaimNext
<1>3. ASSUME Passes(w) \/ \E part \in Parts : Stores(w, part) PROVE worker' \in [Workers -> WorkerStates]
  BY <1>1, <1>3, WorkerGoesOn DEF Passes, Stores
<1>4. ASSUME FindsPrev(w) PROVE worker' \in [Workers -> WorkerStates]
  <2>1. PICK s \in ScanIds :
          worker' = [worker EXCEPT ![w].pc = "fetchPrevIssues", ![w].prev = s]
    BY <1>4 DEF FindsPrev, Inserted
  <2>2. worker[w] \in [pc : WorkerSteps, job : Jobs, prev : ScanOrNone,
                       old : [Keys -> IssueStatuses \cup {None}], scan : ScanOrNone]
    BY <1>1, <1>4, BusyWorker DEF FindsPrev
  <2>3. worker'[w] \in [pc : WorkerSteps, job : Jobs, prev : ScanOrNone,
                        old : [Keys -> IssueStatuses \cup {None}], scan : ScanOrNone]
    BY <1>1, <2>1, <2>2 DEF WorkerSteps, ScanOrNone
  <2>4. worker'[w] \in WorkerStates
    BY <2>3, Zenon DEF WorkerStates
  <2>5. QED
    BY <1>1, <2>1, <2>4
<1>5. ASSUME FetchPrevIssues(w) PROVE worker' \in [Workers -> WorkerStates]
  <2> DEFINE row == issue[worker[w].prev]
             read(page) == [k \in Keys |-> IF k \in page THEN row[k].status ELSE None]
  <2>1. PICK page \in SUBSET {k \in Keys : row[k] # None} :
          worker' = [worker EXCEPT ![w].pc = "insertScan", ![w].old = read(page)]
    BY <1>5 DEF FetchPrevIssues
  <2>2. /\ worker[w] \in [pc : WorkerSteps, job : Jobs, prev : ScanOrNone,
                          old : [Keys -> IssueStatuses \cup {None}], scan : ScanOrNone]
        /\ worker[w].prev \in ScanIds
    BY <1>1, <1>5, BusyWorker DEF FetchPrevIssues, Shape, ReadsAreOfScope, Inserted
  <2>3. row \in [Keys -> IssueRows \cup {None}]
    BY <2>2 DEF Shape, TypeOK
  <2>4. read(page) \in [Keys -> IssueStatuses \cup {None}]
    BY <2>1, <2>3 DEF IssueRows
  <2> HIDE DEF read
  <2>5. worker'[w] = [worker[w] EXCEPT !.pc = "insertScan", !.old = read(page)]
    BY <1>1, <2>1
  <2>6. worker'[w] \in [pc : WorkerSteps, job : Jobs, prev : ScanOrNone,
                        old : [Keys -> IssueStatuses \cup {None}], scan : ScanOrNone]
    BY <2>2, <2>4, <2>5 DEF WorkerSteps
  <2>7. worker'[w] \in WorkerStates
    BY <2>6, Zenon DEF WorkerStates
  <2>8. QED
    BY <1>1, <2>1, <2>7
<1>6. ASSUME InsertScan(w) PROVE worker' \in [Workers -> WorkerStates]
  BY <1>6, ScanGetsInserted
<1>7. ASSUME Releases(w) PROVE worker' \in [Workers -> WorkerStates]
  BY <1>1, <1>7 DEF Releases, WorkerStates
<1>8. QED
  BY <1>2, <1>3, <1>4, <1>5, <1>6, <1>7 DEF StepKind, Parts

LEMMA FaultsCount ==
  ASSUME TypeOK
  PROVE  (Fault => faults' \in Nat) /\ (faults' = faults => faults' \in Nat)
<1>1. faults \in Nat
  BY DEF TypeOK
<1>2. QED
  BY <1>1 DEF Fault

\* The tables that Ingest writes.
LEMMA StepTypes ==
  ASSUME Shape, NEW w \in Workers, Step(w)
  PROVE  TypeOK'
<1>1. /\ TypeOK /\ worker' \in [Workers -> WorkerStates]
      /\ (Fault => faults' \in Nat) /\ (faults' = faults => faults' \in Nat)
  BY StepKinds, WorkerType, FaultsCount DEF Shape
<1>2. ASSUME NEW j \in Jobs, ClaimNext(w, j) PROVE TypeOK'
  <2> DEFINE row == [job[j] EXCEPT !.status = "running", !.attempts = @ + 1]
  <2>1. job[j] \in JobRows /\ job \in [Jobs -> JobRows]
    BY <1>1 DEF TypeOK
  <2>2. row \in JobRows
    <3>1. job[j].attempts + 1 \in Nat
      BY <2>1 DEF JobRows
    <3>2. QED
      BY <2>1, <3>1 DEF JobRows
  <2>3. job' = [job EXCEPT ![j] = row]
    BY <1>2, <2>1 DEF ClaimNext
  <2> HIDE DEF row
  <2>4. job' \in [Jobs -> JobRows]
    BY <2>1, <2>2, <2>3
  <2>5. QED
    BY <1>1, <1>2, <2>4 DEF ClaimNext, TypeOK, store
<1>3. ASSUME MarkCompleted(w) \/ MarkFailed(w) PROVE TypeOK'
  <2>1. worker[w].job \in Jobs /\ worker[w].scan \in ScanOrNone
    BY <1>1, <1>3, BusyWorker DEF MarkCompleted, MarkFailed
  <2>2. job' \in [Jobs -> JobRows]
    <3>1. job \in [Jobs -> JobRows]
      BY <1>1 DEF TypeOK
    <3>2. job' = [job EXCEPT ![worker[w].job].status = "completed", ![worker[w].job].scan = worker[w].scan]
          \/ job' = [job EXCEPT ![worker[w].job].status = "failed"]
      BY <1>3 DEF MarkCompleted, MarkFailed
    <3>3. QED
      BY <2>1, <3>1, <3>2 DEF JobRows
  <2>3. QED
    BY <1>1, <1>3, <2>2 DEF MarkCompleted, MarkFailed, TypeOK, store
<1>4. ASSUME Abandon(w) PROVE TypeOK'
  BY <1>1, <1>4 DEF Abandon, TypeOK, store
<1>5. ASSUME UpsertProject(w) PROVE TypeOK'
  BY <1>1, <1>5 DEF UpsertProject, AnsweredOrLate, TypeOK, store
<1>6. ASSUME FetchPrevScan(w) \/ FetchPrevIssues(w) \/ PassOver(w) PROVE TypeOK'
  BY <1>1, <1>6 DEF FetchPrevScan, FetchPrevIssues, PassOver, TypeOK, store
<1>7. ASSUME FetchPrevScanFails(w) \/ FetchPrevIssuesFails(w) \/ Abort(w) \/ LogAndGoOn(w) PROVE TypeOK'
  BY <1>1, <1>7 DEF FetchPrevScanFails, FetchPrevIssuesFails, Abort, LogAndGoOn, TypeOK, store
<1>8. ASSUME InsertScan(w) PROVE TypeOK'
  <2>1. scan' \in [ScanIds -> ScanRows \cup {None}]
    BY <1>8, ScanGetsInserted
  <2>2. faults' \in Nat
    BY <1>1, <1>8 DEF InsertScan, InsertRow
  <2>3. QED
    BY <1>1, <1>8, <2>1, <2>2 DEF InsertScan, InsertRow, TypeOK
<1>9. ASSUME InsertIssues(w) PROVE TypeOK'
  <2> DEFINE s == worker[w].scan
             rows == [k \in Keys |-> IF k \in Report[worker[w].job].found
                                     THEN [status |-> "open", tracking |-> Track(worker[w].old[k])]
                                     ELSE None]
  <2>1. s \in Inserted /\ s \in ScanIds
    BY <1>9, WorkerScan DEF InsertIssues, AfterRow, BeforeRow, WorkerSteps, Inserted
  <2>2. \A old : Track(old) \in {"new", "unchanged", "reopened"}
    BY DEF Track
  <2>3. rows \in [Keys -> IssueRows \cup {None}]
    BY <2>2 DEF IssueRows, IssueStatuses
  <2> HIDE DEF rows
  <2>4. issue' = [issue EXCEPT ![s] = rows]
    BY <1>9, Zenon DEF InsertIssues, rows
  <2>5. issue' \in [ScanIds -> [Keys -> IssueRows \cup {None}]]
    BY <1>1, <2>1, <2>3, <2>4 DEF TypeOK
  <2>6. scan' \in [ScanIds -> ScanRows \cup {None}]
    BY <1>1, <1>9, <2>1, ScanGetsPart DEF InsertIssues, Parts
  <2>7. /\ faults' \in Nat
        /\ UNCHANGED <<job, live, samples, snapshot, mainBranch, handed, user, edited>>
    BY <1>1, <1>9 DEF InsertIssues, AnsweredOrLate
  <2>8. QED
    BY <1>1, <2>5, <2>6, <2>7 DEF TypeOK
<1>10. ASSUME InsertMeasures(w) \/ ReplaceProfiles(w) PROVE TypeOK'
  <2>1. worker[w].scan \in Inserted
    BY <1>10, WorkerScan DEF InsertMeasures, ReplaceProfiles, AfterRow, BeforeRow, WorkerSteps
  <2>2. scan' \in [ScanIds -> ScanRows \cup {None}]
    BY <1>1, <1>10, <2>1, ScanGetsPart DEF InsertMeasures, ReplaceProfiles, Parts
  <2>3. QED
    BY <1>1, <1>10, <2>2 DEF InsertMeasures, ReplaceProfiles, AnsweredOrLate, TypeOK
<1>11. ASSUME UpsertLive(w) \/ UpsertRollup(w) PROVE TypeOK'
  <2>1. worker[w].scan \in ScanOrNone /\ live \in ScanOrNone
    BY <1>1, <1>11, BusyWorker DEF UpsertLive, UpsertRollup, TypeOK
  <2>2. samples \in Nat /\ samples + 1 \in Nat
    <3>1. samples \in Nat
      BY <1>1 DEF TypeOK
    <3>2. QED
      BY <3>1
  <2>3. live' \in ScanOrNone /\ samples' \in Nat
    BY <1>11, <2>1, <2>2 DEF UpsertLive, UpsertRollup
  <2>4. UNCHANGED <<job, scan, issue, snapshot, mainBranch, handed, user, edited, faults>>
    BY <1>11 DEF UpsertLive, UpsertRollup
  <2>5. QED
    BY <1>1, <2>3, <2>4 DEF TypeOK
<1>12. ASSUME ReplaceSnapshot(w) PROVE TypeOK'
  <2>1. worker[w].scan \in ScanOrNone
    BY <1>1, <1>12, BusyWorker DEF ReplaceSnapshot
  <2>2. snapshot' \in [Scopes -> ScanOrNone]
    BY <1>1, <1>12, <2>1 DEF ReplaceSnapshot, TypeOK
  <2>3. QED
    BY <1>1, <1>12, <2>2 DEF ReplaceSnapshot, AnsweredOrLate, TypeOK
<1>13. ASSUME EnqueueSearchIndex(w) \/ DispatchScanWebhook(w) \/ DispatchGateChanged(w) PROVE TypeOK'
  <2>1. worker[w].scan \in ScanIds
    BY <1>13, WorkerScan
    DEF EnqueueSearchIndex, DispatchScanWebhook, DispatchGateChanged, AfterRow, BeforeRow,
        WorkerSteps, Inserted
  <2>2. handed' \subseteq {"index", "scan.completed", "gate.changed"} \X ScanIds
    <3>1. \E what \in {"index", "scan.completed", "gate.changed"} :
            handed' = handed \cup {<<what, worker[w].scan>>}
      BY <1>13 DEF EnqueueSearchIndex, DispatchScanWebhook, DispatchGateChanged, HandOver
    <3>2. handed \subseteq {"index", "scan.completed", "gate.changed"} \X ScanIds
      BY <1>1 DEF TypeOK
    <3>3. QED
      BY <2>1, <3>1, <3>2
  <2>3. QED
    BY <1>1, <1>13, <2>2
    DEF EnqueueSearchIndex, DispatchScanWebhook, DispatchGateChanged, HandOver, TypeOK, store
<1>14. QED
  BY <1>2, <1>3, <1>4, <1>5, <1>6, <1>7, <1>8, <1>9, <1>10, <1>11, <1>12, <1>13 DEF Step

\* What a user changes is there (UsersNameIssues), so the change is one of a row.
LEMMA WriteTransitionType ==
  ASSUME Shape, NEW u \in Users, WriteTransition(u)
  PROVE  /\ issue' \in [ScanIds -> [Keys -> IssueRows \cup {None}]]
         /\ \A s \in ScanIds, k \in Keys :
              /\ issue[s][k] # None => issue'[s][k] # None /\ issue'[s][k].tracking = issue[s][k].tracking
              /\ issue[s][k] = None => issue'[s][k] = None
         /\ scan' = scan
<1> DEFINE s == user[u].scan
           k == user[u].key
           row == [issue[s][k] EXCEPT !.status = user[u].to]
<1>1. s \in ScanIds /\ k \in Keys /\ user[u].to \in IssueStatuses /\ user[u].pc = "decided"
  <2>1. user[u].pc = "decided" /\ user[u] \in UserStates
    BY DEF WriteTransition, Shape, TypeOK
  <2>2. user[u] \notin {IdleUser, [pc |-> "done"]}
    BY <2>1 DEF IdleUser
  <2>3. user[u] \in [pc : {"decided"}, scan : ScanIds, key : Keys, to : IssueStatuses]
    BY <2>1, <2>2, Zenon DEF UserStates
  <2>4. QED
    BY <2>1, <2>3
<1>2. issue \in [ScanIds -> [Keys -> IssueRows \cup {None}]]
  BY DEF Shape, TypeOK
<1>3. issue[s][k] # None /\ issue[s][k] \in IssueRows
  BY <1>1, <1>2 DEF Shape, UsersNameIssues
<1>4. row \in IssueRows /\ row.tracking = issue[s][k].tracking /\ row # None
  BY <1>1, <1>3, NullAssumption DEF IssueRows
<1>5. issue' = [issue EXCEPT ![s] = [issue[s] EXCEPT ![k] = row]] /\ scan' = scan
  BY <1>1, <1>2 DEF WriteTransition
<1> HIDE DEF s, k, row
<1>6. issue'[s][k] = row
      /\ \A t \in ScanIds, m \in Keys : t # s \/ m # k => issue'[t][m] = issue[t][m]
  BY <1>1, <1>2, <1>5
<1>7. issue' \in [ScanIds -> [Keys -> IssueRows \cup {None}]]
  BY <1>1, <1>2, <1>4, <1>5
<1>8. QED
  BY <1>3, <1>4, <1>5, <1>6, <1>7

LEMMA TypeStep == ASSUME Shape, [Next]_vars PROVE TypeOK'
<1>1. TypeOK
  BY DEF Shape
<1>2. ASSUME NEW j \in Jobs, RecoverStale(j) PROVE TypeOK'
  <2>1. job' \in [Jobs -> JobRows]
    BY <1>1, <1>2 DEF RecoverStale, TypeOK, JobRows
  <2>2. QED
    BY <1>1, <1>2, <2>1 DEF RecoverStale, TypeOK, store
<1>3. ASSUME NEW b \in Edits, EditProject(b) PROVE TypeOK'
  BY <1>1, <1>3, PipelineAssumption DEF EditProject, TypeOK, store
<1>4. ASSUME NEW u \in Users, WriteTransition(u) PROVE TypeOK'
  <2>1. user' \in [Users -> UserStates]
    BY <1>1, <1>4 DEF WriteTransition, TypeOK, UserStates
  <2>2. QED
    BY <1>1, <1>4, <2>1, WriteTransitionType DEF WriteTransition, TypeOK
<1>5. ASSUME NEW u \in Users, NEW s \in ScanIds, NEW k \in Keys, ReadForTransition(u, s, k) PROVE TypeOK'
  <2>1. PICK to : /\ to \in ValidTransitions[issue[s][k].status]
                  /\ user' = [user EXCEPT ![u] = [pc |-> "decided", scan |-> s, key |-> k, to |-> to]]
    BY <1>5 DEF ReadForTransition
  <2>2. issue[s][k] \in IssueRows
    <3>1. issue[s] \in [Keys -> IssueRows \cup {None}] /\ issue[s][k] # None
      BY <1>1, <1>5 DEF ReadForTransition, TypeOK
    <3>2. QED
      BY <3>1
  <2>3. to \in IssueStatuses
    BY <2>1, <2>2 DEF ValidTransitions, IssueRows, IssueStatuses
  <2>4. user' \in [Users -> UserStates]
    BY <1>1, <2>1, <2>3 DEF TypeOK, UserStates
  <2>5. QED
    BY <1>1, <1>5, <2>4 DEF ReadForTransition, TypeOK, store
<1>6. ASSUME UNCHANGED vars PROVE TypeOK'
  BY <1>1, <1>6 DEF TypeOK, vars
<1>7. QED
  BY <1>2, <1>3, <1>4, <1>5, <1>6, StepTypes DEF Next

-----------------------------------------------------------------------------
(* Rows stay, and each worker writes its own scan alone.                   *)

\* Adding a part to the scan of a worker.
LEMMA StoresPart ==
  ASSUME Shape, NEW w \in Workers, NEW part \in Parts, Stores(w, part)
  PROVE  /\ worker[w].scan \in Inserted /\ worker[w].pc # "idle" /\ Inserted' = Inserted
         /\ scan'[worker[w].scan].job = scan[worker[w].scan].job
         /\ scan'[worker[w].scan].compared = scan[worker[w].scan].compared
         /\ scan'[worker[w].scan].parts = scan[worker[w].scan].parts \cup {part}
         /\ \A t \in ScanIds : t # worker[w].scan => scan'[t] = scan[t]
<1>1. worker[w].scan \in Inserted /\ worker[w].pc # "idle"
  BY WorkerScan DEF Stores
<1>2. scan' = [scan EXCEPT ![worker[w].scan].parts = @ \cup {part}]
  BY DEF Stores
<1>3. QED
  BY <1>1, <1>2, ScanGetsPart DEF Shape

\* The issues of a scan are written once, when it has none.
LEMMA IssuesGetStored ==
  ASSUME Shape, NEW w \in Workers, InsertIssues(w)
  PROVE  /\ worker[w].scan \in Inserted
         /\ \A k \in Keys : /\ issue[worker[w].scan][k] = None
                            /\ issue'[worker[w].scan][k] # None =>
                                 issue'[worker[w].scan][k].tracking = Track(worker[w].old[k])
         /\ \A t \in ScanIds : t # worker[w].scan => issue'[t] = issue[t]
         /\ "issues" \in scan'[worker[w].scan].parts
<1> DEFINE s == worker[w].scan
           rows == [k \in Keys |-> IF k \in Report[worker[w].job].found
                                   THEN [status |-> "open", tracking |-> Track(worker[w].old[k])]
                                   ELSE None]
<1>1. /\ s \in Inserted /\ s \in ScanIds /\ scan[s].parts = {}
      /\ scan' = [scan EXCEPT ![s].parts = @ \cup {"issues"}] /\ worker[w].pc = "insertIssues"
  BY WorkerScan DEF InsertIssues, AfterRow, BeforeRow, WorkerSteps, Inserted, StoredAt
<1>2. issue' = [issue EXCEPT ![s] = rows] /\ issue \in [ScanIds -> [Keys -> IssueRows \cup {None}]]
  BY Zenon DEF InsertIssues, Shape, TypeOK
<1>3. \A k \in Keys : issue[s][k] = None
  BY <1>1 DEF Shape, IssuesHaveScans
<1>4. \A k \in Keys : rows[k] # None => rows[k].tracking = Track(worker[w].old[k])
  OBVIOUS
<1> HIDE DEF rows
<1>5. issue'[s] = rows /\ \A t \in ScanIds : t # s => issue'[t] = issue[t]
  BY <1>1, <1>2
<1>6. scan'[s].parts = scan[s].parts \cup {"issues"}
  BY <1>1, ScanGetsPart DEF Shape, Parts
<1>7. QED
  BY <1>1, <1>3, <1>4, <1>5, <1>6

\* A row of the scans table keeps its job and what it was compared with, and
\* what is stored of it stays stored.
LEMMA ScansStay ==
  ASSUME Shape, [Next]_vars, NEW s \in Inserted
  PROVE  /\ s \in Inserted' /\ scan'[s].job = scan[s].job /\ scan'[s].compared = scan[s].compared
         /\ scan[s].parts \subseteq scan'[s].parts
<1>1. s \in ScanIds
  BY DEF Inserted
<1>2. ASSUME scan' = scan
      PROVE  /\ s \in Inserted' /\ scan'[s].job = scan[s].job /\ scan'[s].compared = scan[s].compared
             /\ scan[s].parts \subseteq scan'[s].parts
  BY <1>2 DEF Inserted
<1>3. ASSUME NEW w \in Workers, InsertScan(w)
      PROVE  /\ s \in Inserted' /\ scan'[s].job = scan[s].job /\ scan'[s].compared = scan[s].compared
             /\ scan[s].parts \subseteq scan'[s].parts
  BY <1>1, <1>3, ScanGetsInserted
<1>4. ASSUME NEW w \in Workers, NEW part \in Parts, Stores(w, part)
      PROVE  /\ s \in Inserted' /\ scan'[s].job = scan[s].job /\ scan'[s].compared = scan[s].compared
             /\ scan[s].parts \subseteq scan'[s].parts
  BY <1>1, <1>4, StoresPart
<1>5. ASSUME NEW w \in Workers, StepKind(w)
      PROVE  /\ s \in Inserted' /\ scan'[s].job = scan[s].job /\ scan'[s].compared = scan[s].compared
             /\ scan[s].parts \subseteq scan'[s].parts
  BY <1>2, <1>3, <1>4, <1>5
  DEF StepKind, Parts, Passes, FindsPrev, FetchPrevIssues, ClaimNext, Releases, store
<1>6. QED
  BY <1>2, <1>5, StepKinds, OtherSteps DEF Shape

\* So do issues, and their tracking.
LEMMA IssuesStay ==
  ASSUME Shape, [Next]_vars, NEW s \in ScanIds, NEW k \in Keys, issue[s][k] # None
  PROVE  issue'[s][k] # None /\ issue'[s][k].tracking = issue[s][k].tracking
<1>1. ASSUME issue' = issue
      PROVE  issue'[s][k] # None /\ issue'[s][k].tracking = issue[s][k].tracking
  BY <1>1
<1>2. ASSUME NEW w \in Workers, InsertIssues(w)
      PROVE  issue'[s][k] # None /\ issue'[s][k].tracking = issue[s][k].tracking
  BY <1>2, IssuesGetStored
<1>3. ASSUME NEW u \in Users, WriteTransition(u)
      PROVE  issue'[s][k] # None /\ issue'[s][k].tracking = issue[s][k].tracking
  BY <1>3, WriteTransitionType
<1>4. ASSUME NEW w \in Workers, StepKind(w)
      PROVE  issue'[s][k] # None /\ issue'[s][k].tracking = issue[s][k].tracking
  BY <1>1, <1>2, <1>4
  DEF StepKind, Passes, FindsPrev, FetchPrevIssues, ClaimNext, Releases, InsertScan, InsertRow, store
<1>5. QED
  BY <1>1, <1>3, <1>4, StepKinds, OtherSteps DEF Shape

\* Issues that are new belong to the scan of the worker that stores them.
LEMMA NewIssues ==
  ASSUME Shape, [Next]_vars, NEW s \in ScanIds, NEW k \in Keys, issue[s][k] = None, issue'[s][k] # None
  PROVE  \E w \in Workers : InsertIssues(w) /\ s = worker[w].scan
<1>1. ASSUME issue' = issue PROVE FALSE
  BY <1>1
<1>2. ASSUME NEW w \in Workers, InsertIssues(w) PROVE s = worker[w].scan
  BY <1>2, IssuesGetStored
<1>3. ASSUME NEW u \in Users, WriteTransition(u) PROVE FALSE
  BY <1>3, WriteTransitionType
<1>4. ASSUME NEW w \in Workers, StepKind(w) PROVE InsertIssues(w)
  BY <1>1, <1>4
  DEF StepKind, Passes, FindsPrev, FetchPrevIssues, ClaimNext, Releases, InsertScan, InsertRow, store
<1>5. QED
  BY <1>1, <1>2, <1>3, <1>4, StepKinds, OtherSteps DEF Shape

\* A step of one worker leaves the others and their scans as they are.
LEMMA OthersKept ==
  ASSUME Shape, NEW w \in Workers, StepKind(w), NEW v \in Workers, v # w
  PROVE  /\ worker'[v] = worker[v]
         /\ worker[v].pc # "idle" /\ worker[v].scan # None =>
              scan'[worker[v].scan] = scan[worker[v].scan]
<1>1. /\ worker \in [Workers -> WorkerStates] /\ TypeOK
      /\ worker[v].pc # "idle" /\ worker[v].scan # None =>
           worker[v].scan \in Inserted /\ worker[v].scan \in ScanIds
  BY DEF Shape, TypeOK, WorkersTrackScans, Inserted
<1>2. ASSUME NEW j \in Jobs, ClaimNext(w, j) PROVE worker'[v] = worker[v] /\ scan' = scan
  BY <1>1, <1>2 DEF ClaimNext, store
<1>3. ASSUME Passes(w) PROVE worker'[v] = worker[v] /\ scan' = scan
  BY <1>1, <1>3, WorkerGoesOn DEF Passes
<1>4. ASSUME FindsPrev(w) \/ FetchPrevIssues(w) \/ Releases(w) PROVE worker'[v] = worker[v] /\ scan' = scan
  BY <1>1, <1>4 DEF FindsPrev, FetchPrevIssues, Releases, store
<1>5. ASSUME InsertScan(w)
      PROVE  /\ worker'[v] = worker[v]
             /\ worker[v].pc # "idle" /\ worker[v].scan # None =>
                  scan'[worker[v].scan] = scan[worker[v].scan]
  BY <1>1, <1>5, ScanGetsInserted
<1>6. ASSUME NEW part \in Parts, Stores(w, part)
      PROVE  /\ worker'[v] = worker[v]
             /\ worker[v].pc # "idle" /\ worker[v].scan # None =>
                  scan'[worker[v].scan] = scan[worker[v].scan]
  <2>1. worker'[v] = worker[v]
    BY <1>1, <1>6, WorkerGoesOn DEF Stores
  <2>2. worker[v].pc # "idle" /\ worker[v].scan # None => worker[v].scan # worker[w].scan
    BY <1>6, StoresPart DEF Shape, ScansNotShared
  <2>3. QED
    BY <1>1, <1>6, <2>1, <2>2, StoresPart
<1>7. QED
  BY <1>2, <1>3, <1>4, <1>5, <1>6 DEF StepKind, Parts

-----------------------------------------------------------------------------
(* The invariant is preserved.                                             *)

LEMMA ScanCount ==
  ASSUME TypeOK
  PROVE  IsFiniteSet(Inserted) /\ Cardinality(Inserted) \in Nat /\ None \notin Inserted
<1>1. ScanIds \subseteq Nat /\ IsFiniteSet(ScanIds)
  BY PipelineAssumption, FS_Interval DEF ScanIds
<1>2. Inserted \in SUBSET ScanIds
  BY DEF Inserted
<1>3. QED
  BY <1>1, <1>2, FS_Subset, FS_CardinalityType, PipelineAssumption

LEMMA OrderStep == ASSUME Shape, [Next]_vars PROVE ScansInOrder'
<1>1. CASE Inserted' = Inserted
  BY <1>1 DEF Shape, ScansInOrder
<1>2. ASSUME NEW w \in Workers, InsertScan(w) PROVE ScansInOrder'
  <2>1. PICK s \in ScanIds : Inserted' = 1..s /\ s = Cardinality(Inserted) + 1
    BY <1>2, ScanGetsInserted
  <2>2. s \in Nat /\ s # 0
    BY <2>1, ScanCount DEF Shape
  <2>3. Cardinality(1..s) = s
    BY <2>2, FS_Interval
  <2>4. QED
    BY <2>1, <2>3 DEF ScansInOrder
<1>3. ASSUME scan' = scan PROVE Inserted' = Inserted
  BY <1>3 DEF Inserted
<1>4. ASSUME NEW w \in Workers, StepKind(w) PROVE Inserted' = Inserted \/ InsertScan(w)
  BY <1>3, <1>4, StoresPart
  DEF StepKind, Parts, Passes, FindsPrev, FetchPrevIssues, ClaimNext, Releases, store
<1>5. QED
  BY <1>1, <1>2, <1>3, <1>4, StepKinds, OtherSteps DEF Shape

LEMMA TrackScansStep == ASSUME Shape, [Next]_vars PROVE WorkersTrackScans'
<1> DEFINE Good(w) ==
      /\ worker[w].pc \in BeforeRow => worker[w].scan = None
      /\ worker[w].pc \in AfterRow => /\ worker[w].scan # None
                                      /\ scan[worker[w].scan].parts = StoredAt(worker[w].pc)
      /\ worker[w].scan # None => /\ worker[w].scan \in Inserted
                                  /\ scan[worker[w].scan].job = worker[w].job
                                  /\ scan[worker[w].scan].compared = worker[w].prev
<1> SUFFICES ASSUME NEW v \in Workers, worker'[v].pc # "idle"
             PROVE  /\ worker'[v].pc \in BeforeRow => worker'[v].scan = None
                    /\ worker'[v].pc \in AfterRow =>
                         /\ worker'[v].scan # None
                         /\ scan'[worker'[v].scan].parts = StoredAt(worker'[v].pc)
                    /\ worker'[v].scan # None =>
                         /\ worker'[v].scan \in Inserted'
                         /\ scan'[worker'[v].scan].job = worker'[v].job
                         /\ scan'[worker'[v].scan].compared = worker'[v].prev
  BY DEF WorkersTrackScans
<1>1. /\ TypeOK /\ worker \in [Workers -> WorkerStates]
      /\ worker[v].pc # "idle" => Good(v)
  BY DEF Shape, TypeOK, WorkersTrackScans
<1>2. AfterRow \cap BeforeRow = {} /\ "failed" \notin BeforeRow \cup AfterRow
  BY DEF AfterRow, BeforeRow, WorkerSteps
<1>3. ASSUME worker'[v] = worker[v],
             worker[v].scan # None => scan'[worker[v].scan] = scan[worker[v].scan]
      PROVE  Good(v)'
  BY <1>1, <1>3, <1>2, ScansStay DEF AfterRow, BeforeRow
<1>4. ASSUME NEW j \in Jobs, ClaimNext(v, j) PROVE Good(v)'
  <2>1. worker'[v] = [pc |-> "upsertProject", job |-> j, prev |-> None, old |-> Nothing, scan |-> None]
    BY <1>1, <1>4 DEF ClaimNext
  <2>2. QED
    BY <2>1, <1>2 DEF BeforeRow
<1>5. ASSUME Passes(v) PROVE Good(v)'
  <2>1. PICK next \in WorkerSteps :
          /\ GoesOn(v, next)
          /\ \/ next = "failed"
             \/ worker[v].pc \in BeforeRow /\ next \in BeforeRow
             \/ worker[v].pc \in AfterRow /\ next \in AfterRow /\ StoredAt(next) = StoredAt(worker[v].pc)
    BY <1>5 DEF Passes, BeforeRow
  <2>2. /\ worker'[v].pc = next /\ worker'[v].job = worker[v].job
        /\ worker'[v].prev = worker[v].prev /\ worker'[v].scan = worker[v].scan
        /\ worker[v].pc # "idle" /\ scan' = scan
    BY <1>1, <1>5, <2>1, WorkerGoesOn DEF GoesOn, Passes
  <2>3. QED
    BY <1>1, <1>2, <2>1, <2>2 DEF Inserted
<1>6. ASSUME FindsPrev(v) \/ FetchPrevIssues(v) PROVE Good(v)'
  <2>1. worker[v].pc \in BeforeRow /\ worker[v].pc # "idle"
    BY <1>6 DEF FindsPrev, FetchPrevIssues, BeforeRow
  <2>2. worker[v] \in [pc : WorkerSteps, job : Jobs, prev : ScanOrNone,
                       old : [Keys -> IssueStatuses \cup {None}], scan : ScanOrNone]
    BY <1>1, <2>1, BusyWorker
  <2>3. worker'[v].pc \in BeforeRow /\ worker'[v].scan = worker[v].scan
    BY <1>1, <1>6, <2>2 DEF FindsPrev, FetchPrevIssues, BeforeRow
  <2>4. QED
    BY <1>1, <1>2, <2>1, <2>3
<1>7. ASSUME InsertScan(v) PROVE Good(v)'
  <2>1. PICK s \in ScanIds :
          /\ Inserted' = Inserted \cup {s}
          /\ scan'[s].job = worker[v].job /\ scan'[s].compared = worker[v].prev
          /\ scan'[s].parts = {}
          /\ worker'[v].pc \in {"insertIssues", "failed"} /\ worker'[v].scan = s
          /\ worker'[v].job = worker[v].job /\ worker'[v].prev = worker[v].prev
    BY <1>7, ScanGetsInserted
  <2>2. s # None
    BY PipelineAssumption DEF ScanIds
  <2>3. worker'[v].pc \notin BeforeRow /\ (worker'[v].pc \in AfterRow => StoredAt(worker'[v].pc) = {})
    BY <2>1 DEF BeforeRow, AfterRow, StoredAt
  <2>4. QED
    BY <2>1, <2>2, <2>3
<1>8. ASSUME NEW part \in Parts, Stores(v, part) PROVE Good(v)'
  <2>1. PICK next \in WorkerSteps :
          /\ GoesOn(v, next)
          /\ next = "failed" \/ (next \in AfterRow /\ StoredAt(next) = StoredAt(worker[v].pc) \cup {part})
    BY <1>8 DEF Stores
  <2>2. /\ worker'[v].pc = next /\ worker'[v].job = worker[v].job
        /\ worker'[v].prev = worker[v].prev /\ worker'[v].scan = worker[v].scan
        /\ worker[v].pc # "idle" /\ worker[v].pc \in AfterRow
    BY <1>1, <1>8, <2>1, WorkerGoesOn DEF GoesOn, Stores
  <2>3. /\ worker[v].scan \in Inserted' /\ worker[v].scan # None
        /\ scan'[worker[v].scan].job = worker[v].job
        /\ scan'[worker[v].scan].compared = worker[v].prev
        /\ scan'[worker[v].scan].parts = StoredAt(worker[v].pc) \cup {part}
    BY <1>1, <1>2, <1>8, <2>2, StoresPart
  <2>4. QED
    BY <1>2, <2>1, <2>2, <2>3
<1>9. ASSUME Releases(v) PROVE FALSE
  BY <1>1, <1>9 DEF Releases, IdleWorker
<1>10. ASSUME NEW w \in Workers, StepKind(w), w # v PROVE Good(v)'
  BY <1>3, <1>10, OthersKept
<1>11. ASSUME StepKind(v) PROVE Good(v)'
  BY <1>4, <1>5, <1>6, <1>7, <1>8, <1>9, <1>11 DEF StepKind, Parts
<1>12. Good(v)'
  BY <1>1, <1>3, <1>10, <1>11, StepKinds, OtherSteps
<1>13. QED
  BY <1>12

\* The scan of a worker changes from none to one that was not there.
LEMMA ScanIsOwn ==
  ASSUME Shape, NEW w \in Workers, StepKind(w), worker'[w].pc # "idle"
  PROVE  \/ worker'[w].scan = None
         \/ worker[w].pc # "idle" /\ worker'[w].scan = worker[w].scan
         \/ worker'[w].scan \notin Inserted
<1>1. TypeOK /\ worker \in [Workers -> WorkerStates]
  BY DEF Shape, TypeOK
<1>2. ASSUME NEW j \in Jobs, ClaimNext(w, j) PROVE worker'[w].scan = None
  BY <1>1, <1>2 DEF ClaimNext
<1>3. ASSUME Passes(w) \/ \E part \in Parts : Stores(w, part)
      PROVE  worker[w].pc # "idle" /\ worker'[w].scan = worker[w].scan
  BY <1>1, <1>3, WorkerGoesOn DEF Passes, Stores, GoesOn
<1>4. ASSUME FindsPrev(w) \/ FetchPrevIssues(w)
      PROVE  worker[w].pc # "idle" /\ worker'[w].scan = worker[w].scan
  <2>1. worker[w] \in [pc : WorkerSteps, job : Jobs, prev : ScanOrNone,
                       old : [Keys -> IssueStatuses \cup {None}], scan : ScanOrNone]
        /\ worker[w].pc # "idle"
    BY <1>1, <1>4, BusyWorker DEF FindsPrev, FetchPrevIssues
  <2>2. QED
    BY <1>1, <1>4, <2>1 DEF FindsPrev, FetchPrevIssues
<1>5. ASSUME InsertScan(w) PROVE worker'[w].scan \notin Inserted
  BY <1>5, ScanGetsInserted
<1>6. ASSUME Releases(w) PROVE FALSE
  BY <1>1, <1>6 DEF Releases, IdleWorker
<1>7. QED
  BY <1>2, <1>3, <1>4, <1>5, <1>6 DEF StepKind, Parts

LEMMA NotSharedStep == ASSUME Shape, [Next]_vars PROVE ScansNotShared'
<1>1. \A w \in Workers : worker[w].pc # "idle" /\ worker[w].scan # None => worker[w].scan \in Inserted
  BY DEF Shape, WorkersTrackScans
<1>2. ASSUME NEW w \in Workers, StepKind(w), NEW v \in Workers, v # w,
             worker'[v].pc # "idle", worker'[w].pc # "idle", worker'[v].scan # None
      PROVE  worker'[v].scan # worker'[w].scan
  BY <1>1, <1>2, OthersKept, ScanIsOwn DEF Shape, ScansNotShared
<1>3. ASSUME NEW w \in Workers, StepKind(w), NEW u \in Workers, NEW v \in Workers, u # w, v # w, u # v,
             worker'[v].pc # "idle", worker'[u].pc # "idle", worker'[v].scan # None
      PROVE  worker'[v].scan # worker'[u].scan
  BY <1>3, OthersKept DEF Shape, ScansNotShared
<1>4. CASE \E w \in Workers : StepKind(w)
  BY <1>2, <1>3, <1>4 DEF ScansNotShared
<1>5. CASE worker' = worker
  BY <1>5 DEF Shape, ScansNotShared
<1>6. QED
  BY <1>4, <1>5, StepKinds, OtherSteps DEF Shape

LEMMA IssuesStep == ASSUME Shape, [Next]_vars PROVE IssuesHaveScans' /\ UsersNameIssues'
<1>1. ASSUME NEW s \in ScanIds, NEW k \in Keys, issue'[s][k] # None
      PROVE  s \in Inserted' /\ "issues" \in scan'[s].parts
  <2>1. CASE issue[s][k] # None
    BY <2>1, ScansStay DEF Shape, IssuesHaveScans
  <2>2. CASE issue[s][k] = None
    BY <1>1, <2>2, NewIssues, IssuesGetStored, ScansStay
  <2>3. QED
    BY <2>1, <2>2
<1>2. ASSUME NEW u \in Users, user'[u].pc = "decided"
      PROVE  issue'[user'[u].scan][user'[u].key] # None
  <2>1. CASE user'[u] = user[u]
    <3>1. user[u] \in UserStates /\ user[u].pc = "decided"
      BY <1>2, <2>1 DEF Shape, TypeOK
    <3>2. user[u] \notin {IdleUser, [pc |-> "done"]}
      BY <3>1 DEF IdleUser
    <3>3. user[u] \in [pc : {"decided"}, scan : ScanIds, key : Keys, to : IssueStatuses]
      BY <3>1, <3>2, Zenon DEF UserStates
    <3>4. QED
      BY <2>1, <3>1, <3>3, IssuesStay DEF Shape, UsersNameIssues
  <2>2. ASSUME NEW t \in Users, WriteTransition(t), user'[u] # user[u] PROVE FALSE
    BY <1>2, <2>2 DEF WriteTransition, Shape, TypeOK
  <2>3. ASSUME NEW t \in Users, NEW s \in ScanIds, NEW k \in Keys, ReadForTransition(t, s, k),
               user'[u] # user[u]
        PROVE  issue'[user'[u].scan][user'[u].key] # None
    <3>1. user'[u].scan = s /\ user'[u].key = k
      <4>1. PICK to : user' = [user EXCEPT ![t] = [pc |-> "decided", scan |-> s, key |-> k, to |-> to]]
        BY <2>3 DEF ReadForTransition
      <4>2. user \in [Users -> UserStates]
        BY DEF Shape, TypeOK
      <4>3. QED
        BY <2>3, <4>1, <4>2
    <3>2. QED
      BY <2>3, <3>1 DEF ReadForTransition, store
  <2>4. user' = user \/ (\E t \in Users : WriteTransition(t))
          \/ (\E t \in Users, s \in ScanIds, k \in Keys : ReadForTransition(t, s, k))
    BY ZenonT(60)
    DEF Next, Step, ClaimNext, UpsertProject, FetchPrevScan, FetchPrevScanFails, FetchPrevIssues,
        FetchPrevIssuesFails, InsertScan, InsertRow, InsertIssues, InsertMeasures, UpsertLive,
        UpsertRollup, ReplaceSnapshot, ReplaceProfiles, EnqueueSearchIndex, DispatchScanWebhook,
        DispatchGateChanged, HandOver, Abort, LogAndGoOn, PassOver, MarkCompleted, MarkFailed,
        Abandon, RecoverStale, EditProject, vars
  <2>5. QED
    BY <2>1, <2>2, <2>3, <2>4
<1>3. QED
  BY <1>1, <1>2 DEF IssuesHaveScans, UsersNameIssues

\* GetLatestInScope selects no scan of a scope that is apart from the one asked
\* for, whatever the default branch is.
LEMMA InScopeIsNotApart ==
  ASSUME NEW s, NEW j \in Jobs, NEW default,
         InScope(s, <<Report[j].type, Report[j].name>>, default)
  PROVE  ~Apart(<<Report[j].type, Report[j].name>>, ScopeOf(s))
<1>1. Report[j].type \in {"branch", "pull_request"}
  BY PipelineAssumption DEF Reports
<1>2. QED
  BY <1>1 DEF InScope, Apart

LEMMA ReadsStep == ASSUME Shape, [Next]_vars PROVE ReadsAreOfScope'
<1> DEFINE Good(w) ==
      /\ worker[w].pc \in {"upsertProject", "fetchPrevScan"} => worker[w].prev = None
      /\ worker[w].pc = "fetchPrevIssues" => worker[w].prev # None
      /\ worker[w].prev # None =>
           /\ worker[w].prev \in Inserted
           /\ ~Apart(<<Report[worker[w].job].type, Report[worker[w].job].name>>,
                     ScopeOf(worker[w].prev))
      /\ \A k \in Keys : worker[w].old[k] # None =>
           worker[w].prev # None /\ issue[worker[w].prev][k] # None
<1> SUFFICES ASSUME NEW v \in Workers, worker'[v].pc # "idle" PROVE Good(v)'
  BY DEF ReadsAreOfScope
<1>1. /\ TypeOK /\ worker \in [Workers -> WorkerStates]
      /\ worker[v].pc # "idle" => Good(v)
  BY DEF Shape, TypeOK, ReadsAreOfScope
<1>2. /\ \A s \in Inserted : s \in ScanIds /\ s \in Inserted' /\ ScopeOf(s)' = ScopeOf(s)
      /\ \A s \in ScanIds, k \in Keys : issue[s][k] # None => issue'[s][k] # None
  BY ScansStay, IssuesStay DEF ScopeOf, Inserted
<1>3. ASSUME worker[v].pc # "idle",
             \/ worker'[v].pc = worker[v].pc
             \/ worker[v].pc = "upsertProject" /\ worker'[v].pc = "fetchPrevScan"
             \/ worker'[v].pc \notin {"upsertProject", "fetchPrevScan", "fetchPrevIssues"},
             worker'[v].job = worker[v].job, worker'[v].prev = worker[v].prev,
             worker'[v].old = worker[v].old
      PROVE  Good(v)'
  BY <1>1, <1>2, <1>3
<1>4. ASSUME NEW j \in Jobs, ClaimNext(v, j) PROVE Good(v)'
  <2>1. worker'[v] = [pc |-> "upsertProject", job |-> j, prev |-> None, old |-> Nothing, scan |-> None]
    BY <1>1, <1>4 DEF ClaimNext
  <2>2. QED
    BY <2>1 DEF Nothing
<1>5. ASSUME Passes(v) PROVE Good(v)'
  <2>1. PICK next \in WorkerSteps :
          /\ GoesOn(v, next)
          /\ \/ worker[v].pc = "upsertProject" /\ next = "fetchPrevScan"
             \/ next \notin {"upsertProject", "fetchPrevScan", "fetchPrevIssues"}
    BY <1>5 DEF Passes, AfterRow, BeforeRow
  <2>2. QED
    BY <1>1, <1>3, <2>1, WorkerGoesOn DEF GoesOn
<1>6. ASSUME NEW part \in Parts, Stores(v, part) PROVE Good(v)'
  <2>1. PICK next \in WorkerSteps :
          GoesOn(v, next) /\ next \notin {"upsertProject", "fetchPrevScan", "fetchPrevIssues"}
    BY <1>6 DEF Stores, AfterRow, BeforeRow
  <2>2. QED
    BY <1>1, <1>3, <2>1, WorkerGoesOn DEF GoesOn
<1>7. ASSUME FindsPrev(v) PROVE Good(v)'
  <2>1. PICK s \in Inserted :
          /\ worker' = [worker EXCEPT ![v].pc = "fetchPrevIssues", ![v].prev = s]
          /\ \E default : InScope(s, <<Report[worker[v].job].type, Report[worker[v].job].name>>, default)
    BY <1>7 DEF FindsPrev
  <2>2. /\ worker[v] \in [pc : WorkerSteps, job : Jobs, prev : ScanOrNone,
                          old : [Keys -> IssueStatuses \cup {None}], scan : ScanOrNone]
        /\ worker[v].pc # "idle" /\ worker[v].pc = "fetchPrevScan"
    BY <1>1, <1>7, BusyWorker DEF FindsPrev
  <2>3. /\ worker'[v].pc = "fetchPrevIssues" /\ worker'[v].prev = s
        /\ worker'[v].job = worker[v].job /\ worker'[v].old = worker[v].old
    BY <1>1, <2>1, <2>2
  <2>4. \A k \in Keys : worker[v].old[k] = None
    BY <1>1, <2>2
  <2>5. ~Apart(<<Report[worker[v].job].type, Report[worker[v].job].name>>, ScopeOf(s)) /\ s # None
    BY <1>1, <2>1, <2>2, InScopeIsNotApart, ScanCount
  <2>6. ScopeOf(s)' = ScopeOf(s) /\ s \in Inserted'
    BY <1>2, <2>1
  <2>7. QED
    BY <2>3, <2>4, <2>5, <2>6
<1>8. ASSUME FetchPrevIssues(v) PROVE Good(v)'
  <2> DEFINE row == issue[worker[v].prev]
             read(page) == [k \in Keys |-> IF k \in page THEN row[k].status ELSE None]
  <2>1. PICK page \in SUBSET {k \in Keys : row[k] # None} :
          worker' = [worker EXCEPT ![v].pc = "insertScan", ![v].old = read(page)]
    BY <1>8 DEF FetchPrevIssues
  <2>2. /\ worker[v] \in [pc : WorkerSteps, job : Jobs, prev : ScanOrNone,
                          old : [Keys -> IssueStatuses \cup {None}], scan : ScanOrNone]
        /\ worker[v].pc # "idle" /\ worker[v].pc = "fetchPrevIssues"
    BY <1>1, <1>8, BusyWorker DEF FetchPrevIssues
  <2>3. \A k \in Keys : read(page)[k] # None => row[k] # None
    BY <2>1
  <2> HIDE DEF read
  <2>4. /\ worker'[v].pc = "insertScan" /\ worker'[v].prev = worker[v].prev
        /\ worker'[v].job = worker[v].job /\ worker'[v].old = read(page)
    BY <1>1, <2>1, <2>2
  <2>5. worker[v].prev # None /\ worker[v].prev \in Inserted
    BY <1>1, <2>2
  <2>6. \A k \in Keys : worker'[v].old[k] # None => issue'[worker[v].prev][k] # None
    BY <1>2, <2>3, <2>4, <2>5
  <2>7. ScopeOf(worker[v].prev)' = ScopeOf(worker[v].prev) /\ worker'[v].prev \in Inserted'
    BY <2>4, <2>5, ScansStay DEF ScopeOf
  <2>8. ~Apart(<<Report[worker[v].job].type, Report[worker[v].job].name>>, ScopeOf(worker[v].prev))
    BY <1>1, <2>2, <2>5
  <2>9. QED
    BY <1>2, <2>4, <2>5, <2>6, <2>7, <2>8
<1>9. ASSUME InsertScan(v) PROVE Good(v)'
  <2>1. worker[v].pc # "idle"
    BY <1>9 DEF InsertScan, InsertRow
  <2>2. QED
    BY <1>3, <1>9, <2>1, ScanGetsInserted
<1>10. ASSUME Releases(v) PROVE FALSE
  BY <1>1, <1>10 DEF Releases, IdleWorker
<1>11. ASSUME worker'[v] = worker[v] PROVE Good(v)'
  BY <1>3, <1>11
<1>12. ASSUME NEW w \in Workers, StepKind(w), w # v PROVE Good(v)'
  BY <1>11, <1>12, OthersKept
<1>13. ASSUME StepKind(v) PROVE Good(v)'
  BY <1>4, <1>5, <1>6, <1>7, <1>8, <1>9, <1>10, <1>13 DEF StepKind, Parts
<1>14. QED
  BY <1>1, <1>11, <1>12, <1>13, StepKinds, OtherSteps

LEMMA ShapeStep == Shape /\ [Next]_vars => Shape'
BY TypeStep, OrderStep, TrackScansStep, NotSharedStep, IssuesStep, ReadsStep DEF Shape

LEMMA ShapeInit == Init => Shape
<1> SUFFICES ASSUME Init PROVE Shape
  OBVIOUS
<1>1. Inserted = {}
  BY DEF Init, Inserted
<1>2. TypeOK
  <2>1. job \in [Jobs -> JobRows] /\ scan \in [ScanIds -> ScanRows \cup {None}]
    BY DEF Init, JobRows, ScanOrNone
  <2>2. issue \in [ScanIds -> [Keys -> IssueRows \cup {None}]]
    BY DEF Init, Nothing
  <2>3. worker \in [Workers -> WorkerStates] /\ user \in [Users -> UserStates]
    BY DEF Init, WorkerStates, UserStates
  <2>4. samples \in Nat /\ faults \in Nat
    BY DEF Init
  <2>5. live \in ScanOrNone /\ snapshot \in [Scopes -> ScanOrNone]
    BY DEF Init, ScanOrNone
  <2>6. QED
    BY <2>1, <2>2, <2>3, <2>4, <2>5 DEF Init, TypeOK
<1>3. ScansInOrder
  <2>1. 1..0 = {}
    OBVIOUS
  <2>2. QED
    BY <1>1, <2>1, FS_EmptySet DEF ScansInOrder
<1>4. QED
  BY <1>1, <1>2, <1>3
  DEF Init, Shape, WorkersTrackScans, ScansNotShared, IssuesHaveScans, UsersNameIssues,
      ReadsAreOfScope, IdleWorker, IdleUser, Nothing

\* Rows, goroutines and users are well formed; no two workers store the same
\* scan, whoever took their job back, and what a worker has stored of its scan
\* is what the steps before its next one store.
THEOREM TypeCorrect == Spec => []Shape
BY ShapeInit, ShapeStep, PTL DEF Spec

-----------------------------------------------------------------------------
(* Tracking.                                                               *)

LEMMA GroundedStep == ASSUME Shape, TrackingIsGrounded, [Next]_vars PROVE TrackingIsGrounded'
<1> SUFFICES ASSUME NEW s \in Inserted', NEW k \in Keys, issue'[s][k] # None,
                    issue'[s][k].tracking # "new"
             PROVE  /\ scan'[s].compared \in Inserted'
                    /\ ~Apart(ScopeOf(s), ScopeOf(scan[s].compared))'
                    /\ issue'[scan'[s].compared][k] # None
  BY DEF TrackingIsGrounded
<1>1. s \in ScanIds
  BY DEF Inserted
<1>2. s \in Inserted
  BY <1>1, IssuesGetStored, NewIssues DEF Shape, IssuesHaveScans
<1>3. ASSUME scan[s].compared \in Inserted,
             ~Apart(ScopeOf(s), ScopeOf(scan[s].compared)),
             issue[scan[s].compared][k] # None
      PROVE  /\ scan'[s].compared \in Inserted'
             /\ ~Apart(ScopeOf(s), ScopeOf(scan[s].compared))'
             /\ issue'[scan'[s].compared][k] # None
  <2>1. scan'[s].compared = scan[s].compared /\ ScopeOf(s)' = ScopeOf(s)
    BY <1>2, ScansStay DEF ScopeOf
  <2>2. /\ scan[s].compared \in Inserted' /\ scan[s].compared \in ScanIds
        /\ ScopeOf(scan[s].compared)' = ScopeOf(scan[s].compared)
    BY <1>3, <2>1, ScansStay DEF ScopeOf, Inserted
  <2>3. QED
    BY <1>1, <1>3, <2>1, <2>2, IssuesStay
<1>4. CASE issue[s][k] # None
  <2>1. issue[s][k].tracking # "new"
    BY <1>1, <1>4, IssuesStay
  <2>2. QED
    BY <1>2, <1>3, <1>4, <2>1 DEF TrackingIsGrounded
<1>5. CASE issue[s][k] = None
  <2>1. PICK w \in Workers : InsertIssues(w) /\ s = worker[w].scan
    BY <1>1, <1>5, NewIssues
  <2>2. Track(worker[w].old[k]) # "new"
    BY <2>1, IssuesGetStored
  <2>3. worker[w].old[k] # None
    BY <2>2, NullAssumption DEF Track, IssueStatuses
  <2>4. /\ worker[w].pc # "idle" /\ s # None
        /\ scan[s].job = worker[w].job /\ scan[s].compared = worker[w].prev
    BY <1>2, <2>1, ScanCount DEF InsertIssues, Shape, WorkersTrackScans
  <2>5. /\ worker[w].prev \in Inserted /\ issue[worker[w].prev][k] # None
        /\ ~Apart(<<Report[worker[w].job].type, Report[worker[w].job].name>>, ScopeOf(worker[w].prev))
    BY <2>3, <2>4 DEF Shape, ReadsAreOfScope
  <2>6. QED
    BY <1>3, <2>4, <2>5 DEF ScopeOf
<1>6. QED
  BY <1>4, <1>5

\* An issue is called unchanged or reopened only by comparison with a scan that
\* holds it and belongs to the same branch or pull request, however ingests,
\* faults, users and changes of the default branch interleave.
THEOREM TrackingNeverGuesses == Spec => []TrackingIsSound
<1>1. Init => TrackingIsGrounded
  BY DEF Init, TrackingIsGrounded, Inserted
<1>2. Shape /\ TrackingIsGrounded /\ [Next]_vars => TrackingIsGrounded'
  BY GroundedStep
<1>3. Shape /\ TrackingIsGrounded => TrackingIsSound
  BY DEF Shape, TrackingIsSound
<1>4. QED
  BY <1>1, <1>2, <1>3, TypeCorrect, PTL DEF Spec

-----------------------------------------------------------------------------
(* Stored before shown.                                                    *)

\* A job becomes completed by the worker that has stored its scan.
LEMMA JobLinks ==
  ASSUME Shape, [Next]_vars, NEW j \in Jobs, job'[j].status = "completed"
  PROVE  \/ job[j].status = "completed" /\ job'[j].scan = job[j].scan
         \/ \E w \in Workers : MarkCompleted(w) /\ worker[w].job = j /\ job'[j].scan = worker[w].scan
<1>1. job \in [Jobs -> JobRows]
  BY DEF Shape, TypeOK
<1>2. ASSUME NEW w \in Workers, NEW i \in Jobs, ClaimNext(w, i)
      PROVE  job[j].status = "completed" /\ job'[j].scan = job[j].scan
  <2>1. job' = [job EXCEPT ![i].status = "running", ![i].attempts = @ + 1]
    BY <1>2 DEF ClaimNext
  <2>2. j # i
    BY <1>1, <2>1 DEF JobRows
  <2>3. QED
    BY <1>1, <2>1, <2>2
<1>3. ASSUME NEW w \in Workers, MarkCompleted(w)
      PROVE  \/ job[j].status = "completed" /\ job'[j].scan = job[j].scan
             \/ MarkCompleted(w) /\ worker[w].job = j /\ job'[j].scan = worker[w].scan
  BY <1>1, <1>3 DEF MarkCompleted, JobRows
<1>4. ASSUME NEW w \in Workers, MarkFailed(w)
      PROVE  job[j].status = "completed" /\ job'[j].scan = job[j].scan
  BY <1>1, <1>4 DEF MarkFailed, JobRows
<1>5. ASSUME NEW i \in Jobs, RecoverStale(i)
      PROVE  job[j].status = "completed" /\ job'[j].scan = job[j].scan
  BY <1>1, <1>5 DEF RecoverStale, JobRows
<1>6. ASSUME job' = job PROVE job[j].status = "completed" /\ job'[j].scan = job[j].scan
  BY <1>6
<1>7. QED
  BY <1>2, <1>3, <1>4, <1>5, <1>6, ZenonT(60)
  DEF Next, Step, UpsertProject, FetchPrevScan, FetchPrevScanFails, FetchPrevIssues,
      FetchPrevIssuesFails, InsertScan, InsertRow, InsertIssues, InsertMeasures, UpsertLive,
      UpsertRollup, ReplaceSnapshot, ReplaceProfiles, EnqueueSearchIndex, DispatchScanWebhook,
      DispatchGateChanged, HandOver, Abort, LogAndGoOn, PassOver, Abandon, EditProject,
      WriteTransition, ReadForTransition, vars

LEMMA LinkedStep == ASSUME Shape, LinkedScanWhole, [Next]_vars PROVE LinkedScanWhole'
<1> SUFFICES ASSUME NEW j \in Jobs, job'[j].status = "completed"
             PROVE  /\ job'[j].scan \in Inserted' /\ scan'[job'[j].scan].job = j
                    /\ scan'[job'[j].scan].parts = Parts
  BY DEF LinkedScanWhole
<1>1. /\ job'[j].scan \in Inserted /\ scan[job'[j].scan].job = j
      /\ scan[job'[j].scan].parts = Parts
  <2>1. ASSUME NEW w \in Workers, MarkCompleted(w), worker[w].job = j, job'[j].scan = worker[w].scan
        PROVE  /\ job'[j].scan \in Inserted /\ scan[job'[j].scan].job = j
               /\ scan[job'[j].scan].parts = Parts
    BY <2>1, WorkerScan DEF MarkCompleted, AfterRow, BeforeRow, WorkerSteps, StoredAt
  <2>2. QED
    BY <2>1, JobLinks DEF LinkedScanWhole
<1>2. scan'[job'[j].scan].parts \subseteq Parts
  <2>1. TypeOK' /\ job'[j].scan \in Inserted'
    BY <1>1, TypeStep, ScansStay
  <2>2. scan'[job'[j].scan] \in ScanRows
    BY <2>1 DEF TypeOK, Inserted
  <2>3. QED
    BY <2>2 DEF ScanRows
<1>3. QED
  BY <1>1, <1>2, ScansStay

\* What is newly shown is stored: the order of the steps of Ingest.
LEMMA NewlyPublished ==
  ASSUME Shape, [Next]_vars
  PROVE  /\ live' # live => \E w \in Workers : live' = worker[w].scan /\ worker[w].pc = "upsertLive"
         /\ \A c \in Scopes : snapshot'[c] # snapshot[c] =>
              \E w \in Workers : snapshot'[c] = worker[w].scan /\ worker[w].pc = "replaceSnapshot"
         /\ \A h \in handed' \ handed :
              \E w \in Workers : /\ h[2] = worker[w].scan
                                 /\ worker[w].pc \in {"enqueueIndex", "fireCompleted", "fireGateChanged"}
<1>1. snapshot \in [Scopes -> ScanOrNone]
  BY DEF Shape, TypeOK
<1>2. ASSUME live' # live PROVE \E w \in Workers : UpsertLive(w)
  BY <1>2, ZenonT(60)
  DEF Next, Step, ClaimNext, UpsertProject, FetchPrevScan, FetchPrevScanFails, FetchPrevIssues,
      FetchPrevIssuesFails, InsertScan, InsertRow, InsertIssues, InsertMeasures, UpsertRollup,
      ReplaceSnapshot, ReplaceProfiles, EnqueueSearchIndex, DispatchScanWebhook,
      DispatchGateChanged, HandOver, Abort, LogAndGoOn, PassOver, MarkCompleted, MarkFailed,
      Abandon, RecoverStale, EditProject, WriteTransition, ReadForTransition, vars, store
<1>3. ASSUME snapshot' # snapshot PROVE \E w \in Workers : ReplaceSnapshot(w)
  BY <1>3, ZenonT(60)
  DEF Next, Step, ClaimNext, UpsertProject, FetchPrevScan, FetchPrevScanFails, FetchPrevIssues,
      FetchPrevIssuesFails, InsertScan, InsertRow, InsertIssues, InsertMeasures, UpsertLive,
      UpsertRollup, ReplaceProfiles, EnqueueSearchIndex, DispatchScanWebhook, DispatchGateChanged,
      HandOver, Abort, LogAndGoOn, PassOver, MarkCompleted, MarkFailed, Abandon, RecoverStale,
      EditProject, WriteTransition, ReadForTransition, vars, store
<1>4. ASSUME handed' # handed
      PROVE  \E w \in Workers : EnqueueSearchIndex(w) \/ DispatchScanWebhook(w) \/ DispatchGateChanged(w)
  BY <1>4, ZenonT(60)
  DEF Next, Step, ClaimNext, UpsertProject, FetchPrevScan, FetchPrevScanFails, FetchPrevIssues,
      FetchPrevIssuesFails, InsertScan, InsertRow, InsertIssues, InsertMeasures, UpsertLive,
      UpsertRollup, ReplaceSnapshot, ReplaceProfiles, Abort, LogAndGoOn, PassOver, MarkCompleted,
      MarkFailed, Abandon, RecoverStale, EditProject, WriteTransition, ReadForTransition, vars
<1>5. live' # live => \E w \in Workers : live' = worker[w].scan /\ worker[w].pc = "upsertLive"
  BY <1>2 DEF UpsertLive
<1>6. ASSUME NEW c \in Scopes, snapshot'[c] # snapshot[c]
      PROVE  \E w \in Workers : snapshot'[c] = worker[w].scan /\ worker[w].pc = "replaceSnapshot"
  BY <1>1, <1>3, <1>6 DEF ReplaceSnapshot
<1>7. ASSUME NEW h \in handed', h \notin handed
      PROVE  \E w \in Workers : /\ h[2] = worker[w].scan
                                /\ worker[w].pc \in {"enqueueIndex", "fireCompleted", "fireGateChanged"}
  BY <1>4, <1>7 DEF EnqueueSearchIndex, DispatchScanWebhook, DispatchGateChanged, HandOver
<1>8. QED
  BY <1>5, <1>6, <1>7

LEMMA PublishedStep == ASSUME Shape, PublishedIsStored, [Next]_vars PROVE PublishedIsStored'
<1>1. ASSUME NEW s, s \in Inserted, {"issues", "measures"} \subseteq scan[s].parts
      PROVE  s \in Inserted' /\ {"issues", "measures"} \subseteq scan'[s].parts
  BY <1>1, ScansStay
<1>2. ASSUME NEW s, s \in Inserted, scan[s].parts = Parts
      PROVE  s \in Inserted' /\ scan'[s].parts = Parts
  <2>1. s \in Inserted' /\ scan[s].parts \subseteq scan'[s].parts
    BY <1>2, ScansStay
  <2>2. scan'[s] \in ScanRows
    BY <2>1, TypeStep DEF TypeOK, Inserted
  <2>3. QED
    BY <1>2, <2>1, <2>2 DEF ScanRows
<1>3. ASSUME NEW w \in Workers, worker[w].pc \in {"upsertLive", "replaceSnapshot"}
      PROVE  worker[w].scan \in Inserted /\ {"issues", "measures"} \subseteq scan[worker[w].scan].parts
  BY <1>3, WorkerScan DEF AfterRow, BeforeRow, WorkerSteps, StoredAt
<1>4. ASSUME NEW w \in Workers, worker[w].pc \in {"enqueueIndex", "fireCompleted", "fireGateChanged"}
      PROVE  worker[w].scan \in Inserted /\ scan[worker[w].scan].parts = Parts
  BY <1>4, WorkerScan DEF AfterRow, BeforeRow, WorkerSteps, StoredAt
<1>5. live' # None => live' \in Inserted' /\ {"issues", "measures"} \subseteq scan'[live'].parts
  BY <1>1, <1>3, NewlyPublished DEF PublishedIsStored
<1>6. ASSUME NEW c \in Scopes, snapshot'[c] # None
      PROVE  snapshot'[c] \in Inserted' /\ {"issues", "measures"} \subseteq scan'[snapshot'[c]].parts
  <2>1. CASE snapshot'[c] = snapshot[c]
    BY <1>1, <1>6, <2>1 DEF PublishedIsStored
  <2>2. CASE snapshot'[c] # snapshot[c]
    BY <1>1, <1>3, <2>2, NewlyPublished
  <2>3. QED
    BY <2>1, <2>2
<1>7. ASSUME NEW h \in handed' PROVE h[2] \in Inserted' /\ scan'[h[2]].parts = Parts
  <2>1. CASE h \in handed
    BY <1>2, <2>1 DEF PublishedIsStored
  <2>2. CASE h \notin handed
    BY <1>2, <1>4, <2>2, NewlyPublished
  <2>3. QED
    BY <2>1, <2>2
<1>8. QED
  BY <1>5, <1>6, <1>7 DEF PublishedIsStored

\* A completed job links a scan of its own report that is stored in full, live
\* measures and snapshots show no scan whose issues and measures are missing,
\* and the search index and the webhooks are told of no scan before it is whole,
\* whatever fails, stops, times out or is processed twice.
THEOREM NothingIsShownHalf == Spec => []StoredBeforeShown
<1>1. Init => LinkedScanWhole /\ PublishedIsStored
  BY DEF Init, LinkedScanWhole, PublishedIsStored
<1>2. Shape /\ LinkedScanWhole /\ [Next]_vars => LinkedScanWhole'
  BY LinkedStep
<1>3. Shape /\ PublishedIsStored /\ [Next]_vars => PublishedIsStored'
  BY PublishedStep
<1>4. LinkedScanWhole /\ PublishedIsStored => StoredBeforeShown
  BY DEF StoredBeforeShown
<1>5. QED
  BY <1>1, <1>2, <1>3, <1>4, TypeCorrect, PTL DEF Spec

-----------------------------------------------------------------------------
(* Claims bound scans.                                                     *)

\* A claim adds one attempt, and nothing takes attempts back.
LEMMA AttemptsStep ==
  ASSUME Shape, [Next]_vars, NEW j \in Jobs
  PROVE  /\ job[j].attempts \in Nat /\ job'[j].attempts \in Nat
         /\ job[j].attempts <= job'[j].attempts
         /\ (\E w \in Workers : ClaimNext(w, j)) => job'[j].attempts = job[j].attempts + 1
<1>1. job \in [Jobs -> JobRows] /\ job[j].attempts \in Nat /\ job'[j].attempts \in Nat
  BY TypeStep DEF Shape, TypeOK, JobRows
<1>2. ASSUME NEW w \in Workers, NEW i \in Jobs, ClaimNext(w, i)
      PROVE  job'[j].attempts = IF i = j THEN job[j].attempts + 1 ELSE job[j].attempts
  <2>1. job' = [job EXCEPT ![i].status = "running", ![i].attempts = @ + 1]
    BY <1>2 DEF ClaimNext
  <2>2. QED
    BY <1>1, <2>1 DEF JobRows
<1>3. ASSUME ~(\E w \in Workers, i \in Jobs : ClaimNext(w, i)) PROVE job'[j].attempts = job[j].attempts
  <2>1. ASSUME NEW w \in Workers, MarkCompleted(w) \/ MarkFailed(w)
        PROVE  job'[j].attempts = job[j].attempts
    BY <1>1, <2>1 DEF MarkCompleted, MarkFailed, JobRows
  <2>2. ASSUME NEW i \in Jobs, RecoverStale(i) PROVE job'[j].attempts = job[j].attempts
    BY <1>1, <2>2 DEF RecoverStale, JobRows
  <2>3. CASE job' = job
    BY <2>3
  <2>4. QED
    BY <1>3, <2>1, <2>2, <2>3, ZenonT(60)
    DEF Next, Step, UpsertProject, FetchPrevScan, FetchPrevScanFails, FetchPrevIssues,
        FetchPrevIssuesFails, InsertScan, InsertRow, InsertIssues, InsertMeasures, UpsertLive,
        UpsertRollup, ReplaceSnapshot, ReplaceProfiles, EnqueueSearchIndex, DispatchScanWebhook,
        DispatchGateChanged, HandOver, Abort, LogAndGoOn, PassOver, Abandon, EditProject,
        WriteTransition, ReadForTransition, vars
<1>4. CASE \E w \in Workers : ClaimNext(w, j)
  BY <1>1, <1>2, <1>4
<1>5. CASE \E w \in Workers, i \in Jobs : ClaimNext(w, i) /\ i # j
  <2>1. job'[j].attempts = job[j].attempts
    BY <1>2, <1>5
  <2>2. ~(\E w \in Workers : ClaimNext(w, j))
    <3>1. PICK u \in Workers, i \in Jobs : ClaimNext(u, i) /\ i # j
      BY <1>5
    <3>2. job[i].status = "accepted" /\ job'[i].status = "running"
      BY <1>1, <3>1 DEF ClaimNext, JobRows
    <3>3. ASSUME NEW w \in Workers, ClaimNext(w, j) PROVE FALSE
      <4>1. job'[i].status = job[i].status
        BY <1>1, <3>1, <3>3 DEF ClaimNext
      <4>2. QED
        BY <3>2, <4>1
    <3>4. QED
      BY <3>3
  <2>3. QED
    BY <1>1, <2>1, <2>2
<1>6. CASE ~(\E w \in Workers, i \in Jobs : ClaimNext(w, i))
  BY <1>1, <1>3, <1>6
<1>7. QED
  BY <1>4, <1>5, <1>6

\* What a step of worker w does to the workers that may insert a scan of job j
\* and to the scans of j.
LEMMA InsertersStep ==
  ASSUME Shape, NEW w \in Workers, StepKind(w), NEW j \in Jobs
  PROVE  \/ /\ ClaimNext(w, j) /\ MayInsert(j)' = MayInsert(j) \cup {w} /\ ScansOf(j)' = ScansOf(j)
         \/ MayInsert(j)' \subseteq MayInsert(j) /\ ScansOf(j)' = ScansOf(j)
         \/ \E s : /\ w \in MayInsert(j) /\ MayInsert(j)' = MayInsert(j) \ {w}
                   /\ s \notin ScansOf(j) /\ ScansOf(j)' = ScansOf(j) \cup {s}
<1>1. /\ TypeOK /\ worker \in [Workers -> WorkerStates]
      /\ \A v \in Workers : v # w => worker'[v] = worker[v]
  BY OthersKept DEF Shape, TypeOK
<1>2. ASSUME scan' = scan PROVE ScansOf(j)' = ScansOf(j)
  BY <1>2 DEF ScansOf, Inserted
<1>3. ASSUME worker'[w].pc # "idle" => /\ worker[w].pc # "idle" /\ worker'[w].job = worker[w].job
                                       /\ worker'[w].scan = worker[w].scan
      PROVE  MayInsert(j)' \subseteq MayInsert(j)
  BY <1>1, <1>3 DEF MayInsert
<1>4. ASSUME NEW i \in Jobs, ClaimNext(w, i)
      PROVE  \/ i = j /\ MayInsert(j)' = MayInsert(j) \cup {w} /\ ScansOf(j)' = ScansOf(j)
             \/ MayInsert(j)' \subseteq MayInsert(j) /\ ScansOf(j)' = ScansOf(j)
  <2>1. worker'[w] = [pc |-> "upsertProject", job |-> i, prev |-> None, old |-> Nothing, scan |-> None]
        /\ worker[w].pc = "idle" /\ scan' = scan
    BY <1>1, <1>4 DEF ClaimNext, store
  <2>2. worker'[w].pc = "upsertProject" /\ worker'[w].job = i /\ worker'[w].scan = None
    BY <2>1
  <2>3. IF i = j THEN MayInsert(j)' = MayInsert(j) \cup {w} ELSE MayInsert(j)' \subseteq MayInsert(j)
    BY <1>1, <2>1, <2>2 DEF MayInsert
  <2>4. QED
    BY <1>2, <2>1, <2>3
<1>5. ASSUME Passes(w) PROVE MayInsert(j)' \subseteq MayInsert(j) /\ ScansOf(j)' = ScansOf(j)
  BY <1>1, <1>2, <1>3, <1>5, WorkerGoesOn DEF Passes, GoesOn
<1>6. ASSUME FindsPrev(w) \/ FetchPrevIssues(w)
      PROVE  MayInsert(j)' \subseteq MayInsert(j) /\ ScansOf(j)' = ScansOf(j)
  <2>1. worker[w] \in [pc : WorkerSteps, job : Jobs, prev : ScanOrNone,
                       old : [Keys -> IssueStatuses \cup {None}], scan : ScanOrNone]
        /\ worker[w].pc # "idle" /\ scan' = scan
    BY <1>1, <1>6, BusyWorker DEF FindsPrev, FetchPrevIssues, store
  <2>2. worker'[w].job = worker[w].job /\ worker'[w].scan = worker[w].scan
    BY <1>1, <1>6, <2>1 DEF FindsPrev, FetchPrevIssues
  <2>3. QED
    BY <1>2, <1>3, <2>1, <2>2
<1>7. ASSUME InsertScan(w)
      PROVE  \/ MayInsert(j)' \subseteq MayInsert(j) /\ ScansOf(j)' = ScansOf(j)
             \/ \E s : /\ w \in MayInsert(j) /\ MayInsert(j)' = MayInsert(j) \ {w}
                       /\ s \notin ScansOf(j) /\ ScansOf(j)' = ScansOf(j) \cup {s}
  <2>1. PICK s \in ScanIds :
          /\ s \notin Inserted /\ Inserted' = Inserted \cup {s}
          /\ scan'[s].job = worker[w].job
          /\ \A t \in ScanIds : t # s => scan'[t] = scan[t]
          /\ worker'[w].scan = s
          /\ worker'[w].job = worker[w].job
    BY <1>7, ScanGetsInserted
  <2>2. worker[w].pc # "idle" /\ worker[w].scan = None /\ s # None
    BY <1>7, PipelineAssumption
    DEF InsertScan, InsertRow, Shape, WorkersTrackScans, BeforeRow, ScanIds
  <2>3. Inserted \subseteq ScanIds
    BY DEF Inserted
  <2>4. CASE worker[w].job = j
    <3>1. w \in MayInsert(j) /\ MayInsert(j)' = MayInsert(j) \ {w}
      BY <1>1, <2>1, <2>2, <2>4 DEF MayInsert
    <3>2. s \notin ScansOf(j) /\ ScansOf(j)' = ScansOf(j) \cup {s}
      BY <2>1, <2>3, <2>4 DEF ScansOf
    <3>3. QED
      BY <3>1, <3>2
  <2>5. CASE worker[w].job # j
    <3>1. MayInsert(j)' \subseteq MayInsert(j)
      BY <1>1, <2>1, <2>5 DEF MayInsert
    <3>2. ScansOf(j)' = ScansOf(j)
      BY <2>1, <2>3, <2>5 DEF ScansOf
    <3>3. QED
      BY <3>1, <3>2
  <2>6. QED
    BY <2>4, <2>5
<1>8. ASSUME NEW part \in Parts, Stores(w, part)
      PROVE  MayInsert(j)' \subseteq MayInsert(j) /\ ScansOf(j)' = ScansOf(j)
  <2>1. MayInsert(j)' \subseteq MayInsert(j)
    BY <1>1, <1>3, <1>8, WorkerGoesOn DEF Stores, GoesOn
  <2>2. Inserted \subseteq ScanIds /\ Inserted' = Inserted
        /\ \A t \in Inserted : scan'[t].job = scan[t].job
    BY <1>8, StoresPart DEF Inserted
  <2>3. QED
    BY <2>1, <2>2 DEF ScansOf
<1>9. ASSUME Releases(w) PROVE MayInsert(j)' \subseteq MayInsert(j) /\ ScansOf(j)' = ScansOf(j)
  BY <1>1, <1>2, <1>3, <1>9 DEF Releases, IdleWorker
<1>10. QED
  BY <1>4, <1>5, <1>6, <1>7, <1>8, <1>9 DEF StepKind, Parts

LEMMA ClaimsStep == ASSUME Shape, ClaimsBoundScans, [Next]_vars PROVE ClaimsBoundScans'
<1> SUFFICES ASSUME NEW j \in Jobs
             PROVE  /\ IsFiniteSet(MayInsert(j)')
                    /\ Cardinality(ScansOf(j)') + Cardinality(MayInsert(j)') <= job'[j].attempts
  BY DEF ClaimsBoundScans
<1> DEFINE S == ScansOf(j)
           M == MayInsert(j)
           n == job[j].attempts
           S1 == ScansOf(j)'
           M1 == MayInsert(j)'
           n1 == job'[j].attempts
<1>1. /\ n \in Nat /\ n1 \in Nat /\ n <= n1
      /\ (\E w \in Workers : ClaimNext(w, j)) => n1 = n + 1
  BY AttemptsStep
<1>2. IsFiniteSet(S) /\ Cardinality(S) \in Nat
  <2>1. S \in SUBSET Inserted
    BY DEF ScansOf
  <2>2. QED
    BY <2>1, ScanCount, FS_Subset, FS_CardinalityType DEF Shape
<1>3. IsFiniteSet(M) /\ Cardinality(M) \in Nat /\ Cardinality(S) + Cardinality(M) <= n
  BY FS_CardinalityType DEF ClaimsBoundScans
<1>4. \/ (\E w \in Workers : ClaimNext(w, j)) /\ (\E w : M1 = M \cup {w}) /\ S1 = S
      \/ M1 \subseteq M /\ S1 = S
      \/ \E s, w : w \in M /\ M1 = M \ {w} /\ s \notin S /\ S1 = S \cup {s}
  <2>1. CASE \E w \in Workers : StepKind(w)
    BY <2>1, InsertersStep
  <2>2. CASE worker' = worker /\ scan' = scan
    BY <2>2 DEF MayInsert, ScansOf, Inserted
  <2>3. QED
    BY <2>1, <2>2, StepKinds, OtherSteps DEF Shape
<1> HIDE DEF S, M, n, S1, M1, n1
<1>5. ASSUME NEW w, M1 = M \cup {w}, S1 = S, n1 = n + 1
      PROVE  IsFiniteSet(M1) /\ Cardinality(S1) + Cardinality(M1) <= n1
  <2>1. IsFiniteSet(M1) /\ Cardinality(M1) \in {Cardinality(M), Cardinality(M) + 1}
    BY <1>3, <1>5, FS_AddElement
  <2>2. QED
    BY <1>1, <1>2, <1>3, <1>5, <2>1
<1>6. ASSUME M1 \subseteq M, S1 = S
      PROVE  IsFiniteSet(M1) /\ Cardinality(S1) + Cardinality(M1) <= n1
  <2>1. IsFiniteSet(M1) /\ Cardinality(M1) <= Cardinality(M) /\ Cardinality(M1) \in Nat
    BY <1>3, <1>6, FS_Subset, FS_CardinalityType
  <2>2. QED
    BY <1>1, <1>2, <1>3, <1>6, <2>1
<1>7. ASSUME NEW s, NEW w, w \in M, M1 = M \ {w}, s \notin S, S1 = S \cup {s}
      PROVE  IsFiniteSet(M1) /\ Cardinality(S1) + Cardinality(M1) <= n1
  <2>1. IsFiniteSet(M1) /\ Cardinality(M1) = Cardinality(M) - 1
    BY <1>3, <1>7, FS_RemoveElement
  <2>2. Cardinality(S1) = Cardinality(S) + 1
    BY <1>2, <1>7, FS_AddElement
  <2>3. QED
    BY <1>1, <1>2, <1>3, <2>1, <2>2
<1>8. IsFiniteSet(M1) /\ Cardinality(S1) + Cardinality(M1) <= n1
  BY <1>1, <1>4, <1>5, <1>6, <1>7
<1>9. QED
  BY <1>8 DEF S1, M1, n1

-----------------------------------------------------------------------------
(* The rollup counts a scan at most once.                                  *)

\* What a step of worker w does to the workers that may count their scan and to
\* the scans with measures.
LEMMA CountersStep ==
  ASSUME Shape, NEW w \in Workers, StepKind(w)
  PROVE  \/ MayCount' \subseteq MayCount /\ Measured \subseteq Measured'
         \/ /\ MayCount' \subseteq MayCount \cup {w}
            /\ \E s : s \notin Measured /\ Measured' = Measured \cup {s}
<1>1. /\ TypeOK /\ worker \in [Workers -> WorkerStates]
      /\ \A v \in Workers : v # w => worker'[v] = worker[v]
  BY OthersKept DEF Shape, TypeOK
<1>2. ASSUME scan' = scan PROVE Measured' = Measured
  BY <1>2 DEF Measured, Inserted
<1>3. ASSUME worker'[w].pc \in {"upsertLive", "upsertRollup"} =>
               worker[w].pc \in {"upsertLive", "upsertRollup"}
      PROVE  MayCount' \subseteq MayCount
  BY <1>1, <1>3 DEF MayCount
<1>4. ASSUME NEW j \in Jobs, ClaimNext(w, j) PROVE MayCount' \subseteq MayCount /\ Measured' = Measured
  <2>1. worker'[w].pc = "upsertProject" /\ scan' = scan
    BY <1>1, <1>4 DEF ClaimNext, store
  <2>2. QED
    BY <1>2, <1>3, <2>1
<1>5. ASSUME Passes(w) PROVE MayCount' \subseteq MayCount /\ Measured' = Measured
  <2>1. PICK next \in WorkerSteps :
          /\ GoesOn(w, next)
          /\ next \in {"upsertLive", "upsertRollup"} => worker[w].pc \in {"upsertLive", "upsertRollup"}
    BY <1>5 DEF Passes
  <2>2. worker'[w].pc = next /\ scan' = scan
    BY <1>1, <1>5, <2>1, WorkerGoesOn DEF Passes
  <2>3. QED
    BY <1>2, <1>3, <2>1, <2>2
<1>6. ASSUME FindsPrev(w) \/ FetchPrevIssues(w) PROVE MayCount' \subseteq MayCount /\ Measured' = Measured
  <2>1. worker[w] \in [pc : WorkerSteps, job : Jobs, prev : ScanOrNone,
                       old : [Keys -> IssueStatuses \cup {None}], scan : ScanOrNone]
        /\ scan' = scan
    BY <1>1, <1>6, BusyWorker DEF FindsPrev, FetchPrevIssues, store
  <2>2. worker'[w].pc \in {"fetchPrevIssues", "insertScan"}
    BY <1>1, <1>6, <2>1 DEF FindsPrev, FetchPrevIssues
  <2>3. QED
    BY <1>2, <1>3, <2>1, <2>2
<1>7. ASSUME InsertScan(w) PROVE MayCount' \subseteq MayCount /\ Measured \subseteq Measured'
  <2>1. PICK s \in ScanIds :
          /\ s \notin Inserted /\ Inserted' = Inserted \cup {s}
          /\ \A t \in ScanIds : t # s => scan'[t] = scan[t]
          /\ worker'[w].pc \in {"insertIssues", "failed"}
    BY <1>7, ScanGetsInserted
  <2>2. Inserted \subseteq ScanIds
    BY DEF Inserted
  <2>3. Measured \subseteq Measured'
    BY <2>1, <2>2 DEF Measured
  <2>4. QED
    BY <1>3, <2>1, <2>3
<1>8. ASSUME NEW part \in Parts, Stores(w, part),
             \/ part = "issues" /\ worker[w].pc = "insertIssues"
             \/ part = "measures" /\ worker[w].pc = "insertMeasures"
             \/ part = "profiles" /\ worker[w].pc = "replaceProfiles"
      PROVE  \/ MayCount' \subseteq MayCount /\ Measured \subseteq Measured'
             \/ /\ MayCount' \subseteq MayCount \cup {w}
                /\ \E s : s \notin Measured /\ Measured' = Measured \cup {s}
  <2> DEFINE s == worker[w].scan
  <2>1. /\ s \in Inserted /\ Inserted' = Inserted /\ Inserted \subseteq ScanIds
        /\ scan'[s].parts = scan[s].parts \cup {part}
        /\ \A t \in ScanIds : t # s => scan'[t] = scan[t]
    BY <1>8, StoresPart DEF Inserted
  <2>2. Measured \subseteq Measured'
    BY <2>1 DEF Measured
  <2>3. PICK next \in WorkerSteps :
          /\ GoesOn(w, next)
          /\ next = "failed" \/ StoredAt(next) = StoredAt(worker[w].pc) \cup {part}
    BY <1>8 DEF Stores
  <2>4. worker'[w].pc = next /\ scan[s].parts = StoredAt(worker[w].pc)
    BY <1>1, <1>8, <2>3, WorkerGoesOn, WorkerScan DEF Stores
  <2>5. CASE part = "measures" /\ worker[w].pc = "insertMeasures"
    <3>1. "measures" \notin scan[s].parts
      BY <2>4, <2>5 DEF StoredAt
    <3>2. s \notin Measured /\ Measured' = Measured \cup {s}
      BY <2>1, <2>5, <3>1 DEF Measured
    <3>3. MayCount' \subseteq MayCount \cup {w}
      BY <1>1 DEF MayCount
    <3>4. QED
      BY <3>2, <3>3
  <2>6. CASE part = "issues" /\ worker[w].pc = "insertIssues"
    <3>1. next \notin {"upsertLive", "upsertRollup"}
      BY <2>3, <2>6 DEF StoredAt
    <3>2. QED
      BY <1>3, <2>2, <2>4, <3>1
  <2>7. CASE part = "profiles" /\ worker[w].pc = "replaceProfiles"
    <3>1. next \notin {"upsertLive", "upsertRollup"}
      BY <2>3, <2>7 DEF StoredAt
    <3>2. QED
      BY <1>3, <2>2, <2>4, <3>1
  <2>8. QED
    BY <1>8, <2>5, <2>6, <2>7
<1>9. ASSUME Releases(w) PROVE MayCount' \subseteq MayCount /\ Measured' = Measured
  BY <1>1, <1>2, <1>3, <1>9 DEF Releases, IdleWorker
<1>10. InsertIssues(w) => worker[w].pc = "insertIssues"
  BY DEF InsertIssues
<1>11. QED
  BY <1>4, <1>5, <1>6, <1>7, <1>8, <1>9, <1>10 DEF StepKind, Parts

\* Only UpsertRollup counts, and its worker counts no more.
LEMMA SamplesStep ==
  ASSUME Shape, [Next]_vars, samples' # samples
  PROVE  \E w \in MayCount : samples' = samples + 1 /\ MayCount' = MayCount \ {w} /\ Measured' = Measured
<1>1. PICK w \in Workers : UpsertRollup(w)
  BY ZenonT(60)
  DEF Next, Step, ClaimNext, UpsertProject, FetchPrevScan, FetchPrevScanFails, FetchPrevIssues,
      FetchPrevIssuesFails, InsertScan, InsertRow, InsertIssues, InsertMeasures, UpsertLive,
      ReplaceSnapshot, ReplaceProfiles, EnqueueSearchIndex, DispatchScanWebhook,
      DispatchGateChanged, HandOver, Abort, LogAndGoOn, PassOver, MarkCompleted, MarkFailed,
      Abandon, RecoverStale, EditProject, WriteTransition, ReadForTransition, vars, store
<1>2. /\ TypeOK /\ worker \in [Workers -> WorkerStates] /\ GoesOn(w, "replaceSnapshot")
      /\ samples' = samples + 1 /\ scan' = scan /\ worker[w].pc = "upsertRollup"
  BY <1>1 DEF UpsertRollup, GoesOn, WorkerSteps, Shape, TypeOK
<1>3. worker'[w].pc = "replaceSnapshot" /\ \A v \in Workers : v # w => worker'[v] = worker[v]
  BY <1>2, WorkerGoesOn
<1>4. w \in MayCount /\ MayCount' = MayCount \ {w}
  BY <1>2, <1>3 DEF MayCount
<1>5. QED
  BY <1>2, <1>4 DEF Measured, Inserted

LEMMA MeasuresStep == ASSUME Shape, MeasuresBoundSamples, [Next]_vars PROVE MeasuresBoundSamples'
<1> DEFINE C == MayCount
           M == Measured
           C1 == MayCount'
           M1 == Measured'
<1>1. samples \in Nat
  BY DEF Shape, TypeOK
<1>2. IsFiniteSet(M) /\ Cardinality(M) \in Nat /\ IsFiniteSet(M1) /\ Cardinality(M1) \in Nat
  <2>1. M \in SUBSET Inserted /\ M1 \in SUBSET (Inserted')
    BY DEF Measured
  <2>2. IsFiniteSet(Inserted) /\ IsFiniteSet(Inserted')
    <3>1. TypeOK => IsFiniteSet(Inserted)
      BY ScanCount
    <3>2. TypeOK /\ TypeOK'
      BY TypeStep DEF Shape
    <3>3. (TypeOK => IsFiniteSet(Inserted))'
      BY <3>1, ScanCount, PTL
    <3>4. QED
      BY <3>1, <3>2, <3>3
  <2>3. QED
    BY <2>1, <2>2, FS_Subset, FS_CardinalityType
<1>3. IsFiniteSet(C) /\ Cardinality(C) \in Nat /\ samples + Cardinality(C) <= Cardinality(M)
  BY FS_CardinalityType DEF MeasuresBoundSamples
<1>4. CASE samples' # samples
  <2>1. PICK w \in C : samples' = samples + 1 /\ C1 = C \ {w} /\ M1 = M
    BY <1>4, SamplesStep
  <2> HIDE DEF C, C1, M, M1
  <2>2. IsFiniteSet(C1) /\ Cardinality(C1) = Cardinality(C) - 1
    BY <1>3, <2>1, FS_RemoveElement
  <2>3. samples' + Cardinality(C1) <= Cardinality(M1)
    BY <1>1, <1>2, <1>3, <2>1, <2>2
  <2>4. QED
    BY <2>2, <2>3 DEF MeasuresBoundSamples, C1, M1
<1>5. CASE samples' = samples
  <2>1. \/ C1 \subseteq C /\ M \subseteq M1
        \/ \E w, s : C1 \subseteq C \cup {w} /\ s \notin M /\ M1 = M \cup {s}
    <3>1. CASE \E w \in Workers : StepKind(w)
      BY <3>1, CountersStep
    <3>2. CASE worker' = worker /\ scan' = scan
      BY <3>2 DEF MayCount, Measured, Inserted
    <3>3. QED
      BY <3>1, <3>2, StepKinds, OtherSteps DEF Shape
  <2> HIDE DEF C, C1, M, M1
  <2>2. CASE C1 \subseteq C /\ M \subseteq M1
    <3>1. IsFiniteSet(C1) /\ Cardinality(C1) <= Cardinality(C) /\ Cardinality(C1) \in Nat
      BY <1>3, <2>2, FS_Subset, FS_CardinalityType
    <3>2. Cardinality(M) <= Cardinality(M1)
      BY <1>2, <2>2, FS_Subset
    <3>3. samples' + Cardinality(C1) <= Cardinality(M1)
      BY <1>1, <1>2, <1>3, <1>5, <3>1, <3>2
    <3>4. QED
      BY <3>1, <3>3 DEF MeasuresBoundSamples, C1, M1
  <2>3. CASE \E w, s : C1 \subseteq C \cup {w} /\ s \notin M /\ M1 = M \cup {s}
    <3>1. PICK w, s : C1 \subseteq C \cup {w} /\ s \notin M /\ M1 = M \cup {s}
      BY <2>3
    <3>2. IsFiniteSet(C \cup {w}) /\ Cardinality(C \cup {w}) \in {Cardinality(C), Cardinality(C) + 1}
      BY <1>3, FS_AddElement
    <3>3. IsFiniteSet(C1) /\ Cardinality(C1) <= Cardinality(C \cup {w}) /\ Cardinality(C1) \in Nat
      BY <3>1, <3>2, FS_Subset, FS_CardinalityType
    <3>4. Cardinality(M1) = Cardinality(M) + 1
      BY <1>2, <3>1, FS_AddElement
    <3>5. samples' + Cardinality(C1) <= Cardinality(M1)
      BY <1>1, <1>2, <1>3, <1>5, <3>2, <3>3, <3>4
    <3>6. QED
      BY <3>3, <3>5 DEF MeasuresBoundSamples, C1, M1
  <2>4. QED
    BY <2>1, <2>2, <2>3
<1>6. QED
  BY <1>4, <1>5

\* A claim of a job inserts at most one scan, also when answers are lost and the
\* job is taken back from its worker, and the daily rollup counts a scan at most
\* once and only when its measures are stored.
THEOREM ClaimsInsertOnce == Spec => []ScansPerClaim
<1>1. Init => ClaimsBoundScans /\ MeasuresBoundSamples
  <2> SUFFICES ASSUME Init PROVE ClaimsBoundScans /\ MeasuresBoundSamples
    OBVIOUS
  <2>1. Inserted = {} /\ samples = 0 /\ MayCount = {}
    BY DEF Init, Inserted, MayCount, IdleWorker
  <2>2. \A j \in Jobs : MayInsert(j) = {} /\ ScansOf(j) = {} /\ job[j].attempts = 0
    BY <2>1 DEF Init, MayInsert, ScansOf, IdleWorker
  <2>3. Measured = {}
    BY <2>1 DEF Measured
  <2>4. QED
    BY <2>1, <2>2, <2>3, FS_EmptySet DEF ClaimsBoundScans, MeasuresBoundSamples
<1>2. Shape /\ ClaimsBoundScans /\ [Next]_vars => ClaimsBoundScans'
  BY ClaimsStep
<1>3. Shape /\ MeasuresBoundSamples /\ [Next]_vars => MeasuresBoundSamples'
  BY MeasuresStep
<1>4. Shape /\ ClaimsBoundScans /\ MeasuresBoundSamples => ScansPerClaim
  <2> SUFFICES ASSUME Shape, ClaimsBoundScans, MeasuresBoundSamples PROVE ScansPerClaim
    OBVIOUS
  <2>1. samples \in Nat /\ TypeOK
    BY DEF Shape, TypeOK
  <2>2. IsFiniteSet(Inserted)
    BY <2>1, ScanCount
  <2>3. ASSUME NEW j \in Jobs PROVE Cardinality(ScansOf(j)) <= job[j].attempts
    <3>1. ScansOf(j) \in SUBSET Inserted
      BY DEF ScansOf
    <3>2. Cardinality(ScansOf(j)) \in Nat
      BY <2>2, <3>1, FS_Subset, FS_CardinalityType
    <3>3. /\ Cardinality(MayInsert(j)) \in Nat
          /\ Cardinality(ScansOf(j)) + Cardinality(MayInsert(j)) <= job[j].attempts
      BY FS_CardinalityType DEF ClaimsBoundScans
    <3>4. job[j].attempts \in Nat
      BY <2>1 DEF TypeOK, JobRows
    <3>5. QED
      BY <3>2, <3>3, <3>4
  <2>4. samples <= Cardinality(Measured)
    <3>1. Measured \in SUBSET Inserted
      BY DEF Measured
    <3>2. Cardinality(Measured) \in Nat
      BY <2>2, <3>1, FS_Subset, FS_CardinalityType
    <3>3. Cardinality(MayCount) \in Nat /\ samples + Cardinality(MayCount) <= Cardinality(Measured)
      BY FS_CardinalityType DEF MeasuresBoundSamples
    <3>4. QED
      BY <2>1, <3>2, <3>3
  <2>5. QED
    BY <2>3, <2>4 DEF ScansPerClaim, ScansOf, Measured
<1>5. QED
  BY <1>1, <1>2, <1>3, <1>4, TypeCorrect, PTL DEF Spec
================================================================================
