---------------------------- MODULE BackgroundTasks ----------------------------
(* The administrator's view of the three tables of durable jobs, and what an *)
(* administrator does to a job (ollantaweb/api/background_tasks.go), over the *)
(* statements of scan_jobs.go, index_jobs.go and webhook_jobs.go.            *)
EXTENDS Integers, SequencesExt

CONSTANTS
    Tasks,        \* the rows there may be, as <<type, id>>
    Subjects,     \* what a job may be about: its project, its scan, what the payload of a scan tells
    TaskClients,  \* who asks: administrators, and the loop that refreshes the metrics
    TaskFilters,  \* the filters they ask with
    StaleAge,     \* backgroundTaskStaleThresholds, in ticks of the clock
    RecentAge,    \* 24 hours, in ticks
    DefaultPage, MaxPage, \* boundedAPILimit
    RowLimit,   \* boundedJobLimit
    MaxClock,     \* bound on the ticks
    MaxMoves      \* bound on the steps of the jobs and on the requests

ASSUME TaskAssumption ==
    /\ MaxClock \in Nat /\ MaxMoves \in Nat /\ RowLimit \in Nat
    /\ Tasks \subseteq {"scan", "index", "webhook"} \X Nat
    /\ \A filter \in TaskFilters : filter.after \in Int /\ filter.before \in Int

VARIABLES
    tasks,  \* the rows; NoRow where there is none
    held,   \* how many workers believe that they run a job
    clock, moves,
    asks,   \* per client, the request it waits for
    shown,  \* per client, the last answer
    gauge   \* the background-task gauges, by type and field

taskVars == <<tasks, held, clock, moves, asks, shown, gauge>>

Types == <<"scan", "index", "webhook">>
Never == -1
NoRow == [status |-> "none"]

\* A row as intake, the enqueuers of index jobs and of deliveries insert it.
Enqueued(k, project, scan, params) ==
    [status |-> "accepted", project |-> project, scan |-> scan, params |-> params, worker |-> "",
     created |-> clock, started |-> Never, completed |-> Never, next |-> IF k[1] = "scan" THEN Never ELSE clock]

-----------------------------------------------------------------------------
(* What becomes of the jobs                                                  *)

Moves == moves < MaxMoves /\ moves' = moves + 1
\* The columns a statement sets, over those it leaves.
Rewritten(row, changes) ==
    [f \in DOMAIN changes \cup DOMAIN row |-> IF f \in DOMAIN changes THEN changes[f] ELSE row[f]]
Becomes(k, changes) == tasks' = [tasks EXCEPT ![k] = Rewritten(@, changes)]
Status(k) == tasks[k].status

Holds(k, n) == held' = [held EXCEPT ![k] = @ + n]
Enqueue(k, project, scan, params) ==
    /\ Status(k) = "none" /\ Moves
    /\ tasks' = [tasks EXCEPT ![k] = Enqueued(k, project, scan, params)]
    /\ UNCHANGED <<held, clock, asks, shown, gauge>>
Claim(k) ==
    /\ Status(k) = "accepted" /\ tasks[k].next <= clock /\ Moves
    /\ Becomes(k, [status |-> "running", worker |-> "w", started |-> IF tasks[k].started = Never THEN clock ELSE tasks[k].started])
    /\ Holds(k, 1)
    /\ UNCHANGED <<clock, asks, shown, gauge>>

\* A worker ends with the job it holds, whatever has become of the row; or it crashes.
Settle(k, status, scan) ==
    /\ held[k] > 0 /\ Holds(k, -1) /\ Moves
    /\ Becomes(k, [status |-> status, completed |-> clock, scan |-> IF k[1] = "scan" /\ status = "completed" THEN scan ELSE tasks[k].scan])
    /\ UNCHANGED <<clock, asks, shown, gauge>>
Reschedule(k) ==
    /\ held[k] > 0 /\ Holds(k, -1) /\ k[1] # "scan" /\ Moves
    /\ Becomes(k, [status |-> "accepted", next |-> clock + 1])
    /\ UNCHANGED <<clock, asks, shown, gauge>>
WorkerCrash(k) ==
    /\ held[k] > 0 /\ Holds(k, -1) /\ Moves
    /\ UNCHANGED <<tasks, clock, asks, shown, gauge>>
RecoverTask(k) ==
    /\ Status(k) = "running" /\ Moves
    /\ \/ Becomes(k, [status |-> "accepted", worker |-> "", started |-> Never, next |-> IF k[1] = "scan" THEN Never ELSE clock])
       \/ Becomes(k, [status |-> "failed", completed |-> clock])
    /\ UNCHANGED <<held, clock, asks, shown, gauge>>
Tick ==
    /\ clock < MaxClock /\ clock' = clock + 1
    /\ UNCHANGED <<tasks, held, moves, asks, shown, gauge>>

-----------------------------------------------------------------------------
(* A row as a task                                                           *)

NormalizeStatus(k, row, now) ==
    CASE row.status = "accepted" -> IF row.next > now THEN "retrying" ELSE "queued"
      [] row.status = "running" -> IF row.started # Never /\ now - row.started > StaleAge[k[1]] THEN "stale" ELSE "running"
      [] OTHER -> row.status
SupportedActions(status) ==
    CASE status \in {"failed", "cancelled"} -> {"retry"}
      [] status = "queued" -> {"cancel"}
      [] status \in {"retrying", "stale"} -> {"requeue"}
      [] OTHER -> {}

NotBelow(n, least) == IF n < least THEN least ELSE n
NewTask(k, row, now) ==
    LET status == NormalizeStatus(k, row, now)
    IN  [id |-> k, status |-> status, created |-> row.created, completed |-> row.completed,
         age |-> IF status \in {"queued", "retrying"} THEN NotBelow(now - row.created, 0) ELSE Never,
         duration |-> IF row.started = Never THEN Never
                      ELSE NotBelow((IF row.completed = Never THEN now ELSE row.completed) - row.started, 0),
         actions |-> SupportedActions(status), params |-> {}]

\* The parameters of the scanner are in the payload of a scan; an index task borrows, when it is
\* looked at alone, those of the scan job that settled last with its scan.
ScannerParameters(k, row) == IF k[1] = "scan" THEN row.params ELSE {}
ListedTask(k, now) == [NewTask(k, tasks[k], now) EXCEPT !.params = ScannerParameters(k, tasks[k])]
ProducersOf(scan) == {k \in Tasks : k[1] = "scan" /\ Status(k) # "none" /\ tasks[k].scan = scan}
LastProducer(scan) ==
    CHOOSE k \in ProducersOf(scan) : \A j \in ProducersOf(scan) :
        tasks[j].completed < tasks[k].completed \/ (tasks[j].completed = tasks[k].completed /\ j[2] <= k[2])
EnrichedTask(k, now) ==
    IF k[1] = "index" /\ ProducersOf(tasks[k].scan) # {}
    THEN [NewTask(k, tasks[k], now) EXCEPT !.params = tasks[LastProducer(tasks[k].scan)].params]
    ELSE ListedTask(k, now)

-----------------------------------------------------------------------------
(* Lists                                                                     *)

\* Mutant of InternalStatus: the tables are asked for the status of the view.
InternalStatusLiteral(filter) == IF filter.stale THEN "running" ELSE filter.status
\* What a status of the view is in the tables; stale_only overrides the status.
InternalStatus(filter) ==
    IF filter.stale THEN "running"
    ELSE CASE filter.status \in {"queued", "accepted", "retrying"} -> "accepted"
           [] filter.status = "stale" -> "running"
           [] filter.status \in {"running", "completed", "failed", "cancelled"} -> filter.status
           [] OTHER -> ""
RequestedStatus(filter) == IF filter.status = "accepted" THEN "queued" ELSE filter.status

\* The statement of a table: a delivery has no scan.
JobWhere(k, filter) ==
    /\ Status(k) # "none"
    /\ InternalStatus(filter) \in {"", Status(k)}
    /\ filter.project \in {"", tasks[k].project}
    /\ filter.scan # 0 => k[1] # "webhook" /\ tasks[k].scan = filter.scan
    /\ filter.worker \in {"", tasks[k].worker}
    /\ filter.after # Never => tasks[k].created >= filter.after
    /\ filter.before # Never => tasks[k].created <= filter.before
Newer(j, k) == tasks[j].created > tasks[k].created \/ (tasks[j].created = tasks[k].created /\ j[2] > k[2])
Bounded(n, default, most) == IF n <= 0 THEN default ELSE IF n > most THEN most ELSE n
\* The newest rows, as many as the limit of the statement allows.
ListJobs(type, filter, now) ==
    LET rows == {k \in Tasks : k[1] = type /\ JobWhere(k, filter)}
    IN  {ListedTask(k, now) : k \in {j \in rows : Cardinality({i \in rows : Newer(i, j)}) < RowLimit}}

\* What the tables cannot tell is filtered afterwards.
MatchesFilter(task, filter) ==
    /\ RequestedStatus(filter) \in {"", task.status}
    /\ filter.failed => task.status = "failed"
    /\ filter.stale => task.status = "stale"

\* Newest first; the ids, "scan:1", as strings.
TypeRank == [index |-> 1, scan |-> 2, webhook |-> 3]
Precedes(t, u) ==
    \/ t.created > u.created
    \/ t.created = u.created /\ (TypeRank[t.id[1]] > TypeRank[u.id[1]] \/ (t.id[1] = u.id[1] /\ t.id[2] > u.id[2]))
InOrder(items) ==
    [n \in 1..Cardinality(items) |-> CHOOSE t \in items : Cardinality({u \in items : Precedes(u, t)}) = n - 1]
Matching(loaded, filter) == {t \in loaded : MatchesFilter(t, filter)}

NoRequest == [kind |-> "none"]
Asks(c, request) == asks' = [asks EXCEPT ![c] = request]
Answers(c, answer) == shown' = [shown EXCEPT ![c] = answer] /\ Asks(c, NoRequest)

\* The tables a filter is about, in the order they are read.
TablesOf(filter) ==
    IF filter.type = "" THEN Types ELSE IF filter.type \in ToSet(Types) THEN <<filter.type>> ELSE <<>>

\* GET of the list or of the summary, or the tick of the metrics' loop, which asks for everything.
AskForTasks(c, kind, filter) ==
    /\ asks[c] = NoRequest /\ Moves
    /\ Asks(c, [kind |-> kind, filter |-> filter, now |-> clock, read |-> <<>>, loaded |-> {},
                todo |-> TablesOf(filter)])
    /\ UNCHANGED <<tasks, held, clock, shown, gauge>>
LoadTasks(c) ==
    /\ asks[c].kind \in {"list", "summary", "metrics"} /\ asks[c].todo # <<>>
    /\ LET r == asks[c]
           type == Head(r.todo)
           table == {k \in Tasks : k[1] = type}
       IN  Asks(c, [kind |-> r.kind, filter |-> r.filter, now |-> r.now,
                    read |-> [k \in table \cup DOMAIN r.read |-> IF k \in table THEN tasks[k] ELSE r.read[k]],
                    loaded |-> r.loaded \cup ListJobs(type, r.filter, r.now), todo |-> Tail(r.todo)])
    /\ UNCHANGED <<tasks, held, clock, moves, shown, gauge>>
StatementFails(c) ==
    /\ asks[c].kind \in {"list", "summary", "metrics"} /\ asks[c].todo # <<>>
    /\ IF asks[c].kind = "metrics" THEN Asks(c, NoRequest) /\ shown' = shown ELSE Answers(c, [code |-> 500])
    /\ UNCHANGED <<tasks, held, clock, moves, gauge>>

Page(items, limit, offset) ==
    LET from == IF offset > Len(items) THEN Len(items) ELSE offset
        to == IF from + limit > Len(items) THEN Len(items) ELSE from + limit
    IN  SubSeq(items, from + 1, to)
List(c) ==
    LET r == asks[c]
        items == InOrder(Matching(r.loaded, r.filter))
    IN  /\ r.kind = "list" /\ r.todo = <<>>
        /\ Answers(c, [code |-> 200, kind |-> "list", filter |-> r.filter, items |-> items, read |-> r.read, now |-> r.now,
                       page |-> Page(items, Bounded(r.filter.limit, DefaultPage, MaxPage), NotBelow(r.filter.offset, 0))])
        /\ UNCHANGED <<tasks, held, clock, moves, gauge>>

\* summarizeBackgroundTasks: a completion counts for a day, a cancelled task only in the total.
CountFields == {"queued", "running", "failed", "stale", "retrying"}
Summarize(items, now) ==
    [field \in CountFields \cup {"total", "recent", "oldest"} |->
        CASE field = "total" -> Cardinality(items)
          [] field = "recent" -> Cardinality({t \in items : t.status = "completed" /\ now - t.completed <= RecentAge})
          [] field = "oldest" -> Max({t.age : t \in {u \in items : u.status = "queued"}} \cup {Never})
          [] OTHER -> Cardinality({t \in items : t.status = field})]
OfType(items, type) == {t \in items : t.id[1] = type}
PresentTypes(items) == {t.id[1] : t \in items}
\* A type without tasks keeps its gauges, and so does the age when nothing is queued.
ObserveSummary(items, now) ==
    gauge' = [type \in DOMAIN gauge |->
                IF type \notin PresentTypes(items) THEN gauge[type]
                ELSE LET health == Summarize(OfType(items, type), now)
                     IN  [field \in CountFields \cup {"oldest"} |->
                            IF field = "oldest" /\ health.oldest = Never THEN gauge[type].oldest ELSE health[field]]]
Summary(c) ==
    LET r == asks[c]
        items == Matching(r.loaded, r.filter)
    IN  /\ r.kind \in {"summary", "metrics"} /\ r.todo = <<>>
        /\ ObserveSummary(items, clock)
        /\ IF r.kind = "metrics" THEN Asks(c, NoRequest) /\ shown' = shown
           ELSE Answers(c, [code |-> 200, kind |-> "summary", filter |-> r.filter, items |-> InOrder(items), read |-> r.read, now |-> r.now,
                            counts |-> Summarize(items, clock),
                            byType |-> [type \in PresentTypes(items) |-> Summarize(OfType(items, type), clock)]])
        /\ UNCHANGED <<tasks, held, clock, moves>>

-----------------------------------------------------------------------------
(* One task                                                                  *)

\* An id is a type of the tables and a positive number; an id without a row is not found.
Unparsable(k) == k[1] \notin ToSet(Types) \/ k[2] <= 0
Found(k) == k \in Tasks /\ Status(k) # "none"
Detail(c, k) ==
    /\ asks[c] = NoRequest /\ Moves
    /\ Answers(c, IF Unparsable(k) THEN [code |-> 400] ELSE IF ~Found(k) THEN [code |-> 404]
                  ELSE [code |-> 200, kind |-> "detail", task |-> EnrichedTask(k, clock)])
    /\ UNCHANGED <<tasks, held, clock, gauge>>

\* runAction: what the task offers is read, then the job is changed, then it is read again.
CheckAction(c, k, action) ==
    /\ asks[c] = NoRequest /\ Moves
    /\ IF ~Unparsable(k) /\ Found(k) /\ action \in SupportedActions(NormalizeStatus(k, tasks[k], clock))
       THEN Asks(c, [kind |-> "action", action |-> action, task |-> k]) /\ shown' = shown
       ELSE Answers(c, [code |-> IF Unparsable(k) THEN 400 ELSE IF ~Found(k) THEN 404 ELSE 409])
    /\ UNCHANGED <<tasks, held, clock, gauge>>

\* Retry has no condition; CancelQueued wants the job accepted.
Retried(k) ==
    [status |-> "accepted", worker |-> "", started |-> Never, completed |-> Never, next |-> IF k[1] = "scan" THEN Never ELSE clock]
Cancellable(k) == Status(k) = "accepted"
Cancelled(k) == [status |-> "cancelled", completed |-> clock, worker |-> IF k[1] = "scan" THEN tasks[k].worker ELSE ""]
ApplyAction(c) ==
    LET k == asks[c].task
        cancels == asks[c].action = "cancel"
    IN  /\ asks[c].kind = "action"
        /\ IF cancels /\ ~Cancellable(k)
           THEN Answers(c, [code |-> 409]) /\ UNCHANGED tasks
           ELSE Becomes(k, IF cancels THEN Cancelled(k) ELSE Retried(k)) /\ Asks(c, [kind |-> "again", task |-> k]) /\ shown' = shown
        /\ UNCHANGED <<held, clock, moves, gauge>>
ApplyFails(c) ==
    /\ asks[c].kind = "action"
    /\ Answers(c, [code |-> 500])
    /\ UNCHANGED <<tasks, held, clock, moves, gauge>>
ReadAgain(c) ==
    /\ asks[c].kind = "again"
    /\ \/ Answers(c, [code |-> 202, kind |-> "task", task |-> EnrichedTask(asks[c].task, clock)])
       \/ Answers(c, [code |-> 202, kind |-> "queued"])
    /\ UNCHANGED <<tasks, held, clock, moves, gauge>>

TasksInit ==
    /\ tasks = [k \in Tasks |-> NoRow] /\ held = [k \in Tasks |-> 0]
    /\ clock = 0 /\ moves = 0
    /\ asks = [c \in TaskClients |-> NoRequest] /\ shown = [c \in TaskClients |-> [code |-> 0]]
    /\ gauge = [type \in ToSet(Types) |-> [field \in CountFields \cup {"oldest"} |-> 0]]

JobsMove ==
    \/ Tick
    \/ \E k \in Tasks :
        \/ \E about \in Subjects : about.type = k[1] /\ Enqueue(k, about.project, about.scan, about.params)
        \/ Claim(k) \/ Reschedule(k) \/ WorkerCrash(k) \/ RecoverTask(k)
        \/ \E status \in {"completed", "failed"} : Settle(k, status, 1)
TasksNext ==
    \/ JobsMove
    \/ \E c \in TaskClients :
        \/ \E filter \in TaskFilters, kind \in {"list", "summary"} : AskForTasks(c, kind, filter)
        \/ \E filter \in {f \in TaskFilters : f.everything} : AskForTasks(c, "metrics", filter)
        \/ LoadTasks(c) \/ StatementFails(c) \/ List(c) \/ Summary(c)
        \/ \E k \in Tasks \cup {<<"scan", 0>>, <<"other", 1>>} : Detail(c, k) \/ \E action \in {"retry", "requeue", "cancel"} : CheckAction(c, k, action)
        \/ ApplyAction(c) \/ ApplyFails(c) \/ ReadAgain(c)

TasksSpec == TasksInit /\ [][TasksNext]_taskVars

-----------------------------------------------------------------------------
(* Properties                                                                *)

TasksTypeOK ==
    /\ clock \in 0..MaxClock /\ moves \in 0..MaxMoves
    /\ \A k \in Tasks : Status(k) \in {"none", "accepted", "running", "completed", "failed", "cancelled"}
    /\ \A c \in TaskClients : shown[c].code \in {0, 200, 202, 400, 404, 409, 500}

\* No task is lost to the view: a job that runs has the start its staleness is told by, and one that
\* ended has the end the recent completions are told by.
RowsTellTime ==
    \A k \in Tasks :
        /\ Status(k) \in {"completed", "failed", "cancelled"} => tasks[k].completed \in 0..clock
        /\ Status(k) = "running" => tasks[k].started \in tasks[k].created..clock

\* docs/background-tasks.md:93 "list normalized tasks. Supports type, status, ...": what an answer lists is of
\* the kind that was asked for and in order, and every such task of a table that fits the limit of its
\* statement is in it, however the tables and the view share the filtering.
Wanted(task, answer) ==
    /\ MatchesFilter(task, answer.filter)
    /\ answer.filter.type \in {"", task.id[1]}
ListIsTrue(answer) ==
    /\ \A t \in ToSet(answer.items) : Wanted(t, answer)
    /\ \A i, j \in DOMAIN answer.items : i < j => Precedes(answer.items[i], answer.items[j])
    /\ \A k \in DOMAIN answer.read :
        LET row == answer.read[k]
        IN  /\ row # NoRow
            /\ Cardinality({j \in DOMAIN answer.read : j[1] = k[1] /\ answer.read[j] # NoRow}) <= RowLimit
            /\ answer.filter.project \in {"", row.project} /\ answer.filter.worker \in {"", row.worker}
            /\ answer.filter.after <= row.created /\ (answer.filter.before # Never => row.created <= answer.filter.before)
            /\ answer.filter.scan \in {0} \cup (IF k[1] = "webhook" THEN {} ELSE {row.scan})
            /\ Wanted(NewTask(k, row, answer.now), answer)
            => \E t \in ToSet(answer.items) : t.id = k

\* The summary adds up: by type to the whole, and by field to no more than there is.
OverTypes(answer, field) ==
    LET Part(type) == IF type \in DOMAIN answer.byType THEN answer.byType[type][field] ELSE 0
    IN  Part("scan") + Part("index") + Part("webhook")
SummaryAddsUp(answer) ==
    LET c == answer.counts
    IN  /\ \A field \in CountFields \cup {"total", "recent"} : c[field] = OverTypes(answer, field)
        /\ c.queued + c.running + c.failed + c.stale + c.retrying + c.recent <= c.total

TasksAreShown ==
    /\ TasksTypeOK /\ RowsTellTime
    /\ \A c \in TaskClients : shown[c].code = 200 =>
        CASE shown[c].kind = "list" -> ListIsTrue(shown[c])
          [] shown[c].kind = "summary" -> ListIsTrue(shown[c]) /\ SummaryAddsUp(shown[c])
          [] OTHER -> TRUE
=============================================================================
