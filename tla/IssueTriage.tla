---------------------------- MODULE IssueTriage ----------------------------
(* The issues of one project once its reports are stored: users close and     *)
(* reopen them, an administrator backfills the tracking states of scans that  *)
(* were stored before there were any, and readers page through them, count    *)
(* them by facet and look at the activity, the overview and the code.         *)
EXTENDS Integers, SequencesExt, FiniteSetsExt, Functions

CONSTANTS
    Arrivals,    \* the sequences in which reports may arrive
    Resolutions, \* the resolutions users choose from
    Triagers,    \* users who change issues
    Backfillers, \* administrators who backfill tracking states
    Readers,     \* users who list issues and open overviews
    MainBranches,\* what the project may have configured, "" for nothing
    PageLimit,   \* the page size of a reader, and the length of an overview's lists
    Conditions,  \* the conditions the gate of the project may have, as sequences
    QueryCap,    \* the rows a query returns at most
    MaxChanges   \* bound on transitions

\* What a report brings: the issues of one scan of a branch or of a pull request. A rule has one of the
\* types, and a path at least a name.
IssueTypes == {"bug", "code_smell", "vulnerability", "security_hotspot"}
Findings == [key : STRING, rule : STRING, type : IssueTypes, severity : STRING, tags : SUBSET STRING,
             file : Seq(STRING) \ {<<>>}, ext : STRING]
Reports == [type : {"branch", "pull_request"}, name : STRING, date : Nat, gate : {"OK", "WARN", "ERROR"},
            issues : Seq(Findings)]

ASSUME TriageAssumption == (\A a \in Arrivals : a \in Seq(Reports)) /\ QueryCap \in Nat

VARIABLES
    mainBranch,  \* projects.main_branch
    arriving,    \* the reports still to come
    scans,       \* table scans, by id
    issueRows,      \* table issues, by id
    transitions, \* table issue_transitions, in the order of their commits
    changelog,   \* table issue_changelog
    snapshots,   \* table code_snapshot_scopes: which scan a scope shows
    pending,     \* per user, the transition in progress
    backfill,    \* per administrator, the backfill in progress
    reader       \* per reader, the list or overview that is open

triageVars == <<mainBranch, arriving, scans, issueRows, transitions, changelog, snapshots, pending, backfill, reader>>

ScanIds == DOMAIN scans
IssueIds == DOMAIN issueRows

-----------------------------------------------------------------------------
(* Scopes                                                                   *)

\* chooseDefaultBranch, on the branches with scans, the latest first; of two with the
\* same date either may come first.
DefaultBranchesNow ==
    LET named == {s \in ScanIds : scans[s].type = "branch" /\ scans[s].name # ""}
        Latest(b) == Max({scans[s].date : s \in {t \in named : scans[t].name = b}})
        names == {scans[s].name : s \in named}
    IN  CASE mainBranch # "" -> {mainBranch}
          [] mainBranch = "" /\ "main" \in names -> {"main"}
          [] mainBranch = "" /\ "main" \notin names /\ "master" \in names -> {"master"}
          [] OTHER -> IF names = {} THEN {""} ELSE {b \in names : \A c \in names : Latest(b) >= Latest(c)}

\* buildScopeCondition: a branch scope without a name is that of the default branch,
\* to which the scans without a branch belong.
Selects(scope, default, s) ==
    LET branch == IF scope.name = "" THEN default ELSE scope.name
    IN  /\ scans[s].type = scope.type
        /\ \/ scope.type = "pull_request" /\ scans[s].name = scope.name
           \/ scope.type = "branch" /\ scans[s].name \in ({branch} \cup (IF branch = default THEN {""} ELSE {}))

\* The members of a set as an order has them: each after those that come before it.
Ordered(S, Before(_, _)) ==
    [k \in 1..Cardinality(S) |-> CHOOSE x \in S : Cardinality({y \in S : Before(y, x)}) = k - 1]

\* ListByProjectInScope: the scans of a scope, newest first.
Newer(s, t) == scans[s].date > scans[t].date \/ (scans[s].date = scans[t].date /\ s > t)
ScansInScope(scope, default) == {s \in ScanIds : Selects(scope, default, s)}
NewestFirst(ids) == Ordered(ids, Newer)
Oldest(ids) == CHOOSE s \in ids : \A t \in ids \ {s} : Newer(t, s)

NoScanId == 0
LatestInScope(scope, default) ==
    LET found == ScansInScope(scope, default)
    IN  IF found = {} THEN NoScanId ELSE CHOOSE s \in found : \A t \in found \ {s} : Newer(s, t)

\* ListBranches and ListPullRequests, as listProjectScopes joins them: the scans without a
\* branch are listed under the default one.
ProjectScopes(default) ==
    {[type |-> "branch", name |-> IF scans[s].name = "" THEN default ELSE scans[s].name] :
        s \in {t \in ScanIds : scans[t].type = "branch"}}
    \cup {[type |-> "pull_request", name |-> scans[s].name] : s \in {t \in ScanIds : scans[t].type = "pull_request"}}

-----------------------------------------------------------------------------
(* Tracking                                                                 *)

IssuesOf(s) == {i \in IssueIds : issueRows[i].scan = s}

\* IssueRepository.Query of the issues of a scan: the newest ones, no more than the cap.
QueryScan(s) == {i \in IssuesOf(s) : Cardinality({j \in IssuesOf(s) : j > i}) < QueryCap}

OpenStatuses == {"open", "confirmed"}

\* service.Track: the state of an issue with this key, given what the issues of the
\* previous scan look like; issues with one key share their match.
TrackKey(key, previous) ==
    CASE \E p \in previous : p.key = key /\ p.status \in OpenStatuses -> "unchanged"
      [] (\A p \in previous : p.key = key => p.status \notin OpenStatuses) /\ (\E p \in previous : p.key = key) -> "reopened"
      [] OTHER -> "new"

\* unmatchedOpenIssues: what Track counts as closed.
ClosedBy(current, previous) ==
    {p \in previous : p.status \in OpenStatuses /\ p.key \notin current}

\* The columns tracking reads, of issues as they are now (issueRowToTrackingIssue).
ForTracking(ids) == {[id |-> i, key |-> issueRows[i].key, status |-> issueRows[i].status] : i \in ids}

ChangesOf(s) == Cardinality({n \in DOMAIN transitions : issueRows[transitions[n].issue].scan = s})

-----------------------------------------------------------------------------
(* Ingest, seen from the tables                                             *)

\* The rows of the tables.
ScanRows == [type : {"branch", "pull_request"}, name : STRING, date : Nat, gate : {"OK", "WARN", "ERROR"}, total : Nat,
             legacy : BOOLEAN, previous : Nat, changed : Nat, new : Nat, closed : Nat]
IssueRows == [key : STRING, rule : STRING, type : IssueTypes, severity : STRING, tags : SUBSET STRING, file : Seq(STRING),
              ext : STRING, scan : Nat, status : {"open", "closed"}, resolution : Resolutions \cup {""},
              ingested : {"new", "unchanged", "reopened"}, tracking : {"new", "unchanged", "reopened", "unknown"}]
TransitionRows == [issue : Nat, from : {"open", "closed"}, to : {"open", "closed"}, resolution : Resolutions \cup {""}]
ChangeRows == [issue : Nat, field : {"status", "resolution"}, old : {""}, new : {"open", "closed"} \cup Resolutions]
Manifests == [type : {"branch", "pull_request"}, name : STRING]

IdleRequest == [stage |-> "idle", issue |-> 0, from |-> "", resolution |-> ""]
IdleBackfill == [stage |-> "idle", default |-> "", scopes |-> {}, scans |-> {}, previous |-> {}, updates |-> <<>>]
NothingShown == [review |-> "", reasons |-> <<>>, fix |-> <<>>, impacted |-> {}]
IdleReader == [stage |-> "idle", scan |-> NoScanId, offset |-> 0, listed |-> <<>>, files |-> <<>>, shown |-> NothingShown]

TriageInit ==
    /\ mainBranch \in MainBranches /\ arriving \in Arrivals
    /\ scans = <<>> /\ issueRows = <<>> /\ transitions = <<>> /\ changelog = <<>>
    /\ snapshots = <<>>
    /\ pending = [u \in Triagers |-> IdleRequest]
    /\ backfill = [a \in Backfillers |-> IdleBackfill]
    /\ reader = [r \in Readers |-> IdleReader]

\* The row of an issue that is stored, which every issue of a report gets.
NewRow(x, scan, state, legacy) ==
    [key |-> x.key, rule |-> x.rule, type |-> x.type, severity |-> x.severity, tags |-> x.tags, file |-> x.file, ext |-> x.ext,
     scan |-> scan, status |-> "open", resolution |-> "", ingested |-> state, tracking |-> IF legacy THEN "unknown" ELSE state]

\* A report is stored: its scan, tracked against the latest scan of its scope, its issues and
\* its snapshot, which is filed under the scope the report names. Scans stored before there was
\* a column for it have no tracking state; previous and changed record what they would have been
\* tracked against, and how often a user had changed that.
StoreReport(legacy, default) ==
    LET r == Head(arriving)
        scope == [type |-> r.type, name |-> r.name]
        id == Len(scans) + 1
        prev == LatestInScope(scope, default)
        old == IF prev = NoScanId THEN {} ELSE ForTracking(QueryScan(prev))
        rows == [k \in DOMAIN r.issues |-> NewRow(r.issues[k], id, TrackKey(r.issues[k].key, old), legacy)]
    IN  /\ arriving # <<>>
        /\ default \in DefaultBranchesNow
        /\ legacy => \A s \in ScanIds : scans[s].legacy
        /\ scans' = Append(scans, [type |-> r.type, name |-> r.name, date |-> r.date,
                                   gate |-> r.gate, total |-> Len(r.issues), legacy |-> legacy, previous |-> prev,
                                   changed |-> IF prev = NoScanId THEN 0 ELSE ChangesOf(prev),
                                   new |-> Cardinality({k \in DOMAIN rows : rows[k].ingested = "new"}),
                                   closed |-> Cardinality(ClosedBy({x.key : x \in ToSet(r.issues)}, old))])
        /\ issueRows' = issueRows \o rows
        /\ snapshots' = [k \in DOMAIN snapshots \cup {scope} |-> IF k = scope THEN id ELSE snapshots[k]]
        /\ arriving' = Tail(arriving)
        /\ UNCHANGED <<mainBranch, transitions, changelog, pending, backfill, reader>>

-----------------------------------------------------------------------------
(* Transitions                                                              *)

AllowedNext == [open |-> {"closed", "confirmed"}, closed |-> {"open"}]
Target(resolution) == IF resolution = "" THEN "open" ELSE "closed"

\* IssuesHandler.Transition and IssueRepository.Transition: the issue is read and checked before
\* the transaction begins.
BeginTransition(u, i, resolution) ==
    /\ pending[u].stage = "idle" /\ Len(transitions) < MaxChanges
    /\ issueRows[i].status \in DOMAIN AllowedNext
    /\ Target(resolution) \in AllowedNext[issueRows[i].status]
    /\ pending' = [pending EXCEPT ![u] = [stage |-> "read", issue |-> i, from |-> issueRows[i].status, resolution |-> resolution]]
    /\ UNCHANGED <<mainBranch, arriving, scans, issueRows, transitions, changelog, snapshots, backfill, reader>>

\* The issue is updated by id and the transition inserted in one transaction, with the status that
\* was read as the one left.
CommitTransition(u) ==
    LET q == pending[u]
    IN  /\ q.stage = "read"
        /\ issueRows' = [issueRows EXCEPT ![q.issue].status = Target(q.resolution), ![q.issue].resolution = q.resolution]
        /\ transitions' = Append(transitions, [issue |-> q.issue, from |-> q.from, to |-> Target(q.resolution),
                                               resolution |-> q.resolution])
        /\ pending' = [pending EXCEPT ![u].stage = "committed"]
        /\ UNCHANGED <<mainBranch, arriving, scans, changelog, snapshots, backfill, reader>>

\* The transaction is rolled back.
TransitionFails(u) ==
    /\ pending[u].stage = "read"
    /\ pending' = [pending EXCEPT ![u] = IdleRequest]
    /\ UNCHANGED <<mainBranch, arriving, scans, issueRows, transitions, changelog, snapshots, backfill, reader>>

\* The change log is written afterwards, without the old value, and its error is dropped.
RecordChange(u, logged) ==
    LET q == pending[u]
        Entry(field, new) == [issue |-> q.issue, field |-> field, old |-> "", new |-> new]
    IN  /\ q.stage = "committed"
        /\ changelog' = IF ~logged THEN changelog
                        ELSE changelog \o <<Entry("status", Target(q.resolution))>>
                                       \o (IF q.resolution = "" THEN <<>> ELSE <<Entry("resolution", q.resolution)>>)
        /\ pending' = [pending EXCEPT ![u] = IdleRequest]
        /\ UNCHANGED <<mainBranch, arriving, scans, issueRows, transitions, snapshots, backfill, reader>>

-----------------------------------------------------------------------------
(* Backfill of tracking states                                              *)

BeginBackfill(a, default) ==
    /\ backfill[a].stage = "idle" /\ default \in DefaultBranchesNow
    /\ backfill' = [backfill EXCEPT ![a] = [IdleBackfill EXCEPT !.stage = "scope", !.default = default,
                                                                !.scopes = ProjectScopes(default)]]
    /\ UNCHANGED <<mainBranch, arriving, scans, issueRows, transitions, changelog, snapshots, pending, reader>>

\* backfillScope lists the scans of one scope, to go through them from the oldest.
BackfillScope(a, scope) ==
    /\ backfill[a].stage = "scope" /\ backfill[a].scans = {} /\ scope \in backfill[a].scopes
    /\ backfill' = [backfill EXCEPT ![a].scopes = @ \ {scope}, ![a].previous = {},
                                    ![a].scans = ScansInScope(scope, backfill[a].default)]
    /\ UNCHANGED <<mainBranch, arriving, scans, issueRows, transitions, changelog, snapshots, pending, reader>>

\* buildIssueTrackingBackfillUpdates: the states of the rows that have none.
BackfillUpdates(rows, previous) ==
    [i \in {j \in rows : issueRows[j].tracking = "unknown"} |-> TrackKey(issueRows[i].key, previous)]

\* Mutant of NextPrevious: only a scan that was updated is compared with.
NextPreviousIfUpdated(b, rows) == IF b.updates # <<>> THEN rows ELSE b.previous

\* The rows the next scan is compared with: as they were read, before the update.
NextPrevious(b, rows) == rows

\* One scan is read; what it was compared with is replaced by what it holds.
BackfillScan(a) ==
    LET b == backfill[a]
        rows == QueryScan(Oldest(b.scans))
        updates == BackfillUpdates(rows, b.previous)
    IN  /\ b.stage = "scope" /\ b.scans # {}
        /\ backfill' = [backfill EXCEPT ![a].scans = @ \ {Oldest(@)}, ![a].updates = updates,
                                        ![a].previous = NextPrevious([b EXCEPT !.updates = updates], ForTracking(rows)),
                                        ![a].stage = IF updates = <<>> THEN "scope" ELSE "update"]
        /\ UNCHANGED <<mainBranch, arriving, scans, issueRows, transitions, changelog, snapshots, pending, reader>>

\* Mutant of StillUnknown: the rows are updated by id alone.
StillUnknownAtRead(i) == TRUE

\* UpdateTrackingStates writes a state only over "unknown".
StillUnknown(i) == issueRows[i].tracking = "unknown"

\* UpdateTrackingStates: the batch is applied as a whole, or the backfill ends in an error.
BackfillWrite(a) ==
    LET b == backfill[a]
    IN  /\ b.stage = "update"
        /\ issueRows' = [i \in IssueIds |-> IF i \in DOMAIN b.updates /\ StillUnknown(i)
                                         THEN [issueRows[i] EXCEPT !.tracking = b.updates[i]] ELSE issueRows[i]]
        /\ backfill' = [backfill EXCEPT ![a].stage = "scope", ![a].updates = <<>>]
        /\ UNCHANGED <<mainBranch, arriving, scans, transitions, changelog, snapshots, pending, reader>>

BackfillEnds(a) ==
    /\ backfill[a].stage = "scope" /\ backfill[a].scans = {} /\ backfill[a].scopes = {}
    /\ backfill' = [backfill EXCEPT ![a] = IdleBackfill]
    /\ UNCHANGED <<mainBranch, arriving, scans, issueRows, transitions, changelog, snapshots, pending, reader>>

BackfillFails(a) ==
    /\ backfill[a].stage \in {"scope", "update"}
    /\ backfill' = [backfill EXCEPT ![a] = IdleBackfill]
    /\ UNCHANGED <<mainBranch, arriving, scans, issueRows, transitions, changelog, snapshots, pending, reader>>

-----------------------------------------------------------------------------
(* Filters, lists and facets                                                *)

TestabilityTags == {"testability", "unit-test", "coverage-gap", "mutation", "survived-mutant", "failing-test",
                    "flaky-test", "mutation-testing"}
SecurityTags == {"injection", "auth", "crypto", "secrets", "xss", "csrf", "ssrf"}
SecurityPrefixed == {"owasp-a1", "cwe-79"} \* the tags of the reports with one of the prefixes

\* enrichIssueRow: what is derived for an issue that is read.
QualityDomain(row) ==
    CASE row.tags \cap TestabilityTags # {} -> "testability"
      [] row.tags \cap TestabilityTags = {} /\ row.type \in {"vulnerability", "security_hotspot"} -> "security"
      [] row.tags \cap TestabilityTags = {} /\ row.type = "bug" -> "reliability"
      [] OTHER -> "maintainability"
LanguageFromPath(ext) ==
    CASE ext = ".go" -> "go" [] ext \in {".js", ".mjs"} -> "javascript" [] ext \in {".ts", ".tsx"} -> "typescript"
      [] ext = ".py" -> "python" [] ext = ".rs" -> "rust" [] OTHER -> "unknown"

\* issueDirectory: a file is its path, a sequence of names.
IssueDirectory(file) == IF Len(file) <= 1 THEN <<"./">> ELSE Front(file)

\* Mutant of QualityCondition: hotspots are left to the default.
QualityConditionStrict(row, quality) ==
    LET tested == row.tags \cap TestabilityTags # {}
    IN  CASE quality = "security" -> ~tested /\ row.type = "vulnerability"
          [] quality = "reliability" -> ~tested /\ row.type = "bug"
          [] quality = "testability" -> tested
          [] OTHER -> ~tested /\ row.type = "code_smell"

\* qualityDomainCondition and languageCondition: the same in SQL, on what is stored.
QualityCondition(row, quality) ==
    LET tested == row.tags \cap TestabilityTags # {}
    IN  CASE quality = "security" -> ~tested /\ row.type \in {"vulnerability", "security_hotspot"}
          [] quality = "reliability" -> ~tested /\ row.type = "bug"
          [] quality = "testability" -> tested
          [] OTHER -> ~tested /\ row.type = "code_smell"
LanguageCondition(row, language) ==
    CASE language = "go" -> row.ext = ".go"
      [] language = "javascript" -> row.ext \in {".js", ".mjs"}
      [] language = "typescript" -> row.ext \in {".ts", ".tsx"}
      [] language = "python" -> row.ext = ".py"
      [] language = "rust" -> row.ext = ".rs"
      [] OTHER -> row.ext \notin {".go", ".js", ".mjs", ".ts", ".tsx", ".py", ".rs"}

\* buildIssueFilter: a filter is a record with the query parameters that are given.
Matches(row, filter) ==
    \A d \in DOMAIN filter :
        CASE d = "quality" -> QualityCondition(row, filter[d])
          [] d = "language" -> LanguageCondition(row, filter[d])
          [] d \in {"tag", "category"} -> filter[d] \in row.tags
          [] d = "directory" -> IsPrefix(filter[d], row.file)
          [] OTHER -> row[d] = filter[d]
Matching(filter) == {i \in IssueIds : Matches(issueRows[i], filter)}

\* IssueRepository.Query, which parseIssueFilter and List call: the total, and one page.
TotalOf(filter) == Cardinality(Matching(filter))
Page(filter, limit, offset) ==
    LET rows == Ordered(Matching(filter), LAMBDA i, j : i > j)
    IN  SubSeq(rows, offset + 1, Min({Len(rows), offset + Min({limit, QueryCap})}))

\* FacetsForFilter: the values of an issue in a dimension, and how many issues have each.
FacetValues(row, d) ==
    CASE d = "quality" -> {QualityDomain(row)}
      [] d = "language" -> {LanguageFromPath(row.ext)}
      [] d = "tag" -> row.tags
      [] d = "category" -> row.tags \cap (SecurityTags \cup SecurityPrefixed)
      [] d = "directory" -> {IssueDirectory(row.file)}
      [] OTHER -> {row[d]}
Facets(filter, d) ==
    LET rows == Matching(filter)
    IN  [v \in UNION {FacetValues(issueRows[i], d) : i \in rows} |-> Cardinality({i \in rows : v \in FacetValues(issueRows[i], d)})]

-----------------------------------------------------------------------------
(* Activity                                                                 *)

\* appendScanComparisonEvents, and the change of profiles decorateProfileEvents finds.
ComparisonEvents(s, before) ==
    {e \in {"QUALITY_GATE", "ISSUE_SPIKE"} :
        \/ e = "QUALITY_GATE" /\ scans[s].gate # scans[before].gate /\ scans[s].gate # ""
        \/ e = "ISSUE_SPIKE" /\ scans[before].total > 0 /\ 2 * scans[s].new > scans[before].total}

\* Activity reads one scan more than the page, to compare the last one with.
ActivityWindow(all, limit, offset) == SubSeq(all, offset + 1, Min({Len(all), offset + limit + 1}))

\* buildActivityEntries
ActivityPage(all, limit, offset) ==
    LET window == ActivityWindow(all, limit, offset)
        Entry(i) == [scan |-> window[i],
                     delta |-> IF i < Len(window) THEN scans[window[i]].total - scans[window[i + 1]].total ELSE 0,
                     events |-> (IF offset + i = Len(all) THEN {"FIRST_ANALYSIS"} ELSE {})
                                \cup (IF i < Len(window) THEN ComparisonEvents(window[i], window[i + 1]) ELSE {})]
    IN  [i \in 1..Min({limit, Len(window)}) |-> Entry(i)]

-----------------------------------------------------------------------------
(* Readers                                                                  *)

\* A reader lists the issues of a scan it names, page by page.
OpenList(r, s) ==
    /\ reader[r].stage = "idle"
    /\ reader' = [reader EXCEPT ![r] = [IdleReader EXCEPT !.stage = "list", !.scan = s]]
    /\ UNCHANGED <<mainBranch, arriving, scans, issueRows, transitions, changelog, snapshots, pending, backfill>>

ReadPage(r) ==
    LET page == Page([scan |-> reader[r].scan], PageLimit, reader[r].offset)
    IN  /\ reader[r].stage = "list"
        /\ reader' = [reader EXCEPT ![r].listed = @ \o page, ![r].offset = @ + PageLimit,
                                    ![r].stage = IF page = <<>> THEN "listed" ELSE "list"]
        /\ UNCHANGED <<mainBranch, arriving, scans, issueRows, transitions, changelog, snapshots, pending, backfill>>

\* Overview picks the latest scan of the scope and reads everything else by its id: the facets...
OpenOverview(r, scope, default) ==
    /\ reader[r].stage = "idle" /\ default \in DefaultBranchesNow /\ LatestInScope(scope, default) # NoScanId
    /\ reader' = [reader EXCEPT ![r] = [IdleReader EXCEPT !.stage = "overview", !.scan = LatestInScope(scope, default)]]
    /\ UNCHANGED <<mainBranch, arriving, scans, issueRows, transitions, changelog, snapshots, pending, backfill>>

OverviewFacets(r, fails) ==
    /\ reader[r].stage = "overview"
    /\ reader' = [reader EXCEPT ![r].stage = "facets",
                                ![r].files = IF fails THEN <<>> ELSE Facets([scan |-> reader[r].scan], "file")]
    /\ UNCHANGED <<mainBranch, arriving, scans, issueRows, transitions, changelog, snapshots, pending, backfill>>

\* fillOverviewMeasures and loadSummaryNewCodeMetrics, of the metrics a scan always has.
TypeOf(metric) == CASE metric = "bugs" -> "bug" [] metric = "code_smells" -> "code_smell"
                    [] metric = "security_hotspots" -> "security_hotspot" [] OTHER -> ""
TotalMeasures(s) == [x \in {"bugs", "code_smells"} |-> Cardinality({i \in IssuesOf(s) : issueRows[i].type = TypeOf(x)})]
NewMeasures(s) == [new_issues |-> scans[s].new, closed_issues |-> scans[s].closed]

\* violatesOverviewCondition; an operator it does not know is never violated.
Violates(op, actual, threshold) ==
    CASE op = "GT" -> actual > threshold [] op = "LT" -> actual < threshold
      [] op = "GTE" -> actual >= threshold [] op = "LTE" -> actual =< threshold
      [] op = "EQ" -> actual = threshold [] op = "NE" -> actual # threshold
      [] OTHER -> FALSE

\* collectOverviewSummaryReasons: the conditions that the scan violates now, whatever
\* its stored gate status says.
SummaryReasons(s, conds) ==
    LET measures(c) == IF c.newCode THEN NewMeasures(s) ELSE TotalMeasures(s)
    IN  SelectSeq(conds, LAMBDA c : c.metric \in DOMAIN measures(c) /\ Violates(c.op, measures(c)[c.metric], c.threshold))

ReviewStatus(gate) ==
    CASE gate = "" -> "needs_setup" [] gate = "OK" -> "ready" [] gate = "WARN" -> "attention" [] OTHER -> "blocked"

SeverityRank(severity) ==
    CASE severity = "blocker" -> 0 [] severity = "critical" -> 1 [] severity = "major" -> 2
      [] severity = "minor" -> 3 [] severity = "info" -> 4 [] OTHER -> 5
TypeRank(type) ==
    CASE type = "vulnerability" -> 0 [] type = "bug" -> 1 [] type = "security_hotspot" -> 2
      [] type = "code_smell" -> 3 [] OTHER -> 4

\* overviewIssueBucket: new issues before known ones, and those the gate fails for before others.
Bucket(row, reasons) ==
    LET fresh == row.tracking \in {"new", "reopened"}
        related == \E c \in ToSet(reasons) : TypeOf(c.metric) = row.type
    IN  CASE fresh /\ related -> 0 [] fresh /\ ~related -> 1 [] ~fresh /\ related -> 2 [] OTHER -> 3

\* activeSummaryIssues and buildOverviewMustFixNow: the first of the issues that are not closed.
Active(rows) == {i \in rows : issueRows[i].status # "closed"}
MustFix(rows, reasons, limit) ==
    LET Rank(i) == <<Bucket(issueRows[i], reasons), SeverityRank(issueRows[i].severity), TypeRank(issueRows[i].type), i>>
        Before(i, j) == \E k \in 1..4 : Rank(i)[k] < Rank(j)[k] /\ \A l \in 1..(k - 1) : Rank(i)[l] = Rank(j)[l]
        active == Ordered(Active(rows), Before)
    IN  SubSeq(active, 1, Min({limit, Len(active)}))

\* buildOverviewImpactedFiles: by the facet over all issues, or without one by the active issues;
\* the files with most issues. Which of two with the same number is taken their paths decide.
FileCounts(facet, rows) ==
    IF facet # <<>> THEN facet
    ELSE [f \in {issueRows[i].file : i \in Active(rows)} |-> Cardinality({i \in Active(rows) : issueRows[i].file = f})]
AreImpacted(files, counts, limit) ==
    /\ Cardinality(files) = Min({limit, Cardinality(DOMAIN counts)})
    /\ \A f \in files, g \in DOMAIN counts \ files : counts[f] >= counts[g]

\* ... and later the gate as it is at that moment, and the issues sorted by what it fails for.
OverviewIssues(r, conds) ==
    LET s == reader[r].scan
        reasons == IF scans[s].gate = "" THEN <<>> ELSE SummaryReasons(s, conds)
        rows == QueryScan(s)
        counts == FileCounts(reader[r].files, rows)
    IN  /\ reader[r].stage = "facets"
        /\ \E files \in SUBSET (DOMAIN counts) :
              /\ AreImpacted(files, counts, PageLimit)
              /\ reader' = [reader EXCEPT ![r].stage = "shown",
                                          ![r].shown = [review |-> ReviewStatus(scans[s].gate), reasons |-> reasons,
                                                        fix |-> MustFix(rows, reasons, PageLimit), impacted |-> files]]
        /\ UNCHANGED <<mainBranch, arriving, scans, issueRows, transitions, changelog, snapshots, pending, backfill>>

\* CodeFile: the stored file of the scope, and the issues of its latest scan.
ScopeKey(scope, default) == IF scope.type = "branch" /\ scope.name = "" THEN [scope EXCEPT !.name = default] ELSE scope
CodeView(scope, default) ==
    LET key == ScopeKey(scope, default)
    IN  [file |-> IF key \in DOMAIN snapshots THEN snapshots[key] ELSE NoScanId, issues |-> LatestInScope(key, default)]

-----------------------------------------------------------------------------

TriageNext ==
    \/ \E legacy \in BOOLEAN, b \in DefaultBranchesNow : StoreReport(legacy, b)
    \/ \E u \in Triagers :
          \/ \E i \in IssueIds, x \in Resolutions : BeginTransition(u, i, x)
          \/ CommitTransition(u) \/ TransitionFails(u)
          \/ \E logged \in BOOLEAN : RecordChange(u, logged)
    \/ \E a \in Backfillers :
          \/ \E b \in DefaultBranchesNow : BeginBackfill(a, b)
          \/ \E scope \in backfill[a].scopes : BackfillScope(a, scope)
          \/ BackfillScan(a) \/ BackfillWrite(a) \/ BackfillEnds(a) \/ BackfillFails(a)
    \/ \E r \in Readers :
          \/ \E s \in ScanIds : OpenList(r, s)
          \/ ReadPage(r)
          \/ \E b \in DefaultBranchesNow : \E scope \in ProjectScopes(b) : OpenOverview(r, scope, b)
          \/ \E fails \in BOOLEAN : OverviewFacets(r, fails)
          \/ \E conds \in Conditions : OverviewIssues(r, conds)

TriageSpec == TriageInit /\ [][TriageNext]_triageVars

-----------------------------------------------------------------------------
(* Properties                                                               *)

\* Every table holds what its columns allow, and links lead to rows.
TriageTypeOK ==
    /\ \A s \in ScanIds : scans[s] \in ScanRows /\ scans[s].previous \in ScanIds \cup {NoScanId}
    /\ \A i \in IssueIds : issueRows[i] \in IssueRows /\ issueRows[i].scan \in ScanIds
    /\ \A t \in ToSet(transitions) : t \in TransitionRows /\ t.issue \in IssueIds
    /\ \A e \in ToSet(changelog) : e \in ChangeRows /\ e.issue \in IssueIds
    /\ \A k \in DOMAIN snapshots : k \in Manifests /\ snapshots[k] \in ScanIds

\* Reports arrived in the order of their dates, into scopes that do not move.
InOrder ==
    /\ mainBranch # ""
    /\ \A s, t \in ScanIds : s < t => scans[s].date <= scans[t].date

\* The status of an issue is what its last recorded transition says, although the
\* transitions of two users are checked against statuses read before
\* (IssueRepository.Transition).
HistoryExplains ==
    \A i \in IssueIds :
        LET own == {n \in DOMAIN transitions : transitions[n].issue = i}
        IN  IF own = {} THEN issueRows[i].status = "open"
            ELSE \E n \in own : /\ \A m \in own : m <= n
                                /\ issueRows[i].status = transitions[n].to
                                /\ issueRows[i].resolution = transitions[n].resolution

\* Each issue of a scan has exactly one tracking state and each open issue of the
\* previous scan is found again or counted as closed, with several issues under one
\* key as well; an issue is new exactly when its key was not there.
TrackingAccounts ==
    \A s \in ScanIds :
        LET prev == scans[s].previous
            keys(t) == {issueRows[i].key : i \in IssuesOf(t)}
        IN  /\ scans[s].new = Cardinality({i \in IssuesOf(s) : prev = NoScanId \/ issueRows[i].key \notin keys(prev)})
            /\ prev # NoScanId /\ ChangesOf(prev) = scans[s].changed /\ (\A i \in IssuesOf(prev) : issueRows[i].status = "open")
                  => scans[s].closed = Cardinality({i \in IssuesOf(prev) : issueRows[i].key \notin keys(s)})

\* A backfilled scan has the tracking states it would have been stored with, unless a
\* user has changed the issues of the scan before it since (backfillScope).
BackfillAgrees ==
    InOrder => \A i \in IssueIds :
        LET s == issueRows[i].scan
            prev == scans[s].previous
        IN  issueRows[i].tracking # "unknown" /\ (prev # NoScanId => ChangesOf(prev) = scans[s].changed)
                => issueRows[i].tracking = issueRows[i].ingested

\* The lifecycle of an issue is true: its status to its history, its tracking state to the scans.
LifecycleIsTrue == TriageTypeOK /\ HistoryExplains /\ TrackingAccounts /\ BackfillAgrees

\* "Only rows still marked as unknown are updated so the operation is safe to rerun": a
\* state once set never changes, however many backfills run and meet changed issues.
BackfillKeeps ==
    [][\A i \in IssueIds : issueRows[i].tracking # "unknown" => issueRows'[i].tracking = issueRows[i].tracking]_triageVars

\* A facet promises what the list holds when its value is added to the filter (docs/api.md,
\* "Issue filtering and facets"); a directory holds at least its own files.
Adding(filter, d, v) == [k \in DOMAIN filter \cup {d} |-> IF k = d THEN v ELSE filter[k]]
FacetsMatchLists ==
    \A s \in ScanIds, f \in {<<>>, [status |-> "open"], [type |-> "bug"]} :
        LET base == Adding(f, "scan", s)
        IN  \A d \in {"quality", "language", "tag", "category", "severity", "type", "status", "tracking", "rule", "directory"} :
                \A v \in DOMAIN Facets(base, d) :
                    LET total == TotalOf(Adding(base, d, v))
                    IN  \/ d \in DOMAIN f
                        \/ Facets(base, d)[v] = total
                        \/ d = "directory" /\ (Facets(base, d)[v] <= total \/ v = <<"./">>)

\* The pages of the activity show what the whole list would: no event is lost or
\* invented at the edge of a page.
ActivityPagesAgree ==
    \A b \in DefaultBranchesNow : \A scope \in ProjectScopes(b) :
        LET all == NewestFirst(ScansInScope(scope, b))
            whole == ActivityPage(all, Len(all), 0)
        IN  \A limit \in 1..2, offset \in 0..(Len(all) - 1) :
                ActivityPage(all, limit, offset) = SubSeq(whole, offset + 1, Min({Len(all), offset + limit}))

\* Who pages through a scan sees each of its issues once, whatever is stored and
\* changed meanwhile; an overview is of one scan throughout, its counts by file are of all issues, and
\* whoever is told to fix an issue finds its file among the impacted ones unless as many
\* files have no fewer issues, although the two are read apart.
AllOf(counts) == UNION {{v} \X (1..counts[v]) : v \in DOMAIN counts}
IssuesIn(s, file) == Cardinality({i \in IssuesOf(s) : issueRows[i].file = file})
ReadersSeeOneScan ==
    \A r \in Readers :
        LET s == reader[r].scan
            shown == reader[r].shown
        IN  /\ IsInjective(reader[r].listed)
            /\ reader[r].stage = "listed" => ToSet(reader[r].listed) = IssuesOf(s)
            /\ reader[r].files # <<>> => Cardinality(AllOf(reader[r].files)) = Cardinality(IssuesOf(s))
            /\ \A i \in ToSet(shown.fix) :
                  /\ i \in IssuesOf(s)
                  /\ \/ issueRows[i].file \in shown.impacted
                     \/ /\ Cardinality(shown.impacted) = PageLimit
                        /\ reader[r].files # <<>> => \A f \in shown.impacted : IssuesIn(s, f) >= IssuesIn(s, issueRows[i].file)

\* The code of a scope is shown with the issues of the scan it was stored with, when
\* reports name their branch and arrive in order (docs/api.md, "Code snapshots").
CodeIsOfLatest ==
    InOrder /\ (\A s \in ScanIds : scans[s].name # "") =>
        \A scope \in ProjectScopes(mainBranch) : CodeView(scope, mainBranch).file = CodeView(scope, mainBranch).issues

\* Nothing is in progress: the tables of every other state are those of such a one.
AtRest == pending = [u \in Triagers |-> IdleRequest] /\ backfill = [a \in Backfillers |-> IdleBackfill]
          /\ reader = [r \in Readers |-> IdleReader]

\* What the views of a project show agrees with each other.
ViewsAgree == ReadersSeeOneScan /\ (AtRest => FacetsMatchLists /\ ActivityPagesAgree /\ CodeIsOfLatest)

\* The issues of a project are what happened to them, and what is shown of them is what they are.
IssuesAreAsShown == LifecycleIsTrue /\ ViewsAgree
=============================================================================
