--------------------------- MODULE ProjectSearch ---------------------------
(* Projects, and the search in them and in their issues. Projects are created, *)
(* edited and deleted by users and written by every ingest. A search is        *)
(* answered by one of two backends: PostgreSQL looks at the tables themselves, *)
(* in a statement for the total, one for the page and one for each facet;      *)
(* ZincSearch knows the documents that the indexer once put there. An issue is *)
(* its rule, which stands for all of its text, its severity and its status.    *)
EXTENDS Integers, FiniteSets, SequencesExt, FiniteSetsExt

CONSTANTS
    Backends,     \* the configured backends
    ProjectKeys, Names, MainNames, \* keys, names and main branches of projects
    Editors,      \* handlers that change a project
    Finders,      \* handlers of searches and listings
    Analyses,     \* what a scan finds: sequences of issues, as they are inserted
    Requests,     \* searches: index, text, filter, limit and offset
    MaxProjects, MaxScanned, MaxWrites \* bounds on ids and on users' writes

VARIABLES
    backend,
    listed,     \* projects: id -> key, name, main branch
    analysed,   \* scans: id -> project, and whether an index job waits, runs or is done
    stored,     \* issues: id -> scan, project, rule, severity, status
    documents,  \* the issues of ZincSearch by _id
    indexing,   \* the page in the indexer's hands: scan, and the rows it has read
    editor,     \* updates and deletions of projects in progress
    finder,     \* searches in progress and answered
    handedOut,  \* ids given to projects, scans and issues
    writes,     \* changes by users so far
    everStored, \* history: every row an issue has been
    asked,      \* history: what was last requested for the fields of a project
    contested   \* history: keys written by an update that another write overtook

searchVars == <<backend, listed, analysed, stored, documents, indexing, editor, finder, handedOut, writes,
                everStored, asked, contested>>

\* A limit that is not positive is replaced before a search begins, a negative offset fails.
ASSUME RequestAssumption ==
    /\ \A r \in Requests : r.limit \in Nat \ {0} /\ r.offset \in Nat
    /\ \A a \in Analyses : DOMAIN a = 1..Len(a) /\ Len(a) \in Nat

Idle == [pc |-> "idle"]
NoPage == [scan |-> 0, rows |-> <<>>]
Gone == [name |-> "", branch |-> "", there |-> FALSE]
FacetFields == <<"severity", "rule">>

SearchInit ==
    /\ backend \in Backends
    /\ listed = <<>> /\ analysed = <<>> /\ stored = <<>> /\ documents = <<>>
    /\ indexing = NoPage
    /\ editor = [e \in Editors |-> Idle]
    /\ finder = [f \in Finders |-> Idle]
    /\ handedOut = [projects |-> 0, scans |-> 0, issues |-> 0]
    /\ writes = 0 /\ everStored = {} /\ contested = {}
    /\ asked = [k \in ProjectKeys |-> Gone]

-----------------------------------------------------------------------------
(* Projects                                                                   *)

IdsOf(key) == {p \in DOMAIN listed : listed[p].key = key}
GetByKey(key) == CHOOSE p \in IdsOf(key) : TRUE

\* The rows with the project among them, inserted or found by its key.
Upsert(project) ==
    LET id == IF IdsOf(project.key) # {} THEN GetByKey(project.key) ELSE handedOut.projects + 1
    IN  [p \in DOMAIN listed \cup {id} |-> IF p = id THEN project ELSE listed[p]]
IdAfterUpsert == [handedOut EXCEPT !.projects = Max({@} \cup DOMAIN listed')]

\* A search under way no longer sees what it began with; nor does an update of this project.
Disturb == finder' = [f \in Finders |-> IF finder[f].pc = "idle" THEN Idle ELSE [finder[f] EXCEPT !.calm = FALSE]]
Overtaken(key) ==
    [e \in Editors |-> IF editor[e].pc = "update" /\ editor[e].project.key = key
                       THEN [editor[e] EXCEPT !.stale = TRUE] ELSE editor[e]]
Write == writes < MaxWrites /\ writes' = writes + 1

\* The ingest adapter writes a project of which it knows key and name.
ToStoreProject(key, name) == [key |-> key, name |-> name, branch |-> ""]

\* What a request with every field leaves behind.
WrittenWhole(project) ==
    /\ listed' = Upsert(project)
    /\ asked' = [asked EXCEPT ![project.key] = [name |-> project.name, branch |-> project.branch, there |-> TRUE]]
    /\ contested' = contested \ {project.key}
    /\ editor' = Overtaken(project.key)
    /\ Disturb

CreateProject(key, name, branch) ==
    /\ Write
    /\ IdsOf(key) # {} \/ handedOut.projects < MaxProjects
    /\ WrittenWhole([key |-> key, name |-> name, branch |-> branch])
    /\ handedOut' = IdAfterUpsert
    /\ UNCHANGED <<backend, analysed, stored, documents, indexing, everStored>>

\* Update and Delete read the project by its key, and answer 404 when there is none.
BeginUpdate(e, key, change) ==
    /\ editor[e].pc = "idle" /\ IdsOf(key) # {} /\ Write
    /\ editor' = [editor EXCEPT ![e] = [pc |-> "update", project |-> listed[GetByKey(key)],
                                        change |-> change, stale |-> FALSE]]
    /\ UNCHANGED <<backend, listed, analysed, stored, documents, indexing, finder, handedOut, everStored, asked, contested>>

BeginDelete(e, key) ==
    /\ editor[e].pc = "idle" /\ IdsOf(key) # {} /\ Write
    /\ editor' = [editor EXCEPT ![e] = [pc |-> "delete", id |-> GetByKey(key), key |-> key]]
    /\ UNCHANGED <<backend, listed, analysed, stored, documents, indexing, finder, handedOut, everStored, asked, contested>>

\* Mutant of Changed: fields that are absent from the request are cleared.
ChangedWhole(project, change) ==
    [project EXCEPT !.name = IF "name" \in DOMAIN change THEN change.name ELSE "",
                    !.branch = IF "branch" \in DOMAIN change THEN change.branch ELSE ""]

\* The project read before, with the fields of the request.
Changed(project, change) ==
    [project EXCEPT !.name = IF "name" \in DOMAIN change THEN change.name ELSE @,
                    !.branch = IF "branch" \in DOMAIN change THEN change.branch ELSE @]

\* The write goes by the key: a project that was deleted meanwhile is created again.
FinishUpdate(e) ==
    /\ editor[e].pc = "update"
    /\ LET key == editor[e].project.key
           change == editor[e].change
       IN  /\ IdsOf(key) # {} \/ handedOut.projects < MaxProjects
           /\ listed' = Upsert(Changed(editor[e].project, change))
           /\ asked' = [asked EXCEPT ![key] =
                           [name |-> IF "name" \in DOMAIN change THEN change.name ELSE @.name,
                            branch |-> IF "branch" \in DOMAIN change THEN change.branch ELSE @.branch, there |-> TRUE]]
           /\ contested' = IF editor[e].stale THEN contested \cup {key} ELSE contested
           /\ editor' = [Overtaken(key) EXCEPT ![e] = Idle]
    /\ Disturb
    /\ handedOut' = IdAfterUpsert
    /\ UNCHANGED <<backend, analysed, stored, documents, indexing, writes, everStored>>

Without(f, ids) == [x \in DOMAIN f \ ids |-> f[x]]
RowsOfScans(scans) == {i \in DOMAIN stored : stored[i].scan \in scans}
ScansOf(project) == {s \in DOMAIN analysed : analysed[s].project = project}

\* Scans, issues and index jobs go with their project, the documents stay. No row: an error.
FinishDelete(e) ==
    /\ editor[e].pc = "delete"
    /\ LET id == editor[e].id
       IN  /\ listed' = Without(listed, {id})
           /\ stored' = Without(stored, RowsOfScans(ScansOf(id)))
           /\ analysed' = Without(analysed, ScansOf(id))
           /\ IF id \in DOMAIN listed
              THEN /\ asked' = [asked EXCEPT ![editor[e].key] = Gone]
                   /\ contested' = contested \ {editor[e].key}
                   /\ editor' = [Overtaken(editor[e].key) EXCEPT ![e] = Idle]
                   /\ Disturb
              ELSE editor' = [editor EXCEPT ![e] = Idle] /\ UNCHANGED <<asked, contested, finder>>
    /\ UNCHANGED <<backend, documents, indexing, handedOut, writes, everStored>>

-----------------------------------------------------------------------------
(* Scans, and the documents of their issues                                   *)

\* The part of an ingest that is seen here: project, scan and issues, and an index job.
IngestScan(key, name, analysis) ==
    /\ handedOut.scans < MaxScanned /\ (IdsOf(key) # {} \/ handedOut.projects < MaxProjects)
    /\ WrittenWhole(ToStoreProject(key, name))
    /\ LET project == CHOOSE p \in DOMAIN listed' : listed'[p].key = key
           scan == handedOut.scans + 1
           first == handedOut.issues
           new == [i \in (first + 1)..(first + Len(analysis)) |->
                      [scan |-> scan, project |-> project, rule |-> analysis[i - first].rule,
                       severity |-> analysis[i - first].severity, status |-> "open"]]
       IN  /\ analysed' = [s \in DOMAIN analysed \cup {scan} |->
                              IF s = scan THEN [project |-> project, job |-> "accepted"] ELSE analysed[s]]
           /\ stored' = [i \in DOMAIN stored \cup DOMAIN new |-> IF i \in DOMAIN new THEN new[i] ELSE stored[i]]
           /\ everStored' = everStored \cup {<<i, new[i]>> : i \in DOMAIN new}
           /\ handedOut' = [projects |-> IdAfterUpsert.projects, scans |-> scan, issues |-> first + Len(analysis)]
    /\ UNCHANGED <<backend, documents, indexing, writes>>

\* A user closes or reopens an issue; nothing tells the index.
ChangeStatus(i) ==
    /\ i \in DOMAIN stored /\ Write /\ Disturb
    /\ stored' = [stored EXCEPT ![i].status = IF @ = "open" THEN "closed" ELSE "open"]
    /\ everStored' = everStored \cup {<<i, stored'[i]>>}
    /\ UNCHANGED <<backend, listed, analysed, documents, indexing, editor, handedOut, asked, contested>>

\* Retention deletes a scan, its issues and its index job.
DeleteOldScan(s) ==
    /\ s \in DOMAIN analysed /\ s # Max(DOMAIN analysed) /\ Disturb
    /\ analysed' = Without(analysed, {s}) /\ stored' = Without(stored, RowsOfScans({s}))
    /\ UNCHANGED <<backend, listed, documents, indexing, editor, handedOut, writes, everStored, asked, contested>>

\* The indexer claims a job and reads the issues of its scan.
ReadRows(s) ==
    /\ indexing = NoPage /\ s \in DOMAIN analysed /\ analysed[s].job = "accepted"
    /\ analysed' = [analysed EXCEPT ![s].job = "running"]
    /\ indexing' = [scan |-> s, rows |-> [i \in RowsOfScans({s}) |-> stored[i]]]
    /\ UNCHANGED <<backend, listed, stored, documents, editor, finder, handedOut, writes, everStored, asked, contested>>

\* Mutant of IndexIssues: a page replaces the index.
IndexPageOnly(rows) == rows

\* A bulk insert replaces documents with the id of a row; PostgreSQL has nothing to index.
IndexIssues(rows) ==
    IF backend = "postgres" THEN documents
    ELSE [i \in DOMAIN documents \cup DOMAIN rows |-> IF i \in DOMAIN rows THEN rows[i] ELSE documents[i]]

\* The answer is success; or an error, whether the documents were taken or not, and a later retry.
BulkAnswered(taken, ok) ==
    /\ indexing # NoPage /\ (ok => taken)
    /\ documents' = IF taken THEN IndexIssues(indexing.rows) ELSE documents
    /\ LET s == indexing.scan
       IN  analysed' = IF s \in DOMAIN analysed
                       THEN [analysed EXCEPT ![s].job = IF ok THEN "completed" ELSE "accepted"] ELSE analysed
    /\ indexing' = NoPage
    /\ UNCHANGED <<backend, listed, stored, editor, finder, handedOut, writes, everStored, asked, contested>>

-----------------------------------------------------------------------------
(* Search                                                                     *)

\* Filters name columns; the table of projects has none of those a search may filter by.
FilterFits(r) == r.index = "issues" \/ DOMAIN r.filter = {}

Fits(r, row) ==
    /\ r.text \in {"", IF r.index = "issues" THEN row.rule ELSE row.name}
    /\ \A c \in DOMAIN r.filter : row[c] = r.filter[c]

\* Mutant of MatchingRows: the filter is forgotten.
MatchingUnfiltered(r, table) == {i \in DOMAIN table : Fits([r EXCEPT !.filter = <<>>], table[i])}

MatchingRows(r, table) == {i \in DOMAIN table : Fits(r, table[i])}
TableOf(r) == IF r.index = "issues" THEN stored ELSE listed

\* Mutant of PageOf: the first page whatever the offset.
FirstPage(r, ids) == {i \in ids : Cardinality({j \in ids : j > i}) < r.limit}

\* The page in descending order of ids.
PageOf(r, ids) == {i \in ids : Cardinality({j \in ids : j > i}) \in r.offset..(r.offset + r.limit - 1)}

\* Mutant of CountBy: the facets count the hits of the page.
CountHits(r, facet, table) ==
    [v \in {table[i][facet] : i \in PageOf(r, MatchingRows(r, table))} |->
        Cardinality({i \in PageOf(r, MatchingRows(r, table)) : table[i][facet] = v})]

CountBy(r, facet, table) ==
    [v \in {table[i][facet] : i \in MatchingRows(r, table)} |->
        Cardinality({i \in MatchingRows(r, table) : table[i][facet] = v})]

BeginSearch(f, r) ==
    /\ finder[f].pc \in {"idle", "answered", "failed"}
    /\ finder' = [finder EXCEPT ![f] =
          [pc |-> "ask", request |-> r, total |-> 0, hits |-> {}, facets |-> <<>>, left |-> <<>>,
           calm |-> TRUE, cut |-> {}]]
    /\ UNCHANGED <<backend, listed, analysed, stored, documents, indexing, editor, handedOut, writes,
                   everStored, asked, contested>>

OnlyFinder == UNCHANGED <<backend, listed, analysed, stored, documents, indexing, editor, handedOut, writes,
                          everStored, asked, contested>>

\* The list of projects comes from PostgreSQL, whatever searches.
InTables(r) == backend = "postgres" \/ r.index = "listing"

CountStatement(f) ==
    /\ finder[f].pc = "ask" /\ InTables(finder[f].request)
    /\ LET r == finder[f].request
       IN  finder' = [finder EXCEPT ![f] =
              IF FilterFits(r) THEN [@ EXCEPT !.pc = "page", !.total = Cardinality(MatchingRows(r, TableOf(r)))]
              ELSE [@ EXCEPT !.pc = "failed"]]
    /\ OnlyFinder

\* The rows of a page come one by one, and an error may end them before one of them; the search
\* does not ask.
PageStatement(f, cut) ==
    /\ finder[f].pc = "page"
    /\ LET r == finder[f].request
           table == TableOf(r)
           page == PageOf(r, MatchingRows(r, table))
       IN  /\ cut => r.index # "listing"
           /\ \E shown \in IF cut THEN {{i \in page : i > lost} : lost \in page} ELSE {page} :
                 finder' = [finder EXCEPT ![f] =
                     [@ EXCEPT !.hits = {<<i, table[i]>> : i \in shown}, !.cut = IF cut THEN {"page"} ELSE {},
                               !.pc = IF r.index = "issues" THEN "facets" ELSE "answered",
                               !.left = FacetFields]]
    /\ OnlyFinder

\* A facet whose statement fails is left out of the answer; one whose rows an error ends is shown
\* with the groups that came before.
FacetStatement(f, fate) ==
    /\ finder[f].pc = "facets"
    /\ LET search == finder[f]
           facet == Head(search.left)
           counts == CountBy(search.request, facet, stored)
       IN  \E shown \in IF fate = "cut" THEN SUBSET DOMAIN counts \ {DOMAIN counts} ELSE {DOMAIN counts} :
              finder' = [finder EXCEPT ![f] =
                 [search EXCEPT
                    !.facets = [a \in DOMAIN search.facets \cup (IF fate = "failed" THEN {} ELSE {facet}) |->
                                   IF a = facet THEN [v \in shown |-> counts[v]] ELSE search.facets[a]],
                    !.cut = IF fate = "cut" THEN search.cut \cup {facet} ELSE search.cut,
                    !.left = Tail(search.left),
                    !.pc = IF Len(search.left) = 1 THEN "answered" ELSE "facets"]]
    /\ OnlyFinder

\* All documents of a scan have one creation date, so the order of hits in ZincSearch, and with
\* it the page, is its choice. Nothing ever writes to its index of projects.
ZincFinds(r) == IF r.index = "issues" THEN MatchingRows(r, documents) ELSE {}
ZincPages(r) ==
    LET found == ZincFinds(r)
    IN  kSubset(Max({0, Min({r.limit, Cardinality(found) - r.offset})}), found)

\* Hits, total and aggregations of one look at the documents.
ZincResult(search, page) ==
    LET r == search.request
    IN  [search EXCEPT !.pc = "answered", !.total = Cardinality(ZincFinds(r)), !.hits = {<<i, documents[i]>> : i \in page},
                       !.facets = IF ZincFinds(r) = {} THEN <<>>
                                  ELSE [a \in ToSet(FacetFields) |-> CountBy(r, a, documents)]]

ZincSearch(f) ==
    /\ finder[f].pc = "ask" /\ ~InTables(finder[f].request)
    /\ \E page \in ZincPages(finder[f].request) : finder' = [finder EXCEPT ![f] = ZincResult(@, page)]
    /\ OnlyFinder

\* A backend that is down makes the search fail: no other backend is asked.
SearchFails(f) ==
    /\ finder[f].pc \in {"ask", "page"}
    /\ finder' = [finder EXCEPT ![f].pc = "failed"]
    /\ OnlyFinder

Editing ==
    \/ \E k \in ProjectKeys, n \in Names, b \in MainNames : CreateProject(k, n, b)
    \/ \E e \in Editors, k \in ProjectKeys :
          \/ \E n \in Names : BeginUpdate(e, k, [name |-> n])
          \/ \E b \in MainNames : BeginUpdate(e, k, [branch |-> b])
          \/ BeginDelete(e, k)
    \/ \E e \in Editors : FinishUpdate(e) \/ FinishDelete(e)

Analysing ==
    \/ \E k \in ProjectKeys, n \in Names, a \in Analyses : IngestScan(k, n, a)
    \/ \E i \in DOMAIN stored : ChangeStatus(i)
    \/ \E s \in DOMAIN analysed : DeleteOldScan(s) \/ ReadRows(s)
    \/ \E taken, ok \in BOOLEAN : BulkAnswered(taken, ok)

Answering ==
    \E f \in Finders :
        \/ CountStatement(f) \/ ZincSearch(f) \/ SearchFails(f)
        \/ \E cut \in BOOLEAN : PageStatement(f, cut)
        \/ \E fate \in {"whole", "cut", "failed"} : FacetStatement(f, fate)

SearchNext == Editing \/ Analysing \/ (\E f \in Finders, r \in Requests : BeginSearch(f, r)) \/ Answering

SearchSpec == SearchInit /\ [][SearchNext]_searchVars

-----------------------------------------------------------------------------
(* Properties                                                                 *)

SearchTypeOK ==
    /\ \A p \in DOMAIN listed : listed[p].key \in ProjectKeys
    /\ \A p, q \in DOMAIN listed : listed[p].key = listed[q].key => p = q
    /\ \A i \in DOMAIN stored : stored[i].scan \in DOMAIN analysed
    /\ \A s \in DOMAIN analysed : analysed[s].project \in DOMAIN listed
    /\ \A e \in Editors : editor[e].pc \in {"idle", "update", "delete"}
    /\ \A f \in Finders : finder[f].pc \in {"idle", "ask", "page", "facets", "answered", "failed"}

AnsweredSearches == {f \in Finders : finder[f].pc = "answered"}

\* Every hit of a search is a row that the issue or project has been, whole and fitting the
\* request, and no page is longer than asked for, although the index is written by retried
\* bulk inserts of pages read before.
HitsAreRows ==
    \A f \in AnsweredSearches :
        LET r == finder[f].request
        IN  /\ \A h \in finder[f].hits : Fits(r, h[2]) /\ (r.index = "issues" => h \in everStored)
            /\ IsInjective([h \in finder[f].hits |-> h[1]])
            /\ Cardinality(finder[f].hits) <= r.limit

\* The sum of counts, as the number of what they count.
SumOf(counts) == Cardinality(UNION {{v} \X (1..counts[v]) : v \in DOMAIN counts})

\* Total, hits and facets of one answer speak of the same rows, unless somebody wrote between
\* the statements or an error cut them short: every facet that is shown adds up to the total, and
\* the pages cover it in their order.
AnswersAddUp ==
    \A f \in AnsweredSearches :
        LET r == finder[f].request
        IN  finder[f].calm \/ ~InTables(r) =>
                /\ \A a \in DOMAIN finder[f].facets \ finder[f].cut : finder[f].total = SumOf(finder[f].facets[a])
                /\ \/ "page" \in finder[f].cut
                   \/ Cardinality(finder[f].hits) = Max({0, Min({r.limit, finder[f].total - r.offset})})
                /\ InTables(r) => \A h \in finder[f].hits :
                      Cardinality({i \in MatchingRows(r, TableOf(r)) : i > h[1]}) >= r.offset

\* Once its index job is completed every issue of a scan has a document, as the issue once
\* was, whatever errors and retries came before.
IndexedIsFound ==
    /\ \A i \in DOMAIN documents : <<i, documents[i]>> \in everStored
    /\ backend = "zincsearch" =>
          \A i \in DOMAIN stored : analysed[stored[i].scan].job = "completed" => i \in DOMAIN documents

\* The fields of a project are those of the last request that named them, and a deleted
\* project is gone, unless an update was overtaken by another write after it read the project.
EditsAreKept ==
    \A k \in ProjectKeys \ contested :
        /\ (IdsOf(k) # {}) = asked[k].there
        /\ \A p \in IdsOf(k) : listed[p].name = asked[k].name /\ listed[p].branch = asked[k].branch

\* What the endpoints of projects and of the search show.
CatalogueIsTrue == SearchTypeOK /\ HitsAreRows /\ AnswersAddUp /\ IndexedIsFound /\ EditsAreKept
=============================================================================
