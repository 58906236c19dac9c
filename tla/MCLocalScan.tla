---------------------------- MODULE MCLocalScan ----------------------------
(* The work on one project: a run of the scanner, its test and mutation       *)
(* passes, the local user interface that a run serves, and what users then do *)
(* with the issues and read of them, and the accounts they do it with, and    *)
(* the projects and the search. Each behaviour exercises one of these, with   *)
(* the setups of MCTestSignals and those below.                               *)
EXTENDS MCTestSignals, Scanner, LocalFixes, IssueTriage, Access, ProjectSearch

Rule(key, language) == [key |-> key, language |-> language]
Source(name, language, bytes, lines, finds) ==
    [name |-> name, under |-> {"root"}, dirs |-> {}, language |-> language, lines |-> lines, bytes |-> bytes,
     readable |-> TRUE, finds |-> finds, panics |-> {}]
MainGo == [Source("main.go", "go", 3, <<"slashes", "code", "blank">>, [todo |-> 1, size |-> 2, team |-> 1]) EXCEPT
              !.under = {"root", "src"}]
SourceTree == <<MainGo, [Source("app.py", "py", 2, <<"open", "code", "close", "whole", "code">>, [todo |-> 1, lint |-> 1]) EXCEPT
                      !.panics = {"lint"}],
          Source("empty.go", "go", 0, <<>>, [todo |-> 1]),
          [Source("lib.go", "go", 1, <<"code">>, [todo |-> 1]) EXCEPT !.dirs = {"vendor"}],
          Source("notes.txt", "", 1, <<"code">>, [todo |-> 1])>>
SmallTree == <<[MainGo EXCEPT !.readable = FALSE], [MainGo EXCEPT !.name = "gen.go"], [MainGo EXCEPT !.name = "one.go"]>>

GitLab == [prKey |-> "7", prBranch |-> "fix", prBase |-> "main"]
NoKey == [prKey |-> "", prBranch |-> "fix", prBase |-> "main"]
Nothing == [prKey |-> "", prBranch |-> "", prBase |-> ""]
Repository(branch) == [inside |-> TRUE, commit |-> TRUE, branch |-> branch]
NoRepository == [inside |-> FALSE, commit |-> FALSE, branch |-> ""]

Base == [flags |-> [key |-> "p"], config |-> <<>>, global |-> <<>>, env |-> <<Nothing>>, git |-> Repository("main"),
         bundled |-> <<Rule("todo", "*"), Rule("size", "go"), Rule("lint", "py")>>,
         catalog |-> <<Rule("team", "go")>>, packs |-> <<>>, tree |-> SmallTree,
         localReadable |-> TRUE, localProfile |-> [py |-> [todo |-> "minor"]],
         serverProfile |-> [go |-> [todo |-> "info", size |-> "off", team |-> "major", gone |-> "major"]],
         evidenceFails |-> FALSE]
Pack(valid, rules) == [valid |-> valid, rules |-> rules]
Pushed == [server |-> "s", wait |-> TRUE, roots |-> <<"root", "src">>]

MCSetups ==
    {[Base EXCEPT !.flags = f, !.env = e, !.tree = SourceTree] :
        f \in {Pushed, [server |-> "s", format |-> "json"], [profile |-> "file", exclusions |-> {"app.py"}],
               [source |-> "local", strict |-> TRUE, prBase |-> "dev"]},
        e \in {<<Nothing, GitLab>>, <<NoKey, GitLab>>, <<Nothing>>}}
    \cup {[Base EXCEPT !.packs = p] : p \in {<<Pack(TRUE, <<Rule("team", "go")>>)>>, <<Pack(TRUE, <<Rule("todo", "go")>>)>>,
                                             <<Pack(FALSE, <<>>)>>}}
    \cup {[Base EXCEPT !.git = g, !.flags = f] : g \in {NoRepository, Repository(""), [Repository("main") EXCEPT !.commit = FALSE]},
                                                 f \in {[dir |-> "d"], [branch |-> "b"]}}
    \cup {[Base EXCEPT !.flags = f, !.config = c, !.global = [server |-> "s", format |-> "json"]] :
             f \in {[mutants |-> 5], [source |-> "server", strict |-> TRUE, timeout |-> FALSE, wait |-> TRUE],
                    [format |-> "xml"], [skip |-> TRUE], [server |-> "", serve |-> TRUE], [source |-> "remote"]},
             c \in {<<>>, [mutants |-> 9, mode |-> "run", format |-> "xml"]}}
    \cup {[Base EXCEPT !.localReadable = FALSE, !.flags = f] :
             f \in {[source |-> "local"], [source |-> "local", strict |-> TRUE], [source |-> "server"]}}
    \cup {[Base EXCEPT !.evidenceFails = TRUE]}

AgentOf(id, provider, key) == [id |-> id, provider |-> provider, model |-> "m", key |-> key]
MCAgents == {AgentOf("mock", "mock", FALSE), AgentOf("openai", "openai", FALSE)}
MCOptions == {[provider |-> "openai", model |-> "m", key |-> TRUE]}
Finding(path, line, last) == [path |-> path, line |-> line, last |-> last]
MCIssues == {Finding("f", 1, 0), Finding("f", 2, 3), Finding("g", 1, 1)}
MCContents == {<<1, 2>>, <<3, 1, 2>>}
MCReplacements == {<<>>, <<1, 5>>}

Found(key, type, severity, tags, file, ext) ==
    [key |-> key, rule |-> "r", type |-> type, severity |-> severity, tags |-> tags, file |-> file, ext |-> ext]
Todo == Found("todo", "code_smell", "minor", {"readability"}, <<"src", "a.go">>, ".go")
Flaky == Found("flaky", "bug", "info", {"flaky-test"}, <<"b.tsx">>, ".tsx")
Leak == Found("leak", "security_hotspot", "major", {"owasp-a1", "auth"}, <<"src", "db", "c.py">>, ".py")
Arriving(type, name, date, gate, found) == [type |-> type, name |-> name, date |-> date, gate |-> gate, issues |-> found]
First == Arriving("branch", "", 1, "OK", <<Todo, Todo>>)
Second == Arriving("branch", "main", 2, "ERROR", <<Leak, Flaky>>)
Third == Arriving("branch", "main", 3, "OK", <<Todo, Leak>>)
Request == Arriving("pull_request", "7", 2, "OK", <<Todo>>)
MCArrivals == {<<Second, Third>>, <<First, Second, Third>>, <<Second, Request, First>>}

Condition(metric, op, threshold, newCode) == [metric |-> metric, op |-> op, threshold |-> threshold, newCode |-> newCode]
MCConditions == {<<>>, <<Condition("bugs", "GT", 0, FALSE), Condition("new_issues", "GTE", 2, TRUE)>>}

Reported(rule, severity) == [rule |-> rule, severity |-> severity]
MCAnalyses == {<<>>, <<Reported("todo", "minor"), Reported("leak", "major")>>}
Wanted(index, text, filter, limit, offset) ==
    [index |-> index, text |-> text, filter |-> filter, limit |-> limit, offset |-> offset]
MCRequests == {Wanted("issues", "", <<>>, 2, 0), Wanted("issues", "todo", [severity |-> "minor"], 1, 0),
               Wanted("issues", "", [status |-> "open"], 1, 1), Wanted("listing", "", <<>>, 1, 0),
               Wanted("projects", "x", <<>>, 1, 0), Wanted("projects", "", [severity |-> "major"], 2, 0)}

VARIABLE area \* the part that moves

IdleSetup == CHOOSE s \in MCSetups : "timeout" \in DOMAIN s.flags

LocalInit ==
    /\ area \in {"scan", "tests", "fixes", "backfill", "reading", "sessions", "groups", "projects", "search"}
    /\ Init /\ ScannerInit /\ FixInit /\ TriageInit /\ AccessInit /\ SearchInit
    /\ area # "scan" => setup = IdleSetup
    /\ area # "fixes" => disk = [p \in Paths |-> CHOOSE c \in Contents : TRUE]
    /\ (area = "groups") = (DOMAIN accounts = Users)
    /\ area # "search" => backend = "postgres"
    /\ area # "reading" => mainBranch = "main" /\ arriving = <<Second, Third>>

\* Scans without tracking states belong to the backfill, readers to the rest.
AllLegacy == \A s \in ScanIds : scans[s].legacy
NoneLegacy == \A s \in ScanIds : ~scans[s].legacy

\* Accounts, sessions and tokens, with one administrator at a time at work; and groups and
\* grants, once both have signed in.
Administrator == CHOOSE c \in Callers : TRUE
Asks(permissions) == \A c \in Callers : call[c].permission \in permissions \cup {""}
Sessions ==
    \/ Tick
    \/ \E c \in Callers : (c # Administrator /\ SigningIn(c)) \/ Entering(c) \/ OwnAffairs(c)
    \/ ManagingUsers(Administrator)
Groups ==
    \/ now = 0 /\ Cardinality(bearers) < Cardinality(Users) /\ SigningIn(Administrator)
    \/ \E c \in Callers : Entering(c)
    \/ ManagingGroups(Administrator)

\* Projects, written by users and ingests; and the list of them, and searches in their issues.
OneKey == CHOOSE k \in ProjectKeys : TRUE
OneName == CHOOSE n \in Names : TRUE
Cataloguing ==
    \/ Editing
    \/ \E n \in Names : IngestScan(OneKey, n, <<>>)
\* One search is enough: the answer says nothing of what comes after it. PostgreSQL is searched without
\* the documents, so they are written only for the other backend.
LookingUp ==
    /\ \A f \in Finders : finder[f].pc \notin {"answered", "failed"}
    /\ backend = "postgres" => UNCHANGED indexing
    /\ \/ Analysing
       \/ Answering
       \/ \E f \in Finders, r \in Requests : BeginSearch(f, r)
OneProject == writes < MaxWrites /\ \A p \in DOMAIN listed : listed[p].key = OneKey /\ listed[p].name = OneName

LocalNext ==
    /\ UNCHANGED area
    /\ \/ area = "scan" /\ ScannerNext /\ UNCHANGED <<signalVars, fixVars, triageVars, accessVars, searchVars>>
       \/ area = "tests" /\ Next /\ UNCHANGED <<scannerVars, fixVars, triageVars, accessVars, searchVars>>
       \/ area = "fixes" /\ FixNext /\ UNCHANGED <<signalVars, scannerVars, triageVars, accessVars, searchVars>>
       \/ area = "backfill" /\ UNCHANGED reader /\ TriageNext /\ AllLegacy' /\ UNCHANGED <<signalVars, scannerVars, fixVars, accessVars, searchVars>>
       \/ area = "reading" /\ UNCHANGED backfill /\ TriageNext /\ NoneLegacy' /\ UNCHANGED <<signalVars, scannerVars, fixVars, accessVars, searchVars>>
       \/ area = "sessions" /\ Sessions /\ Asks({"manage_users"})' /\ UNCHANGED <<signalVars, scannerVars, fixVars, triageVars, searchVars>>
       \/ area = "groups" /\ Groups /\ Asks({"admin", "manage_groups"})' /\ UNCHANGED <<signalVars, scannerVars, fixVars, triageVars, searchVars>>
       \/ area = "projects" /\ Cataloguing /\ UNCHANGED <<signalVars, scannerVars, fixVars, triageVars, accessVars>>
       \/ area = "search" /\ LookingUp /\ OneProject' /\ UNCHANGED <<signalVars, scannerVars, fixVars, triageVars, accessVars>>

LocalSpec ==
    /\ LocalInit
    /\ [][LocalNext]_<<area, signalVars, scannerVars, fixVars, triageVars, accessVars, searchVars>>
    /\ ScannerFairness
=============================================================================
