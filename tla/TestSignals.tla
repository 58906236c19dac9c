---------------------------- MODULE TestSignals ----------------------------
(***************************************************************************)
(* The test and mutation evidence of a scan: the modules of a project, the *)
(* reports found for each, their merge into one signal per module, and the *)
(* health computed from them.  A command may be run for a module before    *)
(* its reports are collected; it may succeed, fail or time out, and it may *)
(* or may not have rewritten the reports.                                  *)
(*                                                                         *)
(* Source: application/scan/testsignals*.go, mutations*.go.  A report file *)
(* is a record of what its parser finds in it; diagnostics are left out.   *)
(* Percentages are rounded down, which is exact when they are compared     *)
(* with the whole-numbered thresholds below.                               *)
(***************************************************************************)
EXTENDS Integers, Sequences, FiniteSets, SequencesExt, FiniteSetsExt

CONSTANT Projects \* the projects, with their configuration, that are scanned

VARIABLES
    project,   \* the project under scan; NoProject before
    stage,     \* where the scan is
    rewritten, \* roots of modules whose commands have rewritten their reports
    executed,  \* the commands that were run: <<root, source, "tests" or "mutations">>
    tests,     \* modules collected by the test pass
    mutations, \* modules collected by the mutation pass
    report,    \* [modules, summary, health] of the scan so far
    measures   \* what the scan has published; NoMeasures before

signalVars == <<project, stage, rewritten, executed, tests, mutations, report, measures>>

NoProject == [roots |-> {}]
Unset == -1 \* a threshold, a score or a percentage that is not there
Percent(part, whole) == IF whole > 0 THEN (part * 100) \div whole ELSE Unset
Total(f(_), s) == FoldLeft(LAMBDA sum, x : sum + f(x), 0, s)

-----------------------------------------------------------------------------
(* Options                                                                 *)

\* applyTestDefaults, applyMutationDefaults: mode "run" is enough to run commands.
Runs(opts) == (opts.run \/ opts.mode = "run") /\ opts.mode # "doctor"

\* ValidateTestOptions: an unknown mode or policy fails the scan.
TestOptionsValid(opts) ==
    /\ opts.mode \in {"collect", "run", "doctor"}
    /\ opts.policy \in {"explicit", "never", "configured_only", "discovered", "trusted_shell"}

\* ValidateMutationOptions: the same for the mutation pass.
MutationOptionsValid(opts) ==
    /\ opts.mode \in {"collect", "run", "doctor"}
    /\ opts.policy \in {"explicit", "never", "configured_only", "discovered", "trusted_shell"}

\* commandAllowed: a discovered command needs the two widest policies.
CommandAllowed(policy, source) ==
    \/ policy \in {"discovered", "trusted_shell"}
    \/ policy \in {"explicit", "configured_only"} /\ source = "configured"

\* effectiveMutationOptions: what a module's entry overrides.
EffectiveMutationOptions(opts, cfg) ==
    [opts EXCEPT !.failOnTimeout = IF cfg.failOnTimeout = "inherit" THEN @ ELSE cfg.failOnTimeout = "yes",
                 !.external = @ \/ cfg.external]

-----------------------------------------------------------------------------
(* Modules                                                                 *)

NoMutation == [present |-> FALSE]
NoHealth == [status |-> "", score |-> 0, partial |-> FALSE]
NoCoverage == [lines |-> 0, covered |-> 0, newLines |-> 0, newCovered |-> 0,
               percent |-> Unset, newPercent |-> Unset]

TestModuleSignal(root, source, policy, role) ==
    [root |-> root, source |-> source, policy |-> policy, role |-> role, command |-> FALSE,
     suiteKind |-> "unknown", external |-> FALSE, reports |-> <<>>, files |-> <<>>,
     coverage |-> NoCoverage, suites |-> <<>>, mutation |-> NoMutation, health |-> NoHealth,
     coverageThreshold |-> Unset, newCoverageThreshold |-> Unset, mutationThreshold |-> Unset,
     changedThreshold |-> Unset, integration |-> FALSE, rewritten |-> FALSE]

\* moduleFromConfig: a configured module; an empty test_policy means required.
ModuleFromConfig(cfg) ==
    [TestModuleSignal(cfg.root, "configured", cfg.policy, cfg.role) EXCEPT
        !.command = cfg.command, !.suiteKind = cfg.suiteKind, !.external = cfg.external,
        !.coverageThreshold = cfg.coverageThreshold, !.mutationThreshold = cfg.mutationThreshold,
        !.newCoverageThreshold = cfg.newCoverageThreshold, !.integration = cfg.integration]

\* moduleFromRoot: a discovered module is required; its language may suggest a command.
ModuleFromRoot(root, p) ==
    [TestModuleSignal(root, "discovered", "required", p.tree[root].role) EXCEPT
        !.command = p.tree[root].language # "unknown"]

\* The mutation summary of a module nothing has been collected for.
EmptyMutation(tool, availability) ==
    [present |-> TRUE, tool |-> tool, availability |-> availability, stale |-> FALSE,
     reports |-> 0, score |-> Unset, changedScore |-> Unset, total |-> 0, testable |-> 0,
     killed |-> 0, survived |-> 0, timeout |-> 0, changedTestable |-> 0,
     changedKilled |-> 0, changedSurvived |-> 0, survivors |-> <<>>]

\* moduleFromMutationConfig: ignored and disabled entries become ignored modules.
ModuleFromMutationConfig(cfg) ==
    [TestModuleSignal(cfg.root, "configured",
                      IF cfg.policy \in {"ignored", "disabled"} THEN "ignored" ELSE cfg.policy,
                      cfg.role) EXCEPT
        !.command = cfg.command, !.external = cfg.external,
        !.mutationThreshold = cfg.threshold, !.changedThreshold = cfg.changedThreshold,
        !.mutation = EmptyMutation(cfg.tool, "unavailable")]

-----------------------------------------------------------------------------
(* Discovery                                                               *)

\* handleMarkerDir, handleMarkerFile: a marker counts unless its directory is
\* excluded or too deep.
MarkerRoots(p) == {r \in p.roots : p.tree[r].marker /\ ~p.tree[r].hidden}

\* DiscoverTestModules: workspace manifests first, markers after them; a root once.
DiscoverTestModules(p) ==
    SetToSeq({ModuleFromRoot(r, p) :
                r \in {q \in p.roots : p.tree[q].workspace} \cup MarkerRoots(p)})

\* detectMutationTool: a native report comes before any tool's configuration.
DetectMutationTool(t) ==
    IF t.nativeMutation THEN "native" ELSE t.tool

\* DiscoverMutationModules: the modules for which a tool is found.
DiscoverMutationModules(p) ==
    LET withTool == SelectSeq(DiscoverTestModules(p),
                              LAMBDA m : DetectMutationTool(p.tree[m.root]) # "none")
    IN  [i \in DOMAIN withTool |->
            LET tool == DetectMutationTool(p.tree[withTool[i].root])
            IN  [withTool[i] EXCEPT !.command = tool # "native",
                                    !.mutation = EmptyMutation(tool, "")]]

-----------------------------------------------------------------------------
(* Collecting report files                                                 *)

\* resolveModulePath: a path outside the project needs a permission.
Reachable(f, m, opts) == f.inside \/ opts.external \/ m.external

Stale(f, m) == f.stale /\ ~m.rewritten

\* collectReportList of the test collector: existing files, small enough, up to the limit.
CollectReportList(m, kind, files, opts) ==
    FoldLeft(LAMBDA found, f :
                IF Len(found) < opts.maxCandidates /\ Reachable(f, m, opts) /\ ~f.large
                THEN Append(found, [file |-> f, kind |-> kind, stale |-> Stale(f, m)])
                ELSE found,
             <<>>, files)

\* collectReportList of the mutation collector: once a native file is met, its
\* kind sticks to the files after it.
CollectMutationReportList(m, kind, files, opts) ==
    FoldLeft(LAMBDA acc, f :
                IF Len(acc.found) < opts.maxCandidates /\ Reachable(f, m, opts) /\ ~f.large
                THEN LET k == IF f.format = "native_mutation" THEN "native_mutation" ELSE acc.kind
                     IN  [kind |-> k,
                          found |-> Append(acc.found, [file |-> f, kind |-> k, stale |-> Stale(f, m)])]
                ELSE acc,
             [kind |-> kind, found |-> <<>>], files).found

\* boundedFallbackReports: known names of a bearable size, the kind told by the name.
BoundedFallbackReports(m, files, opts) ==
    LET candidates == SelectSeq(files, LAMBDA f : ~f.large)
        chosen == SubSeq(candidates, 1, Min({Len(candidates), opts.maxCandidates}))
        KindForPath(f) == CASE f.format \in {"gocover", "lcov", "cobertura"} -> "coverage"
                            [] f.format = "native" -> "native"
                            [] OTHER -> "test"
    IN  [i \in DOMAIN chosen |->
            [file |-> chosen[i], kind |-> KindForPath(chosen[i]), stale |-> Stale(chosen[i], m)]]

CollectConfiguredReports(m, cfg, opts) ==
    CollectReportList(m, "coverage", cfg.coverageReports, opts)
        \o CollectReportList(m, "test", cfg.testReports, opts)
        \o CollectReportList(m, "mutation", cfg.mutationReports, opts)
        \o CollectReportList(m, "native", cfg.nativeReports, opts)

\* collectDefaultReports: the usual paths, else a bounded search.
CollectDefaultReports(m, p) ==
    LET usual == CollectReportList(m, "candidate", p.tree[m.root].defaults, p.tests)
    IN  IF usual # <<>> THEN usual
        ELSE BoundedFallbackReports(m, p.tree[m.root].fallback, p.tests)

CollectConfiguredMutationReports(m, cfg, opts) ==
    CollectMutationReportList(m, "mutation", cfg.reportPaths, opts)
        \o CollectMutationReportList(m, "native_mutation", cfg.nativePaths, opts)

\* collectDefaultMutationReports; the search of boundedFallbackMutationReports
\* ends in the same list.
CollectDefaultMutationReports(m, p) ==
    LET usual == CollectMutationReportList(m, "mutation", p.tree[m.root].mutationDefaults, p.mutations)
    IN  IF usual # <<>> THEN usual
        ELSE CollectMutationReportList(m, "mutation", p.tree[m.root].mutationFallback, p.mutations)

-----------------------------------------------------------------------------
(* Reading report files                                                    *)

\* suffixMatchPath: exactly one project file must match.
SuffixMatchPath(path) == IF path.matches = 1 THEN {path.file} ELSE {}

\* normalizeReportPath: the project file a path of a report means, if any.
NormalizeReportPath(path, m, opts) ==
    CASE path.via = "mapping" -> IF path.inside THEN {path.file} ELSE {}
      [] path.via = "absolute" -> IF path.inside \/ opts.external \/ m.external
                                  THEN {path.file} ELSE SuffixMatchPath(path)
      [] path.via = "relative" -> IF ~path.inside THEN {}
                                  ELSE IF path.exists \/ path.direct THEN {path.file}
                                  ELSE SuffixMatchPath(path)

\* mergeGoCoverReport, mergeLCOVReport, mergeCoberturaLikeReport: the lines a
\* report has hit, and those it has not, of the files it can be mapped to.
HitLines(hits, file, m, opts, hit) ==
    UNION {h.lines : h \in {x \in hits : x.hit = hit /\ file \in NormalizeReportPath(x.path, m, opts)}}

\* appendCoverageFiles: one entry per file; a line that is hit is not uncovered.
AppendCoverageFiles(m, hits, opts) ==
    LET files == UNION {NormalizeReportPath(h.path, m, opts) : h \in hits}
        Entry(file) == LET covered == HitLines(hits, file, m, opts, TRUE)
                       IN  [path |-> file, covered |-> covered,
                            uncovered |-> HitLines(hits, file, m, opts, FALSE) \ covered,
                            count |-> Cardinality(covered)]
    IN  [m EXCEPT !.files = @ \o SetToSeq({Entry(file) : file \in files})]

\* mergeCoverageReport: the formats it knows; JUnit files are not among them.
MergeCoverageReport(m, f, opts) ==
    IF f.format \in {"gocover", "lcov", "cobertura"} THEN AppendCoverageFiles(m, f.hits, opts) ELSE m

\* junitSuite.toSignal: the attributes of the suite, its cases if they say nothing.
ToSignal(s) ==
    [name |-> s.name, cases |-> s.cases,
     tests |-> IF s.tests = 0 THEN Len(s.cases) ELSE s.tests,
     failures |-> s.failures, errors |-> s.errors, skipped |-> s.skipped,
     kind |-> s.kind]

MergeJUnitReport(m, f) ==
    IF f.format = "junit" THEN [m EXCEPT !.suites = @ \o [i \in DOMAIN f.suites |-> ToSignal(f.suites[i])]]
    ELSE m

\* mergeNativeReport: coverage and mutation replace, files and suites add.
MergeNativeReport(m, f) ==
    IF f.format # "native" THEN m
    ELSE [m EXCEPT !.coverage = IF f.coverage.percent # Unset THEN f.coverage ELSE @,
                   !.files = @ \o f.files,
                   !.suites = @ \o f.suites,
                   !.mutation = IF f.mutation.present THEN f.mutation ELSE @]

\* mergeMutationSummary: counters add up, a stated score replaces, surviving
\* mutants are listed once.
MergeMutationSummary(m, next) ==
    LET current == IF m.mutation.present THEN m.mutation ELSE EmptyMutation("", "")
        listed == {current.survivors[i] : i \in DOMAIN current.survivors}
    IN  [m EXCEPT !.mutation =
            [current EXCEPT
                !.score = IF next.score # Unset THEN next.score ELSE @,
                !.changedScore = IF next.changedScore # Unset THEN next.changedScore ELSE @,
                !.total = @ + next.total, !.testable = @ + next.testable,
                !.killed = @ + next.killed, !.survived = @ + next.survived,
                !.timeout = @ + next.timeout,
                !.changedTestable = @ + next.changedTestable,
                !.changedKilled = @ + next.changedKilled,
                !.changedSurvived = @ + next.changedSurvived,
                !.survivors = @ \o SelectSeq(next.survivors, LAMBDA id : id \notin listed)]]

\* addMutationStatus: an uncovered mutant has survived; a timeout is not testable.
AddMutationStatus(sum, mutant) ==
    [sum EXCEPT !.total = @ + 1,
                !.killed = @ + (IF mutant.status = "killed" THEN 1 ELSE 0),
                !.survived = @ + (IF mutant.status \in {"survived", "no-coverage"} THEN 1 ELSE 0),
                !.testable = @ + (IF mutant.status \in {"killed", "survived", "no-coverage"} THEN 1 ELSE 0),
                !.timeout = @ + (IF mutant.status = "timeout" THEN 1 ELSE 0),
                !.survivors = IF mutant.status \in {"survived", "no-coverage"}
                              THEN Append(@, mutant.id) ELSE @]

\* parseStrykerMutationJSON, parsePITMutationXML: a mutant counts once per report.
ParseMutants(f) ==
    LET Step(acc, mutant) ==
            IF mutant.id \in acc.seen THEN acc
            ELSE [seen |-> acc.seen \cup {mutant.id}, sum |-> AddMutationStatus(acc.sum, mutant)]
        start == [EmptyMutation("", "") EXCEPT !.score = f.score]
    IN  FoldLeft(Step, [seen |-> {}, sum |-> start], f.mutants).sum

MergeMutationReport(m, f) ==
    IF f.format \in {"stryker", "pit"} THEN MergeMutationSummary(m, ParseMutants(f)) ELSE m

\* mergeNativeMutationReport: JSON that is no native summary decodes to an empty one.
MergeNativeMutationReport(m, f) ==
    CASE f.format = "native_mutation" -> MergeMutationSummary(m, f.summary)
      [] f.format = "stryker" -> MergeMutationSummary(m, EmptyMutation("", ""))
      [] OTHER -> m

-----------------------------------------------------------------------------
(* Normalising a module                                                    *)

\* mergeSuites: of two suites or more, a case is kept once; a suite that keeps
\* some of its cases is counted again.
MergeSuites(suites) ==
    LET Keep(acc, case) == IF case.key \in acc.seen THEN acc
                           ELSE [seen |-> acc.seen \cup {case.key}, kept |-> Append(acc.kept, case)]
        Count(cases, status) == Cardinality({i \in DOMAIN cases : cases[i].status = status})
        Recount(s) == [s EXCEPT !.tests = Len(s.cases), !.failures = Count(s.cases, "failed"),
                                !.errors = Count(s.cases, "errored"), !.skipped = Count(s.cases, "skipped")]
        Step(acc, s) == LET unique == FoldLeft(Keep, [seen |-> acc.seen, kept |-> <<>>], s.cases)
                            left == [s EXCEPT !.cases = unique.kept]
                        IN  [seen |-> unique.seen,
                             merged |-> Append(acc.merged, IF left.cases # <<>> THEN Recount(left) ELSE left)]
    IN  IF Len(suites) < 2 THEN suites
        ELSE FoldLeft(Step, [seen |-> {}, merged |-> <<>>], suites).merged

\* classifySuiteKindFromHint: a kind that is known stays; the name and the path
\* of the report are asked otherwise (here: what they say).
ClassifySuiteKind(configured, hint) == IF configured \notin {"", "unknown"} THEN configured ELSE hint

\* classifyModuleSuites: the kind of a suite, else that of the module.
ClassifyModuleSuites(m) ==
    [m EXCEPT !.suites = [i \in DOMAIN @ |->
        [@[i] EXCEPT !.kind = ClassifySuiteKind(IF @ = "" THEN m.suiteKind ELSE @, "unknown")]]]

\* Mutant of MergeCoverageFile: a line missed in one report stays uncovered.
MergeCoverageFileOverlap(old, next) ==
    LET covered == old.covered \cup next.covered
    IN  [path |-> next.path, covered |-> covered, uncovered |-> old.uncovered \cup next.uncovered,
         count |-> IF covered # {} THEN Cardinality(covered) ELSE old.count + next.count]

\* mergeCoverageFile: hit in one report is hit.
MergeCoverageFile(old, next) ==
    LET covered == old.covered \cup next.covered
    IN  [path |-> next.path, covered |-> covered,
         uncovered |-> (old.uncovered \cup next.uncovered) \ covered,
         count |-> IF covered # {} THEN Cardinality(covered) ELSE old.count + next.count]

\* mergeCoverageFiles: one entry per path.
MergeCoverageFiles(files) ==
    LET Of(path) == SelectSeq(files, LAMBDA f : f.path = path)
        Merged(path) == FoldLeft(MergeCoverageFile,
                                 [path |-> path, covered |-> {}, uncovered |-> {}, count |-> 0], Of(path))
    IN  SetToSeq({Merged(f.path) : f \in {files[i] : i \in DOMAIN files}})

\* summarizeModuleSignals: coverage counted from the files replaces a stated one.
SummarizeModuleSignals(m) ==
    LET files == MergeCoverageFiles(m.files)
        covered == Total(LAMBDA f : f.count, files)
        lines == covered + Total(LAMBDA f : Cardinality(f.uncovered), files)
    IN  [m EXCEPT !.files = files,
                  !.coverage = IF lines = 0 THEN @
                               ELSE [NoCoverage EXCEPT !.lines = lines, !.covered = covered,
                                                       !.percent = Percent(covered, lines)]]

\* normalizeModuleSignals: every report read, then suites and coverage summed up.
NormalizeModuleSignals(m, opts) ==
    LET Read(acc, r) ==
            CASE r.kind = "native" -> MergeNativeReport(acc, r.file)
              [] r.kind = "test" -> MergeJUnitReport(acc, r.file)
              [] r.kind = "mutation" -> MergeMutationReport(acc, r.file)
              [] r.kind \in {"coverage", "candidate"} -> MergeCoverageReport(acc, r.file, opts)
        whole == FoldLeft(Read, m, m.reports)
    IN  SummarizeModuleSignals(ClassifyModuleSuites([whole EXCEPT !.suites = MergeSuites(@)]))

\* finalizeMutationSummary: what the reports left open is computed.
FinalizeMutationSummary(mu) ==
    LET testable == IF mu.testable = 0 THEN mu.killed + mu.survived ELSE mu.testable
        changed == IF mu.changedTestable = 0 THEN mu.changedKilled + mu.changedSurvived
                   ELSE mu.changedTestable
    IN  [mu EXCEPT !.testable = testable, !.changedTestable = changed,
                   !.total = IF @ = 0 THEN mu.killed + mu.survived + mu.timeout ELSE @,
                   !.score = IF @ = Unset THEN Percent(mu.killed, testable) ELSE @,
                   !.changedScore = IF @ = Unset THEN Percent(mu.changedKilled, changed) ELSE @,
                   !.availability = IF @ # "" THEN @
                                    ELSE IF testable > 0 \/ mu.total > 0 \/ mu.reports > 0
                                         THEN "available" ELSE "unavailable"]

\* normalizeModuleMutationSignals: the mutation reports of a module, read and summed up.
NormalizeModuleMutationSignals(m) ==
    LET Read(acc, r) ==
            LET noted == [acc EXCEPT !.mutation.stale = @ \/ r.stale, !.mutation.reports = @ + 1]
            IN  IF r.kind = "native_mutation" THEN MergeNativeMutationReport(noted, r.file)
                ELSE MergeMutationReport(noted, r.file)
    IN  [FoldLeft(Read, m, m.reports) EXCEPT !.mutation = FinalizeMutationSummary(@)]

-----------------------------------------------------------------------------
(* Health                                                                  *)

\* defaultRoleExpectations; a role not listed is held to what "unknown" is.
RoleExpectation(role) ==
    LET E(coverage, mutation, integration, weight) ==
            [coverage |-> coverage, mutation |-> mutation, integration |-> integration, weight |-> weight]
    IN  CASE role = "domain" -> E(85, 70, FALSE, 3)
          [] role = "application" -> E(80, 65, FALSE, 2)
          [] role = "adapter" -> E(65, 0, TRUE, 1)
          [] role = "infrastructure" -> E(60, 0, TRUE, 1)
          [] role \in {"frontend", "web"} -> E(70, 0, FALSE, 1)
          [] role = "service" -> E(75, 0, FALSE, 1)
          [] role = "library" -> E(80, 0, FALSE, 1)
          [] OTHER -> E(60, 0, FALSE, 1)

\* A check takes points off and may leave the health partial.
HealthCheck(points, partial) == [points |-> points, partial |-> partial]

HasMutationEvidence(mu) == mu.present /\ (mu.score # Unset \/ mu.changedScore # Unset
                                          \/ mu.testable > 0 \/ mu.total > 0 \/ mu.reports > 0)

CheckSuiteAvailability(m) ==
    CASE m.suites # <<>> -> HealthCheck(0, FALSE)
      [] m.suites = <<>> /\ HasMutationEvidence(m.mutation) -> HealthCheck(0, TRUE)
      [] OTHER -> HealthCheck(10, TRUE)

CheckCoverageHealth(m) ==
    LET threshold == IF m.coverageThreshold # Unset THEN m.coverageThreshold
                     ELSE RoleExpectation(m.role).coverage
    IN  CASE m.coverage.percent = Unset -> HealthCheck(15, TRUE)
          [] m.coverage.percent # Unset /\ m.coverage.percent < threshold -> HealthCheck(25, FALSE)
          [] OTHER -> HealthCheck(0, FALSE)

CheckNewCoverageHealth(m) ==
    IF /\ m.coverage.newPercent # Unset /\ m.newCoverageThreshold # Unset
       /\ m.coverage.newPercent < m.newCoverageThreshold
    THEN HealthCheck(20, FALSE) ELSE HealthCheck(0, FALSE)

CheckFailureHealth(m) ==
    IF Total(LAMBDA s : s.failures + s.errors, m.suites) = 0 THEN HealthCheck(0, FALSE) ELSE HealthCheck(35, FALSE)

CheckIntegrationHealth(m) ==
    IF /\ RoleExpectation(m.role).integration \/ m.integration
       /\ \A i \in DOMAIN m.suites : m.suites[i].kind # "integration"
    THEN HealthCheck(15, FALSE) ELSE HealthCheck(0, FALSE)

\* checkMutationHealth: the changed-code score first, then the overall one.
CheckMutationHealth(m) ==
    LET threshold == IF m.mutationThreshold # Unset THEN m.mutationThreshold
                     ELSE RoleExpectation(m.role).mutation
        mu == m.mutation
        missing == ~mu.present \/ (mu.score = Unset /\ mu.changedScore = Unset)
        changedLow == /\ mu.changedScore # Unset /\ m.changedThreshold # Unset
                      /\ mu.changedScore < m.changedThreshold
    IN  IF threshold <= 0 THEN HealthCheck(0, FALSE)
        ELSE IF missing THEN HealthCheck(5, TRUE)
        ELSE HealthCheck((IF changedLow THEN 20 ELSE 0)
                     + (IF mu.score # Unset /\ mu.score < threshold THEN 15 ELSE 0), mu.stale)

CheckStaleReportHealth(m) ==
    IF \E i \in DOMAIN m.reports : m.reports[i].stale THEN HealthCheck(10, FALSE) ELSE HealthCheck(0, FALSE)

\* evaluateModuleHealth: an ignored module keeps the full score.
EvaluateModuleHealth(m) ==
    LET checks == <<CheckSuiteAvailability(m), CheckCoverageHealth(m), CheckNewCoverageHealth(m),
                    CheckFailureHealth(m), CheckIntegrationHealth(m), CheckMutationHealth(m),
                    CheckStaleReportHealth(m)>>
        score == Max({0, 100 - Total(LAMBDA c : c.points, checks)})
        partial == \E i \in DOMAIN checks : checks[i].partial
    IN  IF m.policy = "ignored" THEN [status |-> "ignored", score |-> 100, partial |-> FALSE]
        ELSE [status |-> IF score < 75 THEN "at_risk" ELSE IF partial THEN "partial" ELSE "healthy",
              score |-> score, partial |-> partial]

NoSummary == [modules |-> 0, configured |-> 0, ignored |-> 0, candidates |-> 0, stale |-> 0,
              tests |-> 0, failures |-> 0, errors |-> 0, skipped |-> 0,
              withCoverage |-> 0, covered |-> 0, lines |-> 0, newCovered |-> 0, newLines |-> 0,
              total |-> 0, killed |-> 0, survived |-> 0, timeout |-> 0,
              changedKilled |-> 0, changedSurvived |-> 0]

\* addModuleMeasures: the counters of a module join those of the summary.
AddModuleMeasures(sum, m) ==
    LET mu == IF m.mutation.present THEN m.mutation ELSE EmptyMutation("", "")
        has == m.coverage.percent # Unset
        If(n) == IF has THEN n ELSE 0
    IN  [sum EXCEPT
            !.tests = @ + Total(LAMBDA s : s.tests, m.suites),
            !.failures = @ + Total(LAMBDA s : s.failures, m.suites),
            !.errors = @ + Total(LAMBDA s : s.errors, m.suites),
            !.skipped = @ + Total(LAMBDA s : s.skipped, m.suites),
            !.withCoverage = @ + If(1), !.covered = @ + If(m.coverage.covered),
            !.lines = @ + If(m.coverage.lines), !.newCovered = @ + If(m.coverage.newCovered),
            !.newLines = @ + If(m.coverage.newLines),
            !.total = @ + mu.total, !.killed = @ + mu.killed, !.survived = @ + mu.survived,
            !.timeout = @ + mu.timeout, !.changedKilled = @ + mu.changedKilled,
            !.changedSurvived = @ + mu.changedSurvived]

\* summarizeTestSignalReport: what the modules of a report are.
SummarizeTestSignalReport(r) ==
    LET Of(P(_)) == Len(SelectSeq(r.modules, P))
    IN  [r EXCEPT !.summary =
            [@ EXCEPT !.modules = Len(r.modules),
                      !.configured = @ + Of(LAMBDA m : m.source = "configured"),
                      !.ignored = @ + Of(LAMBDA m : m.policy = "ignored"),
                      !.candidates = @ + Total(LAMBDA m : Len(m.reports), r.modules),
                      !.stale = @ + Total(LAMBDA m : Len(SelectSeq(m.reports, LAMBDA c : c.stale)),
                                          r.modules)]]

\* evaluateTestHealth: the health of every module, weighted by its role; the
\* measures of every module are added to the summary the report already has.
EvaluateTestHealth(r) ==
    LET modules == [i \in DOMAIN r.modules |->
                       [r.modules[i] EXCEPT !.health = EvaluateModuleHealth(r.modules[i])]]
        Weight(m) == RoleExpectation(m.role).weight
        AtRisk(m) == m.health.status = "at_risk"
        Partial(m) == m.health.partial
        score == IF modules = <<>> THEN 0
                 ELSE Total(LAMBDA m : m.health.score * Weight(m), modules) \div Total(Weight, modules)
        status == CASE modules = <<>> -> "unavailable"
                    [] modules # <<>> /\ SelectSeq(modules, AtRisk) # <<>> -> "at_risk"
                    [] modules # <<>> /\ SelectSeq(modules, AtRisk) = <<>> ->
                           IF SelectSeq(modules, Partial) # <<>> THEN "partial" ELSE "healthy"
    IN  [modules |-> modules, summary |-> FoldLeft(AddModuleMeasures, r.summary, modules),
         health |-> [status |-> status, score |-> score, partial |-> FALSE]]

\* The end of CollectTestSignals and CollectMutationSignals.
ReportOf(modules) ==
    EvaluateTestHealth(SummarizeTestSignalReport(
        [modules |-> modules, summary |-> NoSummary, health |-> NoHealth]))

\* mergeMutationSignals: by root, the mutation evidence joins the module the
\* test pass has; the summary starts again from nothing.
MergeMutationSignals(existing, collected) ==
    LET Join(modules, m) ==
            LET at == {i \in DOMAIN modules : modules[i].root = m.root /\ i <= Len(existing.modules)}
            IN  IF at = {} THEN Append(modules, m)
                ELSE [modules EXCEPT ![Max(at)] = [@ EXCEPT !.mutation = m.mutation,
                                                           !.reports = @ \o m.reports]]
    IN  EvaluateTestHealth(SummarizeTestSignalReport(
            [modules |-> FoldLeft(Join, existing.modules, collected.modules),
             summary |-> NoSummary, health |-> NoHealth]))

\* applyTestSignalMeasures: what the scan publishes of it.
PublishedMeasures(r) ==
    [coverage |-> Percent(r.summary.covered, r.summary.lines), tests |-> r.summary.tests,
     failures |-> r.summary.failures, errors |-> r.summary.errors, skipped |-> r.summary.skipped,
     mutationScore |-> Percent(r.summary.killed, r.summary.killed + r.summary.survived),
     total |-> r.summary.total, killed |-> r.summary.killed, survived |-> r.summary.survived,
     changedScore |-> Percent(r.summary.changedKilled,
                              r.summary.changedKilled + r.summary.changedSurvived)]

-----------------------------------------------------------------------------
(* The scan                                                                *)

NoMeasures == [tests |-> Unset]
NoReport == [modules |-> <<>>, summary |-> NoSummary, health |-> NoHealth]

Init ==
    /\ project = NoProject /\ stage = "idle"
    /\ rewritten = {} /\ executed = {}
    /\ tests = <<>> /\ mutations = <<>> /\ report = NoReport /\ measures = NoMeasures

\* Where a scan goes on once the test pass is over, or is not asked for.
AfterTests(p) ==
    CASE ~p.mutations.enabled -> "publish"
      [] p.mutations.enabled /\ MutationOptionsValid(p.mutations) -> "mutations"
      [] p.mutations.enabled /\ ~MutationOptionsValid(p.mutations) -> "failed"

Begin ==
    /\ stage = "idle"
    /\ \E p \in Projects :
        /\ project' = p
        /\ stage' = IF ~p.tests.enabled THEN AfterTests(p)
                    ELSE IF TestOptionsValid(p.tests) THEN "tests" ELSE "failed"
    /\ UNCHANGED <<rewritten, executed, tests, mutations, report, measures>>

\* executeTestCommand, executeMutationCommand: denied, or run until it exits or
\* times out; what it has written by then stays.
Execute(m, opts, pass) ==
    IF /\ m.command /\ Runs(opts) /\ CommandAllowed(opts.policy, m.source)
    THEN /\ executed' = executed \cup {<<m.root, m.source, pass>>}
         /\ \E outcome \in {"exits", "times out"}, writes \in BOOLEAN :
                /\ rewritten' = IF writes THEN rewritten \cup {m.root} ELSE rewritten
                /\ stage' = IF outcome = "times out" /\ opts.failOnTimeout THEN "failed" ELSE stage
    ELSE UNCHANGED <<executed, rewritten, stage>>

RootsOf(modules) == {modules[i].root : i \in DOMAIN modules}

\* The test reports a configured module has once its command is over, read.
ConfiguredTestModule(cfg, written, opts) ==
    LET m == [ModuleFromConfig(cfg) EXCEPT !.rewritten = cfg.root \in written]
    IN  NormalizeModuleSignals([m EXCEPT !.reports = CollectConfiguredReports(m, cfg, opts)], opts)

CollectConfiguredTestModule ==
    /\ stage = "tests" /\ Len(tests) < Len(project.testModules)
    /\ LET cfg == project.testModules[Len(tests) + 1]
       IN  /\ Execute(ModuleFromConfig(cfg), project.tests, "tests")
           /\ tests' = Append(tests, ConfiguredTestModule(cfg, rewritten', project.tests))
    /\ UNCHANGED <<project, mutations, report, measures>>

\* The discovered modules whose roots are not in the report yet.
Undiscovered(found, modules, discover) ==
    IF discover THEN SelectSeq(found, LAMBDA m : m.root \notin RootsOf(modules)) ELSE <<>>

\* collectDiscoveredTestModule; a root that is configured is skipped.
CollectDiscoveredTestModule ==
    /\ stage = "tests" /\ Len(tests) >= Len(project.testModules)
    /\ LET left == Undiscovered(DiscoverTestModules(project), tests, project.tests.discover)
       IN  /\ left # <<>>
           /\ Execute(Head(left), project.tests, "tests")
           /\ LET m == [Head(left) EXCEPT !.rewritten = @ \/ left[1].root \in rewritten']
              IN  tests' = Append(tests, NormalizeModuleSignals(
                      [m EXCEPT !.reports = CollectDefaultReports(m, project)], project.tests))
    /\ UNCHANGED <<project, mutations, report, measures>>

\* CollectTestSignals returns: the report of the test pass.
FinishTests ==
    /\ stage = "tests" /\ Len(tests) >= Len(project.testModules)
    /\ Undiscovered(DiscoverTestModules(project), tests, project.tests.discover) = <<>>
    /\ report' = ReportOf(tests)
    /\ stage' = AfterTests(project)
    /\ UNCHANGED <<project, rewritten, executed, tests, mutations, measures>>

\* collectConfiguredMutationModule; an ignored module is added as it is.
CollectConfiguredMutationModule ==
    /\ stage = "mutations" /\ Len(mutations) < Len(project.mutationModules)
    /\ LET cfg == project.mutationModules[Len(mutations) + 1]
           opts == EffectiveMutationOptions(project.mutations, cfg)
           m == ModuleFromMutationConfig(cfg)
           Collected(x) == NormalizeModuleMutationSignals(
                               [x EXCEPT !.reports = CollectConfiguredMutationReports(x, cfg, opts)])
       IN  IF cfg.policy \in {"ignored", "disabled"}
           THEN /\ mutations' = Append(mutations, m)
                /\ UNCHANGED <<executed, rewritten, stage>>
           ELSE /\ Execute(m, opts, "mutations")
                /\ mutations' = Append(mutations,
                       Collected([m EXCEPT !.rewritten = cfg.root \in rewritten']))
    /\ UNCHANGED <<project, tests, report, measures>>

\* addDiscoveredMutationModules, one module.
CollectDiscoveredMutationModule ==
    /\ stage = "mutations" /\ Len(mutations) >= Len(project.mutationModules)
    /\ LET left == Undiscovered(DiscoverMutationModules(project), mutations, project.mutations.discover)
       IN  /\ left # <<>>
           /\ Execute(Head(left), project.mutations, "mutations")
           /\ LET m == [Head(left) EXCEPT !.rewritten = @ \/ left[1].root \in rewritten']
              IN  mutations' = Append(mutations, NormalizeModuleMutationSignals(
                      [m EXCEPT !.reports = CollectDefaultMutationReports(m, project)]))
    /\ UNCHANGED <<project, tests, report, measures>>

\* CollectMutationSignals returns, and its report joins that of the test pass.
FinishMutations ==
    /\ stage = "mutations" /\ Len(mutations) >= Len(project.mutationModules)
    /\ Undiscovered(DiscoverMutationModules(project), mutations, project.mutations.discover) = <<>>
    /\ report' = IF project.tests.enabled THEN MergeMutationSignals(report, ReportOf(mutations))
                 ELSE ReportOf(mutations)
    /\ stage' = "publish"
    /\ UNCHANGED <<project, rewritten, executed, tests, mutations, measures>>

\* collectReportTestSignals ends: the measures of the scan are set.
Publish ==
    /\ stage = "publish"
    /\ measures' = IF project.tests.enabled \/ project.mutations.enabled
                   THEN PublishedMeasures(report) ELSE NoMeasures
    /\ stage' = "done"
    /\ UNCHANGED <<project, rewritten, executed, tests, mutations, report>>

Next ==
    \/ Begin
    \/ CollectConfiguredTestModule \/ CollectDiscoveredTestModule \/ FinishTests
    \/ CollectConfiguredMutationModule \/ CollectDiscoveredMutationModule \/ FinishMutations
    \/ Publish

Spec == Init /\ [][Next]_signalVars

-----------------------------------------------------------------------------
(* Properties                                                              *)

\* Every variable keeps to its values, and health never leaves 0..100.
TypeOK ==
    /\ project \in Projects \cup {NoProject}
    /\ stage \in {"idle", "tests", "mutations", "publish", "done", "failed"}
    /\ executed \subseteq (project.roots \X {"configured", "discovered"} \X {"tests", "mutations"})
    /\ RootsOf(tests) \cup RootsOf(mutations) \cup rewritten \subseteq project.roots
    /\ report.health.score \in 0..100
    /\ \A i \in DOMAIN report.modules : report.modules[i].health.score \in 0..100

\* A root that each pass configures at most once has one module in the report,
\* although both passes configure and discover it on their own.
OneModulePerRoot == Cardinality(RootsOf(report.modules)) = Len(report.modules)

\* A line of a project file is covered when some report of the module has hit
\* it, and uncovered when reports mention it and none has hit it: neither the
\* order of the reports nor their overlap matters.
CoverageIsUnion ==
    \A i \in DOMAIN tests :
        LET m == tests[i]
            read == {m.reports[j] : j \in {k \in DOMAIN m.reports :
                        /\ m.reports[k].kind \in {"coverage", "candidate"}
                        /\ m.reports[k].file.format \in {"gocover", "lcov", "cobertura"}}}
            Lines(file, hit) == UNION {HitLines(r.file.hits, file, m, project.tests, hit) : r \in read}
            native == \E j \in DOMAIN m.reports : m.reports[j].kind = "native"
        IN  native \/ \A k \in DOMAIN m.files :
                LET f == m.files[k]
                IN  /\ f.covered = Lines(f.path, TRUE)
                    /\ f.uncovered = Lines(f.path, FALSE) \ Lines(f.path, TRUE)
                    /\ f.count = Cardinality(f.covered)

\* What a scan publishes is the sum over the modules of its report, each counted
\* once, although the health of the modules, which does the adding, is evaluated
\* after the test pass, after the mutation pass and after their merge.
MeasuresAreSums ==
    stage = "done" /\ measures # NoMeasures =>
        LET Suites(f(_)) == Total(LAMBDA m : Total(f, m.suites), report.modules)
            with == SelectSeq(report.modules, LAMBDA m : m.mutation.present)
        IN  /\ measures.tests = Suites(LAMBDA s : s.tests)
            /\ measures.failures + measures.errors = Suites(LAMBDA s : s.failures + s.errors)
            /\ measures.total = Total(LAMBDA m : m.mutation.total, with)
            /\ measures.killed = Total(LAMBDA m : m.mutation.killed, with)
            /\ measures.coverage \in -1..100 /\ measures.mutationScore \in -1..100

\* The evidence of a run adds up, whichever passes produced it: one module for a
\* root, lines counted once over the reports, measures that are sums of modules.
EvidenceAddsUp == TypeOK /\ OneModulePerRoot /\ CoverageIsUnion /\ MeasuresAreSums
=============================================================================
