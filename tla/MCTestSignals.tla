--------------------------- MODULE MCTestSignals ---------------------------
(* Projects for TestSignals: three roots, of which one or two are configured *)
(* and the others discovered, with overlapping and stale reports.            *)
EXTENDS TestSignals

Path(file) == [via |-> "relative", inside |-> TRUE, exists |-> TRUE, direct |-> FALSE, matches |-> 0, file |-> file]
Foreign(file, n) == [Path(file) EXCEPT !.via = "absolute", !.inside = FALSE, !.matches = n]
Hit(path, lines) == [path |-> path, lines |-> lines, hit |-> TRUE]
Missed(path, lines) == [path |-> path, lines |-> lines, hit |-> FALSE]

File(format) ==
    [format |-> format, stale |-> FALSE, large |-> FALSE, inside |-> TRUE, hits |-> {}, suites |-> <<>>,
     mutants |-> <<>>, score |-> Unset, summary |-> EmptyMutation("", ""), coverage |-> NoCoverage,
     files |-> <<>>, mutation |-> NoMutation]
Old(f) == [f EXCEPT !.stale = TRUE]

UnitCover == [File("gocover") EXCEPT !.hits = {Hit(Path("a"), {1, 2}), Missed(Path("a"), {3}),
                                               Missed(Path("b"), {1})}]
ItCover == [File("lcov") EXCEPT !.hits = {Hit(Foreign("a", 1), {3}), Missed(Path("a"), {2}),
                                          Hit(Foreign("b", 2), {1})}]

Case(key, status) == [key |-> key, status |-> status]
Suite(name, cases, failures, skipped, kind) ==
    [name |-> name, cases |-> cases, tests |-> Len(cases), failures |-> failures, errors |-> 0,
     skipped |-> skipped, kind |-> kind]
Unit == [File("junit") EXCEPT !.suites = <<Suite("S", <<Case(1, "passed"), Case(2, "failed")>>, 1, 0, "unknown")>>]
Again == [File("junit") EXCEPT !.suites = <<Suite("S", <<Case(1, "passed")>>, 0, 0, "unknown")>>]
Partly == [File("junit") EXCEPT !.suites = <<Suite("S", <<Case(2, "passed"), Case(3, "skipped")>>, 0, 1, "unknown")>>]
Native == [File("native") EXCEPT !.suites = <<Suite("I", <<Case(4, "passed")>>, 0, 0, "integration")>>,
                                 !.coverage = [NoCoverage EXCEPT !.lines = 4, !.covered = 3, !.newLines = 2,
                                                 !.newCovered = 1, !.percent = 75, !.newPercent = 50]]

Thin == [File("native") EXCEPT !.coverage = [Native.coverage EXCEPT !.covered = 2, !.percent = 50]]
JaCoCo == File("other")

Mutant(id, status) == [id |-> id, status |-> status]
Stryker == [File("stryker") EXCEPT !.mutants = <<Mutant(1, "killed"), Mutant(2, "survived"), Mutant(1, "killed")>>]
Pit == [File("pit") EXCEPT !.mutants = <<Mutant(2, "no-coverage"), Mutant(3, "timeout"), Mutant(4, "killed")>>]
NativeMutation == [File("native_mutation") EXCEPT !.summary =
    [EmptyMutation("", "") EXCEPT !.total = 2, !.testable = 2, !.killed = 1, !.survived = 1,
                                  !.changedKilled = 1, !.changedSurvived = 1]]

PassOptions(enabled, mode, policy, failOnTimeout, discover) ==
    [enabled |-> enabled, mode |-> mode, run |-> FALSE, policy |-> policy, failOnTimeout |-> failOnTimeout,
     discover |-> discover, maxCandidates |-> 2, external |-> FALSE]
Off == PassOptions(FALSE, "collect", "explicit", FALSE, TRUE)

Node(role, marker, workspace, hidden) ==
    [role |-> role, language |-> "go", marker |-> marker, hidden |-> hidden, workspace |-> workspace,
     nativeMutation |-> FALSE, tool |-> "none", defaults |-> <<>>, fallback |-> <<>>,
     mutationDefaults |-> <<>>, mutationFallback |-> <<>>]
Tree == [domain |-> [Node("domain", TRUE, FALSE, FALSE) EXCEPT !.tool = "stryker", !.defaults = <<UnitCover, Unit>>,
                                                              !.mutationDefaults = <<Stryker>>],
         adapter |-> [Node("adapter", TRUE, TRUE, FALSE) EXCEPT !.nativeMutation = TRUE,
                                                               !.fallback = <<Native, Old(Again)>>,
                                                               !.mutationFallback = <<NativeMutation, Pit>>],
         vendor |-> Node("unknown", TRUE, FALSE, TRUE)]

TestModule(root, policy, command, coverage, junit, native) ==
    [root |-> root, policy |-> policy, role |-> root, command |-> command, suiteKind |-> "unit", external |-> FALSE,
     coverageThreshold |-> 60, newCoverageThreshold |-> 80, mutationThreshold |-> Unset, integration |-> FALSE,
     coverageReports |-> coverage, testReports |-> junit, mutationReports |-> <<>>, nativeReports |-> native]
MutationModule(root, policy, command, reports, onTimeout) ==
    [root |-> root, policy |-> policy, role |-> root, command |-> command, external |-> FALSE, threshold |-> 60,
     changedThreshold |-> 80, tool |-> "pit", failOnTimeout |-> onTimeout, reportPaths |-> reports, nativePaths |-> <<NativeMutation>>]

TestModules ==
    {<<>>,
     <<TestModule("domain", "required", TRUE, <<UnitCover, Old(ItCover)>>, <<Unit, Again>>, <<>>)>>,
     <<[TestModule("domain", "required", TRUE, <<Old(JaCoCo)>>, <<Unit>>, <<Thin>>) EXCEPT !.integration = TRUE]>>,
     <<TestModule("domain", "required", FALSE, <<ItCover, UnitCover>>, <<Unit, Partly>>, <<Native>>),
       TestModule("adapter", "ignored", TRUE, <<>>, <<Again>>, <<>>)>>}
MutationModules ==
    {<<>>,
     <<MutationModule("domain", "required", TRUE, <<Stryker, Old(Pit)>>, "yes"),
       MutationModule("adapter", "disabled", TRUE, <<Pit>>, "inherit")>>}

MCProjects ==
    {[roots |-> {"domain", "adapter", "vendor"}, tests |-> t, mutations |-> m, testModules |-> tm,
      mutationModules |-> mm, tree |-> Tree] :
        t \in {Off, PassOptions(TRUE, "collect", "explicit", FALSE, TRUE), PassOptions(TRUE, "run", "explicit", TRUE, FALSE),
               PassOptions(TRUE, "run", "discovered", FALSE, TRUE), PassOptions(TRUE, "doctor", "trusted_shell", FALSE, TRUE),
               PassOptions(TRUE, "run", "never", FALSE, TRUE), PassOptions(TRUE, "watch", "never", FALSE, TRUE)},
        m \in {Off, PassOptions(TRUE, "run", "explicit", FALSE, TRUE), PassOptions(TRUE, "run", "discovered", FALSE, FALSE),
               PassOptions(TRUE, "collect", "", TRUE, TRUE)},
        tm \in TestModules, mm \in MutationModules}
=============================================================================
