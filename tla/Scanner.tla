------------------------------ MODULE Scanner ------------------------------
(***************************************************************************)
(* One run of the scanner's command line: it resolves its options, loads   *)
(* the custom rules, settles what it is analysing, discovers the files,    *)
(* chooses the policy, analyses the files in parallel, builds the report,  *)
(* saves it, serves it, pushes it, and waits for the server's verdict.     *)
(*                                                                         *)
(* Source: ollantascanner/cmd/ollanta, ollantascanner/scan and             *)
(* application/scan.  A setup is what the run finds outside: its command   *)
(* line, configuration files, environment, repository, rules and files.    *)
(* The content of a profile is QualityProfiles' matter, and the collection *)
(* of test evidence TestSignals'.                                          *)
(***************************************************************************)
EXTENDS Integers, Sequences, FiniteSets, SequencesExt, FiniteSetsExt

CONSTANTS Setups,        \* the setups that are run
          Slots,         \* Executor.workers
          MaxFileBytes, MaxTotalBytes, \* the bounds of a code snapshot
          ExcludedDirs   \* defaultExcludedDirs

ASSUME ScannerAssumption ==
    /\ Slots \in Nat \ {0}
    /\ MaxFileBytes \in Nat \ {0} /\ MaxTotalBytes \in Nat

VARIABLES
    setup,     \* the setup of the run
    step,      \* what it does next
    analyzers, \* the analyzers in their order, the custom ones last
    scm,       \* the analysis scope
    files,     \* the files discovered
    policy,    \* language -> rule -> severity
    worker,    \* the goroutine of each file: waiting, running, sent, done
    out,       \* the channel of results
    issues,    \* what the collector has appended
    scanned,   \* the report; NotBuilt before
    saved,     \* the formats written to .ollanta
    serverJob, \* the job of the push, on the server
    expired,   \* the deadline of the wait has passed
    exitCode   \* NotExited before

scannerVars == <<setup, step, analyzers, scm, files, policy, worker, out, issues, scanned,
                 saved, serverJob, expired, exitCode>>

NotBuilt == [built |-> FALSE]
NotExited == -1
NotPushed == [status |-> "none", verdict |-> "none"]

-----------------------------------------------------------------------------
(* Options: records that hold the options somebody has given               *)

Defaults == [dir |-> "here", format |-> "all", server |-> "", wait |-> FALSE, timeout |-> TRUE,
             source |-> "auto", profile |-> "", strict |-> FALSE, skip |-> FALSE, serve |-> FALSE,
             branch |-> "", prKey |-> "", prBranch |-> "", prBase |-> "", mutants |-> 0,
             mode |-> "collect", run |-> FALSE, roots |-> <<"root">>, exclusions |-> {}]

\* applyGlobalConfig: three values of the global file, of which the run needs one.
GlobalOptions == {"server"}

\* resolveProjectKey, applyScannerProjectDir: the directory names the project unless
\* a key is given.
ProjectKey(given) == IF "key" \in DOMAIN given THEN given.key ELSE given.dir

\* applyScannerConfig, applyGlobalConfig: the command line, then config.toml, then the
\* global file, then the defaults.
Given(s) == s.flags @@ s.config @@ Restrict(s.global, GlobalOptions \cap DOMAIN s.global) @@ Defaults

\* applyTestsConfig, applyMutationsConfig: a maximum of mutants in config.toml wins over
\* the command line's, and mode "run" runs.
OptionsOf(s) ==
    [key |-> ProjectKey(Given(s))] @@
    [Given(s) EXCEPT !.mutants = IF "mutants" \in DOMAIN s.config THEN s.config.mutants ELSE @,
                     !.run = @ \/ Given(s).mode = "run"]
Options == OptionsOf(setup)

\* ParseFlags, ValidateOptions: only the command line's format is looked at.
OptionsValid ==
    /\ "format" \in DOMAIN setup.flags => setup.flags.format \in {"summary", "json", "sarif", "all"}
    /\ Options.source \in {"auto", "local", "server", "builtin"}
    /\ Options.mode \in {"collect", "run", "doctor"}

-----------------------------------------------------------------------------
(* What a setup is: files have paths of their own, and bundled rules keys  *)

IsList(list) == list \in Seq(ToSet(list))

ASSUME SetupAssumption ==
    \A s \in Setups :
        /\ IsList(s.bundled) /\ IsList(s.catalog) /\ IsList(s.packs) /\ IsList(s.tree) /\ IsList(OptionsOf(s).roots)
        /\ \A p \in ToSet(s.packs) : IsList(p.rules)
        /\ \A i, j \in DOMAIN s.bundled : s.bundled[i].key = s.bundled[j].key => i = j
        /\ \A i, j \in DOMAIN s.tree : s.tree[i].name = s.tree[j].name => i = j
        /\ \A f \in ToSet(s.tree) : \A key \in DOMAIN f.finds : f.finds[key] \in Nat

-----------------------------------------------------------------------------
(* Rules: records [key, language]; "*" stands for every language           *)

Keys(rules) == {r.key : r \in ToSet(rules)}

\* loadCustomRuleDefinitions: the lists of custom rules, the server's catalog and the packs of the project.
RuleLists(catalog) == <<catalog>> \o [p \in DOMAIN setup.packs |-> setup.packs[p].rules]
CustomRules(catalog) == UNION {ToSet(list) : list \in ToSet(RuleLists(catalog))}

\* A pack that cannot be read or validated, or a key seen before, is an error.
KeySeenTwice(catalog) ==
    \E i, j \in DOMAIN RuleLists(catalog) :
        \E m \in DOMAIN RuleLists(catalog)[i], n \in DOMAIN RuleLists(catalog)[j] :
            <<i, m>> # <<j, n>> /\ RuleLists(catalog)[i][m].key = RuleLists(catalog)[j][n].key
RulesRefused(catalog) ==
    \/ \E p \in ToSet(setup.packs) : ~p.valid
    \/ KeySeenTwice(catalog)
    \/ {r.key : r \in CustomRules(catalog)} \cap Keys(setup.bundled) # {}

\* shouldRequireServerCustomCatalog
CatalogRequired == Options.server # "" /\ (Options.strict \/ Options.source = "server")

-----------------------------------------------------------------------------
(* The analysis scope                                                      *)

NoPullRequest == [prKey |-> "", prBranch |-> "", prBase |-> ""]
Named(pr) == {field \in DOMAIN pr : pr[field] # ""}

\* resolvePullRequestEnv: the first environment that names any field.
PullRequestEnv(env) ==
    LET named == SelectSeq(env, LAMBDA source : Named(source) # {})
    IN  IF named = <<>> THEN NoPullRequest ELSE named[1]

\* mergePullRequestMetadata: the options override it field by field.
PullRequest == [field \in DOMAIN NoPullRequest |->
                    IF Options[field] # "" THEN Options[field] ELSE PullRequestEnv(setup.env)[field]]

\* missingFields: all of the fields or none.
MissingFields(pr) == IF Named(pr) = {} THEN {} ELSE DOMAIN pr \ Named(pr)

\* detectGitContext: outside a repository there is nothing; a detached HEAD has no branch.
GitBranch == IF setup.git.inside THEN setup.git.branch ELSE ""

\* resolveSCMContextWithInputs
SCMContext ==
    LET pr == PullRequest
    IN  [scopeType |-> IF pr.prKey # "" THEN "pull_request" ELSE "branch",
         key |-> pr.prKey, base |-> pr.prBase,
         branch |-> CASE Options.branch # "" -> Options.branch
                      [] Options.branch = "" /\ pr.prKey # "" -> pr.prBranch
                      [] OTHER -> GitBranch]
SCMRefused == \/ MissingFields(PullRequest) # {}
              \/ setup.git.inside /\ ~setup.git.commit
              \/ setup.git.inside /\ SCMContext.branch = ""

-----------------------------------------------------------------------------
(* Files: records of a tree [name, under, dirs, language, lines, bytes,    *)
(* readable, finds, panics]                                                *)

\* makeWalkFunc: what the walk from a root takes; a file of an excluded directory is never reached.
Taken(root, f, seen) ==
    /\ root \in f.under
    /\ f.dirs \cap ExcludedDirs = {}
    /\ f.language # ""
    /\ f.name \notin seen \cup Options.exclusions

WalkRoot(found, root) ==
    LET walked[n \in 0..Len(setup.tree)] ==
            IF n = 0 THEN found
            ELSE LET before == walked[n - 1]
                     f == setup.tree[n]
                 IN  IF Taken(root, f, {g.name : g \in ToSet(before)}) THEN Append(before, f) ELSE before
    IN  walked[Len(setup.tree)]

\* Discover: each source root in turn.
Discovered ==
    LET found[n \in 0..Len(Options.roots)] == IF n = 0 THEN <<>> ELSE WalkRoot(found[n - 1], Options.roots[n])
    IN  found[Len(Options.roots)]

-----------------------------------------------------------------------------
(* Policy                                                                  *)

\* builtinEffectiveProfiles: the bundled rules of the discovered languages.
BuiltinPolicy(languages) ==
    [l \in languages |-> [key \in {r.key : r \in {s \in ToSet(setup.bundled) : s.language \in {l, "*"}}} |-> "major"]]

\* mergeMissingBuiltinProfiles: whole languages only.
MergeMissing(profiles, languages) == profiles @@ BuiltinPolicy(languages)

\* ResolveProfilePolicy: where the policy comes from.
PolicySource ==
    LET o == Options
    IN  CASE o.source = "local" \/ (o.source = "auto" /\ o.profile # "") -> "local"
          [] o.source = "server" \/ (o.source = "auto" /\ o.profile = "" /\ o.server # "") -> "server"
          [] OTHER -> "builtin"

\* ProfilePolicy.Rule
ActiveRule(language, key) ==
    /\ language \in DOMAIN policy
    /\ key \in DOMAIN policy[language]
    /\ policy[language][key] # "off"

-----------------------------------------------------------------------------
(* Analysis of a file                                                      *)

Issue(f, key, severity) == [file |-> f.name, language |-> f.language, rule |-> key, severity |-> severity]

\* applyProfileSeverity, called on the issues the rule has added.
ApplySeverity(before, found, severity) ==
    before \o [i \in DOMAIN found |-> [found[i] EXCEPT !.severity = severity]]

\* The analyzers of the file's language whose rules are active.
Applies(a, f) == a.language \in {f.language, "*"} /\ ActiveRule(f.language, a.key)
Finds(a, f) == IF a.key \in DOMAIN f.finds THEN f.finds[a.key] ELSE 0

\* analyzeFile: those that apply, in their order.  One that fails keeps what it had found; one
\* that panics loses the file's issues.
Check(f, result, a) ==
    IF ~Applies(a, f) \/ result.panicked
    THEN result
    ELSE [panicked |-> a.key \in f.panics,
          found |-> ApplySeverity(result.found, [i \in 1..Finds(a, f) |-> Issue(f, a.key, "default")],
                                  policy[f.language][a.key])]

FoundNothing == [panicked |-> FALSE, found |-> <<>>]
Checked(f) == LET after[n \in 0..Len(analyzers)] ==
                      IF n = 0 THEN FoundNothing ELSE Check(f, after[n - 1], analyzers[n])
              IN  after[Len(analyzers)]
AnalyzeFile(f) == IF f.readable THEN Checked(f) ELSE FoundNothing

-----------------------------------------------------------------------------
(* The report                                                              *)

\* countLines: the kind of a line is what its first characters and a "*/" in it make it.
\* A line that counts as a comment and has no "*/" leaves the counter inside a block.
CountLine(count, line) ==
    LET comment == count.inBlock \/ line \in {"slashes", "open", "whole"}
    IN  [inBlock |-> comment /\ line \notin {"whole", "close"},
         comments |-> count.comments + (IF comment THEN 1 ELSE 0),
         ncloc |-> count.ncloc + (IF comment \/ line = "blank" THEN 0 ELSE 1)]
CountLines(f) == FoldLeft(CountLine, [inBlock |-> FALSE, comments |-> 0, ncloc |-> 0],
                          IF f.readable THEN f.lines ELSE <<>>)

Least(a, b) == IF a < b THEN a ELSE b

\* The bytes buildCodeSnapshot keeps of a file.
SnapshotLimit(f, remaining) == Least(Least(f.bytes, MaxFileBytes), remaining)

\* buildCodeSnapshot: the entry of one more file; one of which nothing is kept is omitted.
AddSnapshotFile(snapshot, f) ==
    LET kept == IF f.readable THEN SnapshotLimit(f, MaxTotalBytes - snapshot.storedBytes) ELSE 0
        reason == CASE ~f.readable -> "read_error" [] f.readable /\ kept <= 0 -> "snapshot_limit" [] OTHER -> ""
        truncated == reason = "" /\ kept < f.bytes
    IN  [entries |-> Append(snapshot.entries, [name |-> f.name, content |-> kept, omitted |-> reason,
                                               truncated |-> truncated]),
         storedFiles |-> snapshot.storedFiles + (IF reason = "" THEN 1 ELSE 0),
         storedBytes |-> snapshot.storedBytes + (IF reason = "" THEN kept ELSE 0),
         truncatedFiles |-> snapshot.truncatedFiles + (IF truncated THEN 1 ELSE 0),
         omittedFiles |-> snapshot.omittedFiles + (IF reason = "" THEN 0 ELSE 1)]
CodeSnapshot == FoldLeft(AddSnapshotFile, [entries |-> <<>>, storedFiles |-> 0, storedBytes |-> 0,
                                           truncatedFiles |-> 0, omittedFiles |-> 0], files)

\* computeMeasures
MeasuresOf == [files |-> Len(files), issues |-> Len(issues),
               comments |-> FoldLeft(LAMBDA n, f : n + CountLines(f).comments, 0, files),
               ncloc |-> FoldLeft(LAMBDA n, f : n + CountLines(f).ncloc, 0, files)]

\* Build
ReportBuilt == [built |-> TRUE, scope |-> scm, key |-> Options.key, issues |-> issues,
                measures |-> MeasuresOf, snapshot |-> CodeSnapshot]

-----------------------------------------------------------------------------
(* The run                                                                 *)

Then(next) == step' = next
Exit(code) == step' = "exited" /\ exitCode' = code
resultVars == <<analyzers, scm, files, policy, worker, out, issues, scanned>>
outsideVars == <<setup, saved, serverJob, expired>>

\* parseOptions, mustParseOptions and -skip.
ParseOptions ==
    /\ step = "parse"
    /\ \/ ~OptionsValid /\ Exit(2)
       \/ OptionsValid /\ Options.skip /\ Exit(0)
       \/ OptionsValid /\ ~Options.skip /\ Then("load") /\ UNCHANGED exitCode
    /\ UNCHANGED <<resultVars, outsideVars>>

\* loadCustomAnalyzerBridges: a catalog that cannot be fetched matters only when it is required.
\* The custom rules are sorted by their keys; here they come in any order.
LoadCustomAnalyzers ==
    /\ step = "load"
    /\ \E fetched \in (IF Options.server = "" THEN {TRUE} ELSE BOOLEAN) :
          LET catalog == IF fetched /\ Options.server # "" THEN setup.catalog ELSE <<>>
          IN  IF (~fetched /\ CatalogRequired) \/ RulesRefused(catalog)
              THEN Exit(1) /\ UNCHANGED analyzers
              ELSE /\ \E custom \in SetToSeqs(CustomRules(catalog)) : analyzers' = setup.bundled \o custom
                   /\ Then("scope") /\ UNCHANGED exitCode
    /\ UNCHANGED <<outsideVars, scm, files, policy, worker, out, issues, scanned>>

\* ScanUseCase.Run up to the discovery.
ResolveScope ==
    /\ step = "scope"
    /\ IF SCMRefused
       THEN Exit(1) /\ UNCHANGED <<scm, files>>
       ELSE Then("policy") /\ scm' = SCMContext /\ files' = Discovered /\ UNCHANGED exitCode
    /\ UNCHANGED <<outsideVars, analyzers, policy, worker, out, issues, scanned>>

\* ResolveProfilePolicy and the start of Executor.Run: every file is added to the group
\* before its goroutine starts.
ResolvePolicy ==
    /\ step = "policy"
    /\ LET languages == {f.language : f \in ToSet(files)}
       IN  \E loaded \in (IF PolicySource = "server" /\ Options.server # "" THEN BOOLEAN
                          ELSE {PolicySource = "local" /\ setup.localReadable}) :
              IF PolicySource # "builtin" /\ ~loaded /\ Options.strict
              THEN Exit(1) /\ UNCHANGED <<policy, worker>>
              ELSE /\ policy' = IF loaded
                                THEN MergeMissing(IF PolicySource = "local" THEN setup.localProfile
                                                  ELSE setup.serverProfile, languages)
                                ELSE BuiltinPolicy(languages)
                   /\ worker' = [i \in DOMAIN files |-> "waiting"]
                   /\ Then("analyze") /\ UNCHANGED exitCode
    /\ UNCHANGED <<outsideVars, analyzers, scm, files, out, issues, scanned>>

analysisVars == <<outsideVars, step, exitCode, analyzers, scm, files, policy, scanned>>

\* Mutant of Acquire: the goroutines do not wait for a slot.
AcquireFreely(i) ==
    /\ step = "analyze" /\ worker[i] = "waiting"
    /\ worker' = [worker EXCEPT ![i] = "running"]
    /\ UNCHANGED <<analysisVars, out, issues>>

\* runFile: a free slot of the semaphore.
Acquire(i) ==
    /\ step = "analyze" /\ worker[i] = "waiting"
    /\ Cardinality({j \in DOMAIN worker : worker[j] \in {"running", "sent"}}) < Slots
    /\ worker' = [worker EXCEPT ![i] = "running"]
    /\ UNCHANGED <<analysisVars, out, issues>>

\* Mutant of Analyze: a panic is not recovered from, and its goroutine sends nothing.
AnalyzeUnlessPanic(i) ==
    /\ step = "analyze" /\ worker[i] = "running"
    /\ ~AnalyzeFile(files[i]).panicked
    /\ worker' = [worker EXCEPT ![i] = "sent"]
    /\ out' = Append(out, AnalyzeFile(files[i]).found)
    /\ UNCHANGED <<analysisVars, issues>>

\* runFile: the result, nothing after a panic, is sent; the channel holds one for every file.
Analyze(i) ==
    /\ step = "analyze" /\ worker[i] = "running"
    /\ LET result == AnalyzeFile(files[i])
       IN  out' = Append(out, IF result.panicked THEN <<>> ELSE result.found)
    /\ worker' = [worker EXCEPT ![i] = "sent"]
    /\ UNCHANGED <<analysisVars, issues>>

\* runFile: its deferred calls free the slot and leave the group.
Leave(i) ==
    /\ step = "analyze" /\ worker[i] = "sent"
    /\ worker' = [worker EXCEPT ![i] = "done"]
    /\ UNCHANGED <<analysisVars, out, issues>>

\* Executor.Run: the collector appends the results as they come.
Collect ==
    /\ step = "analyze" /\ out # <<>>
    /\ issues' = issues \o Head(out)
    /\ out' = Tail(out)
    /\ UNCHANGED <<analysisVars, worker>>

\* Mutant of InGroup: a goroutine adds itself to the group once it runs.
InGroupOnceRunning(i) == worker[i] # "waiting"

\* Executor.Run: the goroutines the group waits for, those of every file.
InGroup(i) == i \in DOMAIN files

\* The channel is closed when the group is done, and the range over it ends: Build.
BuildReport ==
    /\ step = "analyze" /\ out = <<>>
    /\ \A i \in DOMAIN worker : InGroup(i) => worker[i] = "done"
    /\ scanned' = ReportBuilt
    /\ Then("signals")
    /\ UNCHANGED <<outsideVars, exitCode, analyzers, scm, files, policy, worker, out, issues>>

\* collectReportTestSignals, saveOutputs: evidence that cannot be collected fails the scan;
\* a file that cannot be written does not.  A format of config.toml may be none of the three.
SaveReport ==
    /\ step = "signals"
    /\ \/ setup.evidenceFails /\ Exit(1) /\ UNCHANGED saved
       \/ /\ ~setup.evidenceFails
          /\ saved' \in SUBSET (CASE Options.format = "all" -> {"json", "sarif"}
                                  [] Options.format \in {"json", "sarif"} -> {Options.format}
                                  [] OTHER -> {})
          /\ Then("serve") /\ UNCHANGED exitCode
    /\ UNCHANGED <<resultVars, setup, serverJob, expired>>

\* serveReport: the local server runs until it fails, if it is asked for; handleServerPush
\* ends the run when there is no server.
ServeReport ==
    /\ step = "serve"
    /\ \/ Options.serve /\ Exit(1)
       \/ ~Options.serve /\ Options.server = "" /\ Exit(0)
       \/ ~Options.serve /\ Options.server # "" /\ Then("push") /\ UNCHANGED exitCode
    /\ UNCHANGED <<resultVars, outsideVars>>

\* pushReport: a failure is logged and the run ends well; a server that has processed the
\* report at once answers with the gate, another with the job it has accepted.
Push ==
    /\ step = "push"
    /\ \/ Exit(0) /\ UNCHANGED serverJob
       \/ \E verdict \in {"OK", "WARN", "ERROR"} :
            /\ serverJob' = [status |-> "completed", verdict |-> verdict]
            /\ Exit(IF verdict = "ERROR" THEN 3 ELSE 0)
       \/ /\ serverJob' = [status |-> "accepted", verdict |-> "none"]
          /\ IF Options.wait THEN Then("wait") /\ UNCHANGED exitCode ELSE Exit(0)
    /\ UNCHANGED <<resultVars, setup, saved, expired>>

\* Mutant of Settled: whatever is no longer accepted is settled.
SettledOnceTaken(status) == status # "accepted"

\* completedServerJobResult: the statuses that end the wait.
Settled(status) == status \in {"completed", "failed"}

\* waitForServerJob: one poll and, for a completed job, the request for its scan.
\* Either request may fail, and a job may have completed without a scan.
Poll ==
    /\ step = "wait"
    /\ \/ Exit(1)
       \/ /\ Settled(serverJob.status) /\ serverJob.status # "failed"
          /\ Exit(IF serverJob.verdict = "ERROR" THEN 3 ELSE 0)
       \/ /\ ~Settled(serverJob.status) /\ ~expired
          /\ UNCHANGED <<step, exitCode>>
    /\ UNCHANGED <<resultVars, outsideVars>>

\* The deadline of a wait with a timeout passes.
Expire ==
    /\ step = "wait" /\ Options.timeout /\ ~expired
    /\ expired' = TRUE
    /\ UNCHANGED <<resultVars, setup, saved, serverJob, step, exitCode>>

\* The server's workers take and settle the job, or put it back for another attempt.
ServerWorks ==
    /\ serverJob.status \in {"accepted", "running"}
    /\ serverJob' \in IF serverJob.status = "accepted" THEN {[status |-> "running", verdict |-> "none"]}
                      ELSE {[status |-> "completed", verdict |-> v] : v \in {"OK", "WARN", "ERROR"}}
                           \cup {[status |-> s, verdict |-> "none"] : s \in {"failed", "accepted"}}
    /\ UNCHANGED <<resultVars, setup, saved, expired, step, exitCode>>

ScannerInit ==
    /\ setup \in Setups
    /\ step = "parse" /\ analyzers = <<>> /\ scm = NotBuilt /\ files = <<>> /\ policy = <<>>
    /\ worker = <<>> /\ out = <<>> /\ issues = <<>> /\ scanned = NotBuilt /\ saved = {}
    /\ serverJob = NotPushed /\ expired = FALSE /\ exitCode = NotExited

ScannerSteps ==
    \/ ParseOptions \/ LoadCustomAnalyzers \/ ResolveScope \/ ResolvePolicy
    \/ \E i \in DOMAIN worker : Acquire(i) \/ Analyze(i) \/ Leave(i)
    \/ Collect \/ BuildReport \/ SaveReport \/ ServeReport \/ Push \/ Poll

ScannerNext == ScannerSteps \/ Expire \/ ServerWorks

\* The process goes on and the clock moves; the server need not.
ScannerFairness == WF_scannerVars(ScannerSteps) /\ WF_scannerVars(Expire)
ScannerSpec == ScannerInit /\ [][ScannerNext]_scannerVars /\ ScannerFairness

-----------------------------------------------------------------------------
(* Properties                                                              *)

\* Every step finds what it needs: at most Slots files are being analysed, and no
\* result waits once the report is built.
ScannerTypeOK ==
    /\ setup \in Setups
    /\ Cardinality({i \in DOMAIN worker : worker[i] \in {"running", "sent"}}) <= Slots
    /\ exitCode \in {NotExited, 0, 1, 2, 3} /\ (exitCode # NotExited) = (step = "exited")
    /\ scanned.built => out = <<>>

\* The report holds the issues of every eligible file once, whatever the order in which
\* the goroutines ran, and of each only those its active analyzers found, with the
\* severity of their own rule (Executor.Run, analyzeFile, Discover).
Eligible == {f \in ToSet(setup.tree) : \E root \in ToSet(Options.roots) : Taken(root, f, {})}
Of(list, name, key) == {k \in DOMAIN list : list[k].file = name /\ list[k].rule = key}
ReportHoldsEveryFile ==
    scanned.built =>
        /\ ToSet(files) = Eligible /\ Len(files) = Cardinality(Eligible)
        /\ \A k \in DOMAIN scanned.issues : \E f \in Eligible : \E a \in ToSet(analyzers) :
              k \in Of(scanned.issues, f.name, a.key)
        /\ \A f \in Eligible : \A a \in ToSet(analyzers) :
              LET those == Of(scanned.issues, f.name, a.key)
                  active == {b.key : b \in {c \in ToSet(analyzers) : Applies(c, f)}}
              IN  IF ~f.readable \/ a.key \notin active \/ f.panics \cap active # {}
                  THEN those = {}
                  ELSE /\ Cardinality(those) = Finds(a, f)
                       /\ \A k \in those : scanned.issues[k].severity = policy[f.language][a.key]

\* A report is of a pull request with its key, branch and base as soon as the flags or the
\* environment name any of them, and has a branch unless there is no repository
\* (resolveSCMContextWithInputs, docs/api.md:131).
ScopeIsWhole ==
    scanned.built =>
        /\ Named(PullRequest) # {} =>
              scanned.scope.scopeType = "pull_request" /\ "" \notin {scanned.scope[x] : x \in {"key", "base", "branch"}}
        /\ scanned.scope.branch = "" => ~setup.git.inside

\* What is sent is whole: every eligible file, and the scope it belongs to.
ReportIsWhole == ScannerTypeOK /\ ReportHoldsEveryFile /\ ScopeIsWhole

\* The code 3 is a verdict, and a run that waited for an accepted report does not end
\* well before the server has settled it (docs/how-to-use.md:69).
ExitReflectsVerdict ==
    /\ exitCode = 3 => serverJob.verdict = "ERROR"
    /\ exitCode = 0 /\ serverJob.status # "none" /\ Options.wait => serverJob.verdict \in {"OK", "WARN"}

\* A run that serves nothing and has a timeout ends, whatever the server does and whichever
\* analyzers panic (runFile's deferred calls, waitForServerJob's deadline).
ScanEnds == (Options.timeout /\ ~Options.serve) ~> (step = "exited")
=============================================================================
