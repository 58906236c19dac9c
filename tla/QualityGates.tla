---------------------------- MODULE QualityGates ----------------------------
(***************************************************************************)
(* Quality gates and new-code periods.  A gate is a set of conditions on   *)
(* measures; the ingest of a scan judges the measures by the gate assigned *)
(* to the project or by a default one, reading gate and conditions in      *)
(* statements of their own while administrators edit them, and the         *)
(* overview later explains the stored verdict with the gate as it is then. *)
(*                                                                         *)
(* Source: ollantastore/postgres/gates.go and newcode.go,                  *)
(* ollantaweb/api/gates_handler.go, newcode_handler.go and                 *)
(* overview_summary.go, domain/service/gate_evaluator.go,                  *)
(* application/analysis/gate.go and newcode.go,                            *)
(* application/ingest/usecase.go.                                          *)
(* Left out: names of gates, and with them the refusal of a name taken;    *)
(* small_changeset_lines, which is stored and which no ingest reads.       *)
(***************************************************************************)
EXTENDS Integers, Sequences, SequencesExt, FiniteSets, FiniteSetsExt

CONSTANTS
    GateIds,        \* identifiers the table may give to gates
    BuiltinGate,    \* "Ollanta Default", stored by the migration
    GateProjects,   \* projects
    Conditions,     \* conditions a request may carry; no or one warning threshold
    Payloads,       \* measures and test evidence of the scans that arrive
    Branches,       \* branches with settings of their own
    Strategies,     \* new-code strategies a request may carry
    Histories,      \* lists of scans, newest first, for the baseline
    MaxPeriods,     \* bound: rows of new_code_periods
    MaxGateOps      \* bound: administrators' requests

\* What the list of scans tells of one.
Analyses == [id : Nat, release : BOOLEAN, branch : STRING, day : Int]

ASSUME GateAssumption ==
    /\ BuiltinGate \in GateIds
    /\ Histories \subseteq Seq(Analyses)
    /\ \A scans \in Histories : \A i, j \in DOMAIN scans :
          i < j => scans[i].id # scans[j].id /\ scans[i].day >= scans[j].day

VARIABLES
    gates,          \* quality_gates: the row of each id, or NoRow
    conditions,     \* gate_conditions: the conditions of each gate
    projectGates,   \* project_gates: the gate of each project, or NoGate
    periods,        \* new_code_periods, in insertion order
    saving,         \* the administrator's request that still adds conditions
    judging,        \* the ingest between two of its reads
    verdicts,       \* per project, the last stored scan with what judged it
    gateOps         \* requests so far

gateVars == <<gates, conditions, projectGates, periods, saving, judging, verdicts, gateOps>>
gateTables == <<gates, conditions, projectGates>>

NoRow == [isDefault |-> "none"]
NoGate == "no gate"

Resting == [op |-> "none"]
NoScan == [status |-> "none"]
Unset == "unset"

StoredGates == {g \in GateIds : gates[g] # NoRow}
DefaultGates == {g \in StoredGates : gates[g].isDefault}

Condition(metric, op, threshold, onNewCode) ==
    [metric |-> metric, op |-> op, threshold |-> threshold, warning |-> {}, onNewCode |-> onNewCode]

\* defaultGateConditions, and the rows of migration 012.
DefaultGateConditions == <<Condition("bugs", "GT", 0, FALSE), Condition("new_bugs", "GT", 0, TRUE)>>

\* DefaultConditions of the evaluator, used when no gate can be read.
DefaultConditions == {Condition("bugs", "gt", 0, FALSE)}

-----------------------------------------------------------------------------
(* Evaluation                                                              *)

\* metricEvidenceAvailable.
EvidenceAvailable(evidence, value) == evidence \/ value > 0

\* addOptionalTestMeasures: coverage and tests are measures only where there is
\* a value or evidence of it.
Measures(payload) ==
    LET measured == {"bugs"} \cup {metric \in {"coverage"} : payload.covered}
                    \cup {metric \in {"tests"} : EvidenceAvailable(payload.suites, payload.tests)}
    IN  [metric \in measured |-> payload[metric]]

CumulativeMetrics == {"bugs", "vulnerabilities", "code_smells"}

\* computeNewCodeMeasures: cumulative measures less the previous scan's, never below zero.
NewCodeMeasures(total, prev) ==
    [metric \in DOMAIN total |->
        IF prev # NoScan /\ metric \in CumulativeMetrics \cap DOMAIN prev.total
        THEN Max({0, total[metric] - prev.total[metric]}) ELSE total[metric]]

\* computeChangedLines.
ChangedLines(payload, prev) ==
    IF prev = NoScan THEN payload.lines
    ELSE Max({payload.lines - prev.lines, prev.lines - payload.lines})

\* violated: operators in lower case only; any other never fails.
Violated(op, actual, threshold) ==
    \/ op = "gt" /\ actual > threshold
    \/ op = "lt" /\ actual < threshold
    \/ op = "gte" /\ actual >= threshold

SmallChangesetExcludes == {"new_coverage", "new_duplications"}
Small(changedLines, smallLines) == smallLines > 0 /\ changedLines > 0 /\ changedLines < smallLines

\* evalPersistentCondition, and the exemption of small changesets before it.
ConditionStatus(c, total, new, small) ==
    LET measures == IF c.onNewCode THEN new ELSE total
    IN  IF small /\ c.onNewCode /\ c.metric \in SmallChangesetExcludes THEN "OK"
        ELSE IF c.metric \notin DOMAIN measures THEN "OK"
        ELSE IF Violated(c.op, measures[c.metric], c.threshold) THEN "ERROR"
        ELSE IF \E w \in c.warning : Violated(c.op, measures[c.metric], w) THEN "WARN" ELSE "OK"

\* EvaluatePersistent.
Evaluate(judged, total, new, small) ==
    LET statuses == {ConditionStatus(c, total, new, small) : c \in judged}
    IN  IF "ERROR" \in statuses THEN "ERROR" ELSE IF "WARN" \in statuses THEN "WARN" ELSE "OK"

-----------------------------------------------------------------------------
(* The overview                                                            *)

UpperCase(op) == CASE op = "gt" -> "GT" [] op = "lt" -> "LT" [] op = "gte" -> "GTE" [] OTHER -> op

\* violatesOverviewCondition.
ViolatesOverview(op, actual, threshold) ==
    \/ UpperCase(op) = "GT" /\ actual > threshold
    \/ UpperCase(op) = "LT" /\ actual < threshold
    \/ UpperCase(op) = "GTE" /\ actual >= threshold
    \/ UpperCase(op) = "NE" /\ actual # threshold

\* collectOverviewSummaryReasons: warning thresholds have no part in it.
Reasons(conds, total, new) ==
    {c \in conds : LET measures == IF c.onNewCode THEN new ELSE total
                   IN  c.metric \in DOMAIN measures /\ ViolatesOverview(c.op, measures[c.metric], c.threshold)}

\* ForProject, in one view of the tables.
GatesOf(p) == IF projectGates[p] # NoGate THEN {projectGates[p]} ELSE DefaultGates

\* loadOverviewGate and reviewStatusFromGate: the stored status, whatever the gate is now.
ReviewStatus(p) ==
    IF verdicts[p] = NoScan THEN "empty"
    ELSE IF GatesOf(p) = {} THEN "needs_setup"
    ELSE CASE verdicts[p].status = "OK" -> "ready" [] verdicts[p].status = "WARN" -> "attention" [] OTHER -> "blocked"

-----------------------------------------------------------------------------
(* The baseline of new code: scans newest first, each [id, release, branch, *)
(* day]; 0 is no baseline.                                                  *)

\* Mutant of ResolveNumberOfDays: the first scan outside of the period.
DaysPastCutoff(scans, days) ==
    LET older == {i \in DOMAIN scans : scans[i].day < scans[1].day - days}
    IN  IF older = {} THEN scans[Len(scans)].id ELSE scans[Min(older)].id

\* resolveNumberOfDays: the last scan before the first that is too old.
ResolveNumberOfDays(scans, days) ==
    LET older == {i \in DOMAIN scans : scans[i].day < scans[1].day - days}
    IN  IF older = {} THEN scans[Len(scans)].id ELSE scans[Min(older) - 1].id

\* ResolveNewCode.
ResolveNewCode(strategy, value, scans) ==
    LET First(Test(_)) == LET found == {i \in DOMAIN scans : Test(scans[i])}
                          IN  IF found = {} THEN 0 ELSE scans[Min(found)].id
    IN  IF scans = <<>> THEN 0
        ELSE CASE strategy = "previous_version"  -> IF Len(scans) < 2 THEN 0 ELSE scans[2].id
               [] strategy = "number_of_days"    -> ResolveNumberOfDays(scans, value)
               [] strategy = "specific_analysis" -> First(LAMBDA s : s.id = value)
               [] strategy = "reference_branch"  -> First(LAMBDA s : s.branch = value)
               [] OTHER -> IF \E i \in DOMAIN scans : scans[i].release
                           THEN First(LAMBDA s : s.release) ELSE ResolveNumberOfDays(scans, 30)

-----------------------------------------------------------------------------
(* Administration of gates                                                 *)

Count == gateOps < MaxGateOps /\ gateOps' = gateOps + 1

Stored(g, isDefault) == gates' = [gates EXCEPT ![g] = [isDefault |-> isDefault, isBuiltin |-> FALSE]]

\* UNIQUE (gate_id, metric, on_new_code).
Conflicts(c, rows) == \E d \in rows : d.metric = c.metric /\ d.onNewCode = c.onNewCode

\* Create and Copy insert the gate, which is in force from then on, and its
\* conditions one by one.
CreateGate ==
    /\ saving = Resting /\ Count
    /\ \E g \in GateIds \ StoredGates, isDefault \in BOOLEAN :
          /\ Stored(g, isDefault)
          /\ saving' = [op |-> "create", gate |-> g, todo |-> DefaultGateConditions]
    /\ UNCHANGED <<conditions, projectGates, periods, judging, verdicts>>

CopyGate ==
    /\ saving = Resting /\ Count
    /\ \E source \in StoredGates, g \in GateIds \ StoredGates :
          /\ Stored(g, FALSE)
          /\ saving' = [op |-> "read", gate |-> g, source |-> source]
    /\ UNCHANGED <<conditions, projectGates, periods, judging, verdicts>>

CopyReadsConditions ==
    /\ saving.op = "read"
    /\ saving' = [op |-> "copy", gate |-> saving.gate, todo |-> SetToSeq(conditions[saving.source])]
    /\ UNCHANGED <<gateTables, periods, judging, verdicts, gateOps>>

\* The next condition: refused when the gate is gone or has the metric already.
\* A copy stops there, with what it has copied; a new gate goes on.
SaveNextCondition ==
    /\ saving.op \in {"create", "copy"}
    /\ IF saving.todo = <<>>
       THEN saving' = Resting /\ UNCHANGED conditions
       ELSE LET g == saving.gate
                stored == g \in StoredGates /\ ~Conflicts(Head(saving.todo), conditions[g])
            IN  /\ conditions' = IF stored THEN [conditions EXCEPT ![g] = @ \cup {Head(saving.todo)}] ELSE conditions
                /\ saving' = IF stored \/ saving.op = "create"
                             THEN [saving EXCEPT !.todo = Tail(@)] ELSE Resting
    /\ UNCHANGED <<gates, projectGates, periods, judging, verdicts, gateOps>>

\* Update: whether a gate is built in is asked of the request, so any is updated.
UpdateGate ==
    /\ Count
    /\ \E g \in StoredGates, isDefault \in BOOLEAN : gates' = [gates EXCEPT ![g].isDefault = isDefault]
    /\ UNCHANGED <<conditions, projectGates, periods, saving, judging, verdicts>>

\* Delete, with the rows that refer to the gate.
DeleteGate ==
    /\ Count
    /\ \E g \in StoredGates :
          /\ ~gates[g].isBuiltin
          /\ gates' = [gates EXCEPT ![g] = NoRow]
          /\ conditions' = [conditions EXCEPT ![g] = {}]
          /\ projectGates' = [p \in GateProjects |-> IF projectGates[p] = g THEN NoGate ELSE projectGates[p]]
    /\ UNCHANGED <<periods, saving, judging, verdicts>>

\* AddCondition, UpdateCondition, which may move to another metric, RemoveCondition.
EditConditions ==
    /\ Count
    /\ \E g \in StoredGates, c \in Conditions :
          \/ ~Conflicts(c, conditions[g]) /\ conditions' = [conditions EXCEPT ![g] = @ \cup {c}]
          \/ \E d \in conditions[g] : /\ ~Conflicts(c, conditions[g] \ {d})
                                      /\ conditions' = [conditions EXCEPT ![g] = (@ \ {d}) \cup {c}]
          \/ c \in conditions[g] /\ conditions' = [conditions EXCEPT ![g] = @ \ {c}]
    /\ UNCHANGED <<gates, projectGates, periods, saving, judging, verdicts>>

\* SetDefault: one statement; an id that no gate has clears every default.
SetDefaultGate ==
    /\ Count
    /\ \E id \in GateIds :
          gates' = [g \in GateIds |-> IF g \in StoredGates THEN [gates[g] EXCEPT !.isDefault = (g = id)] ELSE NoRow]
    /\ UNCHANGED <<conditions, projectGates, periods, saving, judging, verdicts>>

AssignGateToProject ==
    /\ Count
    /\ \E p \in GateProjects, g \in StoredGates : projectGates' = [projectGates EXCEPT ![p] = g]
    /\ UNCHANGED <<gates, conditions, periods, saving, judging, verdicts>>

-----------------------------------------------------------------------------
(* The verdict of an ingest                                                *)

BeginEvaluation(p, payload) ==
    /\ judging = Resting
    /\ judging' = [op |-> "gate", project |-> p, payload |-> payload, prev |-> verdicts[p], gate |-> projectGates[p]]
    /\ UNCHANGED <<gateTables, periods, saving, verdicts, gateOps>>

\* The end of an evaluation, here with the insert of the scan row.  The ingest
\* passes 0 as the lines of a small changeset.
Judge(judged) ==
    LET total == Measures(judging.payload)
        new == NewCodeMeasures(total, judging.prev)
        small == Small(ChangedLines(judging.payload, judging.prev), 0)
    IN  /\ verdicts' = [verdicts EXCEPT ![judging.project] =
                           [status |-> Evaluate(judged, total, new, small), judged |-> judged,
                            total |-> total, new |-> new, lines |-> judging.payload.lines]]
        /\ judging' = Resting

\* ForProject: without an assigned gate any default gate, the query has no order.
ReadGate ==
    /\ judging.op = "gate"
    /\ \/ \E g \in (IF judging.gate = NoGate THEN DefaultGates ELSE {judging.gate} \cap StoredGates) :
             /\ judging' = [judging EXCEPT !.op = "conditions", !.gate = g]
             /\ UNCHANGED verdicts
       \/ /\ (IF judging.gate = NoGate THEN DefaultGates ELSE {judging.gate} \cap StoredGates) = {}
          /\ Judge(DefaultConditions)
    /\ UNCHANGED <<gateTables, periods, saving, gateOps>>

\* The conditions of that gate are read again, none when it was deleted since.
ReadConditions ==
    /\ judging.op = "conditions"
    /\ Judge(conditions[judging.gate])
    /\ UNCHANGED <<gateTables, periods, saving, gateOps>>

\* Any of the reads may fail: the built-in conditions judge.
ReadFails ==
    /\ judging.op \in {"gate", "conditions"}
    /\ Judge(DefaultConditions)
    /\ UNCHANGED <<gateTables, periods, saving, gateOps>>

-----------------------------------------------------------------------------
(* New-code periods                                                        *)

Global == [scope |-> "global", project |-> Unset, branch |-> Unset]
ProjectScope(p) == [scope |-> "project", project |-> p, branch |-> Unset]
BranchScope(p, b) == [scope |-> "branch", project |-> p, branch |-> b]
Scopes == {Global} \cup {ProjectScope(p) : p \in GateProjects} \cup {BranchScope(p, b) : p \in GateProjects, b \in Branches}

\* getByScope: any row of the scope, LIMIT 1 without an order.
Served(scope) == {row \in ToSet(periods) : row.of = scope}

\* Resolve: branch, project, global.
Resolve(p, b) ==
    IF b # Unset /\ Served(BranchScope(p, b)) # {} THEN Served(BranchScope(p, b))
    ELSE IF Served(ProjectScope(p)) # {} THEN Served(ProjectScope(p)) ELSE Served(Global)

\* SetGlobal, SetForProject, SetForBranch: ON CONFLICT (scope, project_id,
\* branch) never meets a row with a NULL among the three, so only a branch's
\* setting is updated and the others are inserted once more.
SetPeriod ==
    /\ Count
    /\ \E scope \in Scopes, s \in Strategies :
          LET present == {i \in DOMAIN periods : scope.scope = "branch" /\ periods[i].of = scope}
          IN  /\ \/ present = {} /\ Len(periods) < MaxPeriods /\ periods' = Append(periods, [of |-> scope, strategy |-> s])
                 \/ \E i \in present : periods' = [periods EXCEPT ![i].strategy = s]
    /\ UNCHANGED <<gateTables, saving, judging, verdicts>>

\* DeleteForProject, DeleteForBranch: every row of the scope.
DeletePeriod ==
    /\ Count
    /\ \E scope \in Scopes \ {Global} : periods' = SelectSeq(periods, LAMBDA row : row.of # scope)
    /\ UNCHANGED <<gateTables, saving, judging, verdicts>>

-----------------------------------------------------------------------------

GateInit ==
    /\ gates = [g \in GateIds |-> IF g = BuiltinGate THEN [isDefault |-> TRUE, isBuiltin |-> TRUE] ELSE NoRow]
    /\ conditions = [g \in GateIds |-> IF g = BuiltinGate THEN ToSet(DefaultGateConditions) ELSE {}]
    /\ projectGates = [p \in GateProjects |-> NoGate]
    /\ periods = <<[of |-> Global, strategy |-> "auto"]>>
    /\ saving = Resting /\ judging = Resting
    /\ verdicts = [p \in GateProjects |-> NoScan]
    /\ gateOps = 0

GateNext ==
    \/ CreateGate \/ CopyGate \/ CopyReadsConditions \/ SaveNextCondition
    \/ UpdateGate \/ DeleteGate \/ EditConditions \/ SetDefaultGate \/ AssignGateToProject
    \/ \E p \in GateProjects, payload \in Payloads : BeginEvaluation(p, payload)
    \/ ReadGate \/ ReadConditions \/ ReadFails
    \/ SetPeriod \/ DeletePeriod

GateSpec == GateInit /\ [][GateNext]_gateVars

-----------------------------------------------------------------------------
(* Properties                                                              *)

\* The rows refer to one another: conditions and assignments belong to gates
\* that are stored, and a gate has one condition per metric and kind of code.
GateTypeOK ==
    /\ \A g \in GateIds : gates[g] = NoRow \/ gates[g] \in [isDefault : BOOLEAN, isBuiltin : BOOLEAN]
    /\ \A g \in GateIds : g \in StoredGates \/ conditions[g] = {}
    /\ \A g \in GateIds : \A c, d \in conditions[g] : c = d \/ c.metric # d.metric \/ c.onNewCode # d.onNewCode
    /\ \A p \in GateProjects : projectGates[p] \in StoredGates \cup {NoGate}
    /\ \A p \in GateProjects : verdicts[p] = NoScan \/ verdicts[p].status \in {"OK", "WARN", "ERROR"}

\* A scan that was refused can be explained: with the conditions that judged
\* it, the overview, which has a comparison of its own, finds a reason unless
\* it was refused for new code, whose measures the overview does not have.
RefusalHasReason ==
    \A p \in GateProjects : ReviewStatus(p) = "blocked" =>
        \/ Reasons({c \in verdicts[p].judged : ~c.onNewCode}, verdicts[p].total, <<>>) # {}
        \/ Evaluate({c \in verdicts[p].judged : c.onNewCode}, <<>>, verdicts[p].new, FALSE) = "ERROR"

\* Where a setting of a number of days, or the fallback of "auto", is served,
\* the baseline is the oldest scan of the period: no scan of it lies before.
BaselineOpensPeriod ==
    \A p \in GateProjects, b \in Branches \cup {Unset} : \A row \in {r \in Resolve(p, b) : r.strategy = "number_of_days"} :
      \A scans \in Histories \ {<<>>}, days \in 1..2 :
        LET id == ResolveNewCode(row.strategy, days, scans)
            at == CHOOSE i \in DOMAIN scans : scans[i].id = id
        IN  /\ scans[at].day >= scans[1].day - days
            /\ \A i \in DOMAIN scans : scans[i].day >= scans[1].day - days => i <= at

\* A verdict stands on what it names: on conditions that are violated and, for
\* new code, on a baseline that opens the period.
VerdictIsGrounded == RefusalHasReason /\ BaselineOpensPeriod

\* docs/quality-gates.md: "ERROR: At least one error threshold violated", for
\* a condition stored with one of the operators "GT, LT, GTE, LTE, EQ, NE".
StoredConditionBlocks ==
    \A p \in GateProjects : verdicts[p] # NoScan =>
        \A c \in verdicts[p].judged :
            LET measures == IF c.onNewCode THEN verdicts[p].new ELSE verdicts[p].total
            IN  (c.op = "GT" /\ c.metric \in DOMAIN measures /\ measures[c.metric] > c.threshold) => verdicts[p].status = "ERROR"
=============================================================================
