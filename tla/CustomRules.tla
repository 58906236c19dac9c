---------------------------- MODULE CustomRules ----------------------------
(***************************************************************************)
(* Custom rules: versions of a rule that are drafted, validated, published *)
(* and retired by requests that run side by side.  A request reads in      *)
(* statements of its own before it writes, and only Publish and Import use *)
(* a transaction.                                                          *)
(*                                                                         *)
(* Source: ollantastore/postgres/custom_rules.go, application/customrules, *)
(* domain/model/custom_rule.go and the handlers of                         *)
(* ollantaweb/api/custom_rules_handler.go.  The hash of a definition is    *)
(* the definition; the audit log is left out.                              *)
(***************************************************************************)
EXTENDS Integers, Sequences, SequencesExt, FiniteSets

CONSTANTS
    RuleKeys,     \* normalised keys
    BundledKeys,  \* those of the bundled catalog
    Packs,        \* packs of rules
    Definitions,  \* what a rule may say, see Definition
    Editors,      \* users with a request in flight
    MaxVersions,  \* bound: rows
    MaxRuleOps    \* bound: requests begun

VARIABLES
    versions,     \* custom_rule_versions: rows are never deleted, the id of a row is its index
    editing,      \* the request of each editor between two of its statements
    ruleOps       \* requests begun so far

ruleVars == <<versions, editing, ruleOps>>

NotEditing == [op |-> "none"]
RuleIds == DOMAIN versions

Lifecycles == {"draft", "valid", "invalid", "published", "disabled", "deprecated"}
Statuses == {"none", "passed", "failed", "requires_runtime"}

\* The columns of a definition that validation tells apart: the metadata is in
\* order; the engine and its configuration; per example whether it is meant to
\* comply, whether it fits the file limit, and whether the pattern occurs in it.
Definition == [metadata : BOOLEAN, go : BOOLEAN,
               engine : {"auto", "text", "go-ast", "tree-sitter"},
               pattern : {"regexp", "malformed", "forbidden_call"}, target : BOOLEAN,
               executable : BOOLEAN,
               examples : SUBSET [compliant : BOOLEAN, fits : BOOLEAN, occurs : BOOLEAN]]

\* Rules have such columns; a document names finitely many.
ASSUME RuleAssumption ==
    /\ Definitions \subseteq Definition /\ IsFiniteSet(RuleKeys)
    /\ MaxVersions \in Nat /\ MaxRuleOps \in Nat

-----------------------------------------------------------------------------
(* Validation                                                              *)

EffectiveEngine(d) ==
    IF d.engine # "auto" THEN d.engine
    ELSE IF d.go /\ d.pattern = "forbidden_call" THEN "go-ast" ELSE "text"

\* Evaluate of a rule engine: the matches of a rule in a file, and what was said about it.
EvaluateExample(d, file) ==
    IF ~file.fits THEN [found |-> FALSE, said |-> {"warning"}]
    ELSE CASE EffectiveEngine(d) = "text" /\ d.pattern # "malformed" -> [found |-> file.occurs, said |-> {}]
           [] EffectiveEngine(d) = "go-ast" /\ d.pattern = "forbidden_call" -> [found |-> file.occurs, said |-> {}]
           [] OTHER -> [found |-> FALSE, said |-> {"error"}]

MetadataDiagnostics(key, d) == IF d.metadata /\ key \notin BundledKeys THEN {} ELSE {"error"}

\* validateRuleEngine: the web server has no runtime for tree-sitter queries.
EngineDiagnostics(d) ==
    (IF d.executable THEN {"error"} ELSE {}) \cup
    CASE EffectiveEngine(d) = "text" -> IF d.pattern = "malformed" THEN {"error"} ELSE {}
      [] EffectiveEngine(d) = "go-ast" -> IF d.go /\ d.pattern = "forbidden_call" /\ d.target THEN {} ELSE {"error"}
      [] OTHER -> (IF d.target THEN {} ELSE {"error"}) \cup {"runtime_validation_required"}

\* validateExamples: every example behaves as it says it does.
ExampleDiagnostics(d) ==
    IF d.examples = {} THEN {"error"}
    ELSE (UNION {EvaluateExample(d, x).said : x \in d.examples})
         \cup {"error" : x \in {y \in d.examples : y.compliant = EvaluateExample(d, y).found}}

StatusFromDiagnostics(said) ==
    CASE "error" \in said -> "failed"
      [] "error" \notin said /\ "runtime_validation_required" \in said -> "requires_runtime"
      [] OTHER -> "passed"

\* ValidateDefinition: examples are tried only when nothing else was found.
Validate(key, d) ==
    LET said == MetadataDiagnostics(key, d) \cup EngineDiagnostics(d)
    IN  StatusFromDiagnostics(IF said = {} THEN ExampleDiagnostics(d) ELSE said)

-----------------------------------------------------------------------------
(* Rows                                                                    *)

Draft(key, pack, version, d) ==
    [key |-> key, pack |-> pack, version |-> version, lifecycle |-> "draft",
     definition |-> d, status |-> "none", validated |-> {}]

\* Mutant of CanPublishCustomRule: the hash of the validation is not compared.
CanPublishOnceValidated(row) == row.status = "passed" /\ row.validated # {}

\* CanPublishCustomRule: it passed, and what passed is what the row says now.
CanPublishCustomRule(row) == row.status = "passed" /\ row.validated = {row.definition}

NextVersion(key) ==
    LET taken == {versions[i].version : i \in {j \in RuleIds : versions[j].key = key}}
    IN  IF taken = {} THEN 1 ELSE CHOOSE n \in 2..(MaxVersions + 1) : n - 1 \in taken /\ \A m \in taken : m < n

\* The unique constraint on (rule_key, version).
Taken(rows) == \E r \in ToSet(rows), i \in RuleIds : versions[i].key = r.key /\ versions[i].version = r.version

\* A row that the transaction of a Publish has written and not committed.
Locked(id) == \E e \in Editors : editing[e].op = "publishing" /\ id \in editing[e].others

PublishedOf(key) == {i \in RuleIds : versions[i].key = key /\ versions[i].lifecycle = "published"}

-----------------------------------------------------------------------------
(* Requests                                                                *)

Start(e, request) ==
    /\ editing[e] = NotEditing /\ ruleOps < MaxRuleOps
    /\ editing' = [editing EXCEPT ![e] = request] /\ ruleOps' = ruleOps + 1

Step(e, request) == editing' = [editing EXCEPT ![e] = request] /\ UNCHANGED ruleOps
Finish(e) == Step(e, NotEditing)

\* ImportDocument: a document with a rule that fails validation is refused; each
\* rule gets the version after the highest committed one.
ImportDocument(e, pack, doc) ==
    /\ DOMAIN doc # {} /\ \A key \in DOMAIN doc : Validate(key, doc[key]) # "failed"
    /\ LET keys == SetToSeq(DOMAIN doc)
       IN  Start(e, [op |-> "insert",
                     rows |-> [n \in DOMAIN keys |-> Draft(keys[n], pack, NextVersion(keys[n]), doc[keys[n]])]])
    /\ UNCHANGED versions

\* CreateDraft: one rule, not validated.
CreateDraft(e, pack, key, d) ==
    Start(e, [op |-> "insert", rows |-> <<Draft(key, pack, NextVersion(key), d)>>]) /\ UNCHANGED versions

\* insertRule: all rows of the request, or none.
InsertRules(e) ==
    /\ editing[e].op = "insert"
    /\ ~Taken(editing[e].rows) /\ Len(versions) + Len(editing[e].rows) <= MaxVersions
    /\ versions' = versions \o editing[e].rows /\ Finish(e)

\* UpdateDraft: what it does depends on the lifecycle it read.
UpdateDraft(e, id, d) ==
    /\ id \in RuleIds
    /\ Start(e, [op |-> IF versions[id].lifecycle = "published" THEN "branch" ELSE "rewrite",
                 id |-> id, definition |-> d])
    /\ UNCHANGED versions

\* A published rule gets a new version; its number is read before the insert.
BranchPublished(e) ==
    /\ editing[e].op = "branch"
    /\ LET row == versions[editing[e].id]
       IN  Step(e, [op |-> "insert", rows |-> <<Draft(row.key, row.pack, NextVersion(row.key), editing[e].definition)>>])
    /\ UNCHANGED versions

\* Any other is rewritten where it is, and loses its validation.
RewriteDraft(e) ==
    /\ editing[e].op = "rewrite" /\ ~Locked(editing[e].id)
    /\ versions' = [versions EXCEPT ![editing[e].id] = Draft(@.key, @.pack, @.version, editing[e].definition)]
    /\ Finish(e)

\* The Validate handler: the verdict is about the definition it read.
ValidateRule(e, id) ==
    /\ id \in RuleIds
    /\ LET row == versions[id]
       IN  Start(e, [op |-> "validated", id |-> id, definition |-> row.definition,
                     status |-> Validate(row.key, row.definition)])
    /\ UNCHANGED versions

\* StoreValidation: the verdict and the hash it was given for; whatever the
\* lifecycle was, it becomes that of the verdict.
StoreValidation(e) ==
    /\ editing[e].op = "validated" /\ ~Locked(editing[e].id)
    /\ versions' = [versions EXCEPT ![editing[e].id] =
            [@ EXCEPT !.status = editing[e].status, !.validated = {editing[e].definition},
                      !.lifecycle = CASE editing[e].status = "passed" -> "valid"
                                      [] editing[e].status = "failed" -> "invalid"
                                      [] OTHER -> "draft"]]
    /\ Finish(e)

\* Publish: the row, and that no other pack has the key published.
Publish(e, id) ==
    /\ id \in RuleIds /\ CanPublishCustomRule(versions[id]) /\ versions[id].key \notin BundledKeys
    /\ ~\E i \in PublishedOf(versions[id].key) : versions[i].pack # versions[id].pack /\ i # id
    /\ Start(e, [op |-> "publish", id |-> id])
    /\ UNCHANGED versions

\* The first statement of its transaction: the other published versions, as
\* committed now, are deprecated, and locked until the commit.
DeprecateOthers(e) ==
    /\ editing[e].op = "publish"
    /\ LET others == PublishedOf(versions[editing[e].id].key) \ {editing[e].id}
       IN  /\ \A i \in others : ~Locked(i)
           /\ Step(e, [op |-> "publishing", id |-> editing[e].id, others |-> others])
    /\ UNCHANGED versions

\* The second statement and the commit: the row is published by its id alone.
PublishCommit(e) ==
    /\ editing[e].op = "publishing"
    /\ ~\E f \in Editors \ {e} : editing[f].op = "publishing" /\ editing[e].id \in editing[f].others
    /\ versions' = [i \in RuleIds |->
            IF i = editing[e].id THEN [versions[i] EXCEPT !.lifecycle = "published"]
            ELSE IF i \in editing[e].others THEN [versions[i] EXCEPT !.lifecycle = "deprecated"]
            ELSE versions[i]]
    /\ Finish(e)

\* Disable and Deprecate, from any state.
Transition(e, id, next) ==
    /\ id \in RuleIds /\ ~Locked(id) /\ editing[e] = NotEditing
    /\ ruleOps < MaxRuleOps /\ ruleOps' = ruleOps + 1
    /\ versions' = [versions EXCEPT ![id].lifecycle = next]
    /\ UNCHANGED editing

\* A statement that fails ends the request, and rolls its transaction back.
RuleRequestFails(e) == editing[e] # NotEditing /\ Finish(e) /\ UNCHANGED versions

RuleInit == versions = <<>> /\ editing = [e \in Editors |-> NotEditing] /\ ruleOps = 0

RuleNext == \E e \in Editors :
    \/ \E pack \in Packs, keys \in SUBSET RuleKeys : \E doc \in [keys -> Definitions] : ImportDocument(e, pack, doc)
    \/ \E pack \in Packs, key \in RuleKeys, d \in Definitions : CreateDraft(e, pack, key, d)
    \/ \E id \in RuleIds, d \in Definitions : UpdateDraft(e, id, d)
    \/ \E id \in RuleIds : ValidateRule(e, id) \/ Publish(e, id)
    \/ \E id \in RuleIds, next \in {"disabled", "deprecated"} : Transition(e, id, next)
    \/ InsertRules(e) \/ BranchPublished(e) \/ RewriteDraft(e) \/ StoreValidation(e)
    \/ DeprecateOthers(e) \/ PublishCommit(e) \/ RuleRequestFails(e)

RuleSpec == RuleInit /\ [][RuleNext]_ruleVars

-----------------------------------------------------------------------------
(* Properties                                                              *)

RuleTypeOK ==
    /\ ruleOps \in 0..MaxRuleOps /\ Len(versions) <= MaxVersions
    /\ \A i \in RuleIds :
         /\ versions[i].key \in RuleKeys /\ versions[i].pack \in Packs
         /\ versions[i].version \in 1..MaxVersions /\ versions[i].lifecycle \in Lifecycles
         /\ versions[i].definition \in Definitions /\ versions[i].status \in Statuses
         /\ versions[i].validated \subseteq Definitions

\* Behaves as it says: on every example that is small enough to be looked at,
\* the rule matches exactly when the example is not compliant.
ExamplesHold(d) ==
    /\ d.examples # {} /\ ~d.executable /\ EffectiveEngine(d) # "tree-sitter"
    /\ \A x \in d.examples : IF x.fits THEN x.compliant # x.occurs ELSE x.compliant

\* A row that may be published holds its own examples, however edits and
\* validations of it overlapped: a verdict on an older text does not count.
PublishableHoldsExamples ==
    \A i \in RuleIds : CanPublishCustomRule(versions[i]) => ExamplesHold(versions[i].definition)
=============================================================================
