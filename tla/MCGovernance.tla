---------------------------- MODULE MCGovernance ----------------------------
(* What the stewards of an instance administer: tags, custom rules, quality  *)
(* profiles, quality gates. The four share no table, so each behaviour moves *)
(* one of them.                                                              *)
EXTENDS TagGovernance, CustomRules, QualityProfiles, QualityGates

\* Custom rules: two that are sound or not depending on the engine, and one
\* that no engine of the server runs.
Example(compliant, fits, occurs) == [compliant |-> compliant, fits |-> fits, occurs |-> occurs]
DefinitionOf(engine, pattern, examples) ==
    [metadata |-> TRUE, go |-> TRUE, engine |-> engine, pattern |-> pattern, target |-> TRUE,
     executable |-> FALSE, examples |-> examples]
MCDefinitions ==
    {DefinitionOf("text", "regexp", {Example(FALSE, TRUE, TRUE)}),
     DefinitionOf("auto", "forbidden_call", {Example(FALSE, TRUE, TRUE), Example(TRUE, TRUE, TRUE)}),
     DefinitionOf("tree-sitter", "regexp", {})}

MCRuleLanguage == [r \in {"b1", "c1"} |-> "go"]

MCConditions ==
    {[metric |-> "bugs", op |-> "gte", threshold |-> 2, warning |-> {1}, onNewCode |-> FALSE],
     [metric |-> "bugs", op |-> "gt", threshold |-> 0, warning |-> {}, onNewCode |-> TRUE],
     [metric |-> "tests", op |-> "lt", threshold |-> 1, warning |-> {}, onNewCode |-> FALSE]}
MCPayloads ==
    {[bugs |-> b, lines |-> 5, covered |-> FALSE, coverage |-> 0, tests |-> 0, suites |-> b = 1] : b \in {1, 2}}

\* No scan of the branch, or three on days that do not decrease.
MCHistories ==
    LET Analysis(id, day) == [id |-> id, release |-> FALSE, branch |-> "main", day |-> day]
    IN  {<<>>} \cup {[i \in 1..3 |-> Analysis(4 - i, 10 - ago[i])] :
                        ago \in {a \in [1..3 -> 0..3] : a[1] = 0 /\ a[2] <= a[3]}}

VARIABLE area \* what is administered


GovernanceInit ==
    /\ area \in {"tags", "rules", "profiles", "gates"}
    /\ TagInit /\ RuleInit /\ ProfileInit /\ GateInit

GovernanceNext ==
    /\ UNCHANGED area
    /\ \/ area = "tags" /\ TagNext /\ UNCHANGED <<ruleVars, profileVars, gateVars>>
       \/ area = "rules" /\ RuleNext /\ UNCHANGED <<tagVars, profileVars, gateVars>>
       \/ area = "profiles" /\ ProfileNext /\ UNCHANGED <<tagVars, ruleVars, gateVars>>
       \/ area = "gates" /\ GateNext /\ UNCHANGED <<tagVars, ruleVars, profileVars>>

GovernanceSpec == GovernanceInit /\ [][GovernanceNext]_<<area, tagVars, ruleVars, profileVars, gateVars>>

\* Every table and every request in progress holds what its declaration says.
GovernanceTypesOK == TagTypeOK /\ RuleTypeOK /\ ProfileTypeOK /\ GateTypeOK
=============================================================================
