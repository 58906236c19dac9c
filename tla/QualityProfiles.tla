-------------------------- MODULE QualityProfiles --------------------------
(***************************************************************************)
(* Quality profiles: which rules a project's analysis applies.  A profile  *)
(* switches rules on and off and inherits from a parent; a project uses    *)
(* the profile assigned to it or the default of the language, and the      *)
(* scanner turns the answer of the server, or an exported document, into   *)
(* the policy it runs with.                                                *)
(*                                                                         *)
(* Source: ollantastore/postgres/profiles.go, domain/model/profile.go,     *)
(* ollantaweb/api/profiles_handler.go, application/scan/profiles.go.       *)
(* Every request reads in statements of its own before the one that        *)
(* writes.  Parameters of rules and the changelog are left out.            *)
(***************************************************************************)
EXTENDS Integers, Sequences, SequencesExt, FiniteSets

CONSTANTS
    Languages,      \* supported languages
    RuleLanguage,   \* the language of each rule, bundled or custom
    BundledRules,   \* keys of the bundled catalog
    Projects,       \* projects
    Stewards,       \* users that administer profiles
    MaxProfiles,    \* bound: rows of quality_profiles
    MaxProfileOps   \* bound: requests begun

ASSUME ProfileAssumption == IsFiniteSet(Languages) /\ BundledRules \subseteq DOMAIN RuleLanguage

VARIABLES
    profiles,        \* quality_profiles: the id of a row is its index; a deleted row is Gone
    activations,     \* quality_profile_rules: per profile, the severity of each rule it mentions
    projectProfiles, \* project_profiles: the profile of a project and a language, or Root
    published,       \* custom rules that have a published version
    acting,          \* the request of each steward between two of its statements
    profileOps       \* requests begun so far

profileVars == <<profiles, activations, projectProfiles, published, acting, profileOps>>
profileTables == <<profiles, activations, projectProfiles, published>>

RuleNames == DOMAIN RuleLanguage
Severities == {"major", "off", "OFF"} \* "off" in any case passes validSeverity
DefaultSeverity == "major"
Off(severity) == severity \in {"off", "OFF"}   \* strings.EqualFold

Root == 0                                      \* no parent, no profile
Gone == [language |-> "gone"]
Unoccupied == [op |-> "none"]

ProfileIds == {p \in DOMAIN profiles : profiles[p] # Gone}
Defaults(l) == {p \in ProfileIds : profiles[p].language = l /\ profiles[p].isDefault}

-----------------------------------------------------------------------------
(* Inheritance                                                             *)

Ancestry(p) == LET up[n \in 0..Len(profiles)] ==
                     IF n = 0 THEN p ELSE IF up[n - 1] = Root THEN Root ELSE profiles[up[n - 1]].parent
               IN  up

\* Walking up meets a profile twice: "cycle detected in profile inheritance".
Cyclic(p) == Ancestry(p)[Len(profiles)] # Root

\* inheritanceDepth.
Depth(p) == Cardinality({n \in 0..Len(profiles) : Ancestry(p)[n] # Root})

\* Mutant of Chain: the chain is not turned around, so the root comes last.
ChainLeafFirst(p) == [i \in 1..Depth(p) |-> Ancestry(p)[i - 1]]

\* buildInheritanceChain: root first.
Chain(p) == [i \in 1..Depth(p) |-> Ancestry(p)[Depth(p) - i]]

\* mergeEffectiveRule.
EffectiveRule(p, leaf, severity, overrides) ==
    [severity |-> severity, source |-> p,
     origin |-> CASE severity = "OFF" -> "disabled"
                  [] severity # "OFF" /\ p # leaf -> "inherited"
                  [] OTHER -> IF overrides THEN "overridden" ELSE "local"]

\* mergeProfileRules: what a profile mentions replaces what came before.
MergeProfileRules(merged, p, leaf) ==
    [r \in DOMAIN merged \cup DOMAIN activations[p] |->
        IF r \in DOMAIN activations[p]
        THEN EffectiveRule(p, leaf, activations[p][r], r \in DOMAIN merged) ELSE merged[r]]

\* ResolveEffectiveRules walks from the root to the leaf: an entry of a child replaces its parent's.
Merging(p) == LET merged[n \in 0..Depth(p)] ==
                      IF n = 0 THEN <<>> ELSE MergeProfileRules(merged[n - 1], Chain(p)[n], p)
              IN  merged
ResolveEffectiveRules(p) == Merging(p)[Depth(p)]

\* What is applied: keys and severities of the rules that are on.
Active(rules) == {<<r, rules[r].severity>> : r \in {s \in DOMAIN rules : ~Off(rules[s].severity)}}

-----------------------------------------------------------------------------
(* The profile of a project, and the policy of its scanner                 *)

\* projectProfile: the assigned one, else a default: a built-in first, then the lowest id.
ProjectProfile(project, l) ==
    LET assigned == projectProfiles[project, l]
        first == IF \E p \in Defaults(l) : profiles[p].isBuiltin
                 THEN {p \in Defaults(l) : profiles[p].isBuiltin} ELSE Defaults(l)
    IN  IF assigned # Root THEN assigned
        ELSE IF first = {} THEN Root ELSE CHOOSE p \in first : \A q \in first : p <= q

\* ProjectEffectiveProfiles: a language without a default has no rules; a cycle
\* in any language fails the request.
EffectiveProfile(project, l) ==
    IF ProjectProfile(project, l) = Root THEN {} ELSE Active(ResolveEffectiveRules(ProjectProfile(project, l)))
ServerAnswers(project) ==
    \A l \in Languages : ProjectProfile(project, l) = Root \/ ~Cyclic(ProjectProfile(project, l))

\* builtinEffectiveProfiles: the bundled rules of the language.
BuiltinPolicy(l) == {<<r, DefaultSeverity>> : r \in {s \in BundledRules : RuleLanguage[s] = l}}

\* resolveServerProfilePolicy: without the answer, unless strict, the built-in policy.
ServerPolicy(project, l) == IF ServerAnswers(project) THEN EffectiveProfile(project, l) ELSE BuiltinPolicy(l)

\* Export: the effective rules as a document.
Export(p) == LET rules == ResolveEffectiveRules(p)
             IN  {[key |-> r, severity |-> rules[r].severity, active |-> ~Off(rules[r].severity)] : r \in DOMAIN rules}

\* documentLanguageProfile: a rule that is unknown, or of another language, fails the document.
DocumentAccepted(l, doc) ==
    \A entry \in doc : entry.key \in BundledRules \cup published /\ RuleLanguage[entry.key] = l
DocumentRules(doc) == {<<entry.key, entry.severity>> : entry \in {x \in doc : x.active /\ ~Off(x.severity)}}

\* resolveLocalProfilePolicy.
LocalPolicy(l, doc) == IF DocumentAccepted(l, doc) THEN DocumentRules(doc) ELSE BuiltinPolicy(l)

-----------------------------------------------------------------------------
(* Requests                                                                *)

Undertake(u, request) ==
    /\ acting[u] = Unoccupied /\ profileOps < MaxProfileOps
    /\ acting' = [acting EXCEPT ![u] = request] /\ profileOps' = profileOps + 1

Proceed(u, request) == acting' = [acting EXCEPT ![u] = request] /\ UNCHANGED profileOps
Complete(u) == Proceed(u, Unoccupied)

Profile(name, l, parent, isDefault, isBuiltin) ==
    [name |-> name, language |-> l, parent |-> parent, isDefault |-> isDefault, isBuiltin |-> isBuiltin]

\* Create and Update: the chain of the parent, which may be of any language,
\* must be shorter than three; the profile's own children are not looked at.
ParentAccepted(parent) == parent = Root \/ (parent \in ProfileIds /\ ~Cyclic(parent) /\ Depth(parent) < 3)

\* UNIQUE (name, language); only the name of the built-in profiles matters.
NameTaken(name, l, except) ==
    name = "Ollanta Way" /\ \E p \in ProfileIds \ {except} : profiles[p].name = name /\ profiles[p].language = l

ParentPresent(parent) == parent = Root \/ parent \in ProfileIds

CreateProfile(u, name, l, parent, isDefault) ==
    /\ ParentAccepted(parent)
    /\ Undertake(u, [op |-> "create", row |-> Profile(name, l, parent, isDefault, FALSE)])
    /\ UNCHANGED profileTables

InsertRow(row) ==
    /\ Len(profiles) < MaxProfiles /\ ~NameTaken(row.name, row.language, Root) /\ ParentPresent(row.parent)
    /\ profiles' = Append(profiles, row) /\ activations' = Append(activations, <<>>)
    /\ UNCHANGED <<projectProfiles, published>>

InsertProfile(u) == acting[u].op = "create" /\ InsertRow(acting[u].row) /\ Complete(u)

\* Update: that the profile is not built in is taken from the request, so any row may be meant.
UpdateProfile(u, p, name, parent, isDefault) ==
    /\ ParentAccepted(parent)
    /\ Undertake(u, [op |-> "update", profile |-> p, name |-> name, parent |-> parent, isDefault |-> isDefault])
    /\ UNCHANGED profileTables

UpdateRow(u) ==
    LET new == acting[u]
    IN  /\ new.op = "update" /\ new.profile \in ProfileIds /\ ParentPresent(new.parent)
        /\ ~NameTaken(new.name, profiles[new.profile].language, new.profile)
        /\ profiles' = [profiles EXCEPT ![new.profile] =
                            Profile(new.name, @.language, new.parent, new.isDefault, @.isBuiltin)]
        /\ Complete(u) /\ UNCHANGED <<activations, projectProfiles, published>>

\* Mutant of DeleteProfile: children keep the deleted profile as their parent.
DeleteProfileOnly(p) ==
    /\ p \in ProfileIds /\ ~profiles[p].isBuiltin
    /\ profileOps < MaxProfileOps /\ profileOps' = profileOps + 1
    /\ profiles' = [profiles EXCEPT ![p] = Gone]
    /\ activations' = [activations EXCEPT ![p] = <<>>]
    /\ projectProfiles' = [x \in DOMAIN projectProfiles |-> IF projectProfiles[x] = p THEN Root ELSE projectProfiles[x]]
    /\ UNCHANGED <<published, acting>>

\* Delete: not a built-in profile; children lose their parent, projects their assignment.
DeleteProfile(p) ==
    /\ p \in ProfileIds /\ ~profiles[p].isBuiltin
    /\ profileOps < MaxProfileOps /\ profileOps' = profileOps + 1
    /\ profiles' = [q \in DOMAIN profiles |->
            IF q = p THEN Gone
            ELSE IF profiles[q] # Gone /\ profiles[q].parent = p THEN [profiles[q] EXCEPT !.parent = Root] ELSE profiles[q]]
    /\ activations' = [activations EXCEPT ![p] = <<>>]
    /\ projectProfiles' = [x \in DOMAIN projectProfiles |-> IF projectProfiles[x] = p THEN Root ELSE projectProfiles[x]]
    /\ UNCHANGED <<published, acting>>

\* SetDefault: the language is read, then one statement sets this and clears the others.
SetDefault(u, p) ==
    /\ p \in ProfileIds
    /\ Undertake(u, [op |-> "default", profile |-> p, language |-> profiles[p].language])
    /\ UNCHANGED profileTables

SetDefaultRow(u) ==
    /\ acting[u].op = "default"
    /\ profiles' = [p \in DOMAIN profiles |->
            IF profiles[p] # Gone /\ profiles[p].language = acting[u].language
            THEN [profiles[p] EXCEPT !.isDefault = (p = acting[u].profile)] ELSE profiles[p]]
    /\ Complete(u) /\ UNCHANGED <<activations, projectProfiles, published>>

\* validateRuleActivation: an unknown rule may only be switched off.
ActivationAccepted(l, r, severity) ==
    IF r \in BundledRules \cup published THEN RuleLanguage[r] = l ELSE Off(severity)

\* ActivateRule and, with OFF, DeactivateRule.
ActivateRule(u, p, r, severity) ==
    /\ p \in ProfileIds /\ ActivationAccepted(profiles[p].language, r, severity)
    /\ Undertake(u, [op |-> "rules", profile |-> p, rules |-> [s \in {r} |-> severity]])
    /\ UNCHANGED profileTables

\* profileCodeRuleActive and applyProfileRuleEntry: an entry that is off is stored as OFF.
Imported(doc) == [r \in {x.key : x \in doc} |->
    LET entry == CHOOSE x \in doc : x.key = r IN IF entry.active /\ ~Off(entry.severity) THEN entry.severity ELSE "OFF"]

\* Import: the entries are validated one by one and applied in one transaction.
ImportProfile(u, p, doc) ==
    /\ p \in ProfileIds /\ doc # {}
    /\ \A x, y \in doc : x.key = y.key => x = y
    /\ \A r \in DOMAIN Imported(doc) : ActivationAccepted(profiles[p].language, r, Imported(doc)[r])
    /\ Undertake(u, [op |-> "rules", profile |-> p, rules |-> Imported(doc)])
    /\ UNCHANGED profileTables

\* Rows of the profile are inserted or overwritten; the others stay.
Overwrite(old, new) == [r \in DOMAIN old \cup DOMAIN new |-> IF r \in DOMAIN new THEN new[r] ELSE old[r]]

StoreRules(u) ==
    /\ acting[u].op = "rules" /\ acting[u].profile \in ProfileIds
    /\ activations' = [activations EXCEPT ![acting[u].profile] = Overwrite(@, acting[u].rules)]
    /\ Complete(u) /\ UNCHANGED <<profiles, projectProfiles, published>>

\* Copy: a profile with the parent of the source, then its rules one at a time.
CopyProfile(u, p) ==
    /\ p \in ProfileIds /\ ParentAccepted(profiles[p].parent)
    /\ Undertake(u, [op |-> "copy", source |-> p,
                     row |-> Profile("other", profiles[p].language, profiles[p].parent, FALSE, FALSE)])
    /\ UNCHANGED profileTables

InsertCopy(u) ==
    /\ acting[u].op = "copy" /\ InsertRow(acting[u].row)
    /\ Proceed(u, [op |-> "copied", source |-> acting[u].source, profile |-> Len(profiles) + 1])

ReadRules(u) ==
    /\ acting[u].op = "copied" /\ UNCHANGED profileTables
    /\ LET rules == activations[acting[u].source]
       IN  Proceed(u, [op |-> "copying", profile |-> acting[u].profile, rules |-> rules, left |-> DOMAIN rules])

\* Mutant of CopyRule: a rule that cannot be activated is skipped.
CopyRuleOrSkip(u, r) ==
    /\ acting[u].op = "copying"
    /\ LET p == acting[u].profile
       IN  /\ r \in acting[u].left /\ p \in ProfileIds
           /\ activations' = IF ActivationAccepted(profiles[p].language, r, acting[u].rules[r])
                             THEN [activations EXCEPT ![p] = Overwrite(@, [s \in {r} |-> acting[u].rules[r]])] ELSE activations
           /\ Proceed(u, [acting[u] EXCEPT !.left = @ \ {r}])
    /\ UNCHANGED <<profiles, projectProfiles, published>>

CopyRule(u, r) ==
    /\ acting[u].op = "copying"
    /\ LET p == acting[u].profile
       IN  /\ r \in acting[u].left /\ p \in ProfileIds
           /\ ActivationAccepted(profiles[p].language, r, acting[u].rules[r])
           /\ activations' = [activations EXCEPT ![p] = Overwrite(@, [s \in {r} |-> acting[u].rules[r]])]
           /\ Proceed(u, [acting[u] EXCEPT !.left = @ \ {r}])
    /\ UNCHANGED <<profiles, projectProfiles, published>>

CopyDone(u) ==
    acting[u].op = "copying" /\ acting[u].left = {} /\ Complete(u) /\ UNCHANGED profileTables

\* AssignToProject: the language of the profile is read before the upsert.
AssignToProject(u, project, l, p) ==
    /\ p \in ProfileIds /\ profiles[p].language = l
    /\ Undertake(u, [op |-> "assign", project |-> project, language |-> l, profile |-> p])
    /\ UNCHANGED profileTables

AssignRow(u) ==
    /\ acting[u].op = "assign" /\ acting[u].profile \in ProfileIds
    /\ projectProfiles' = [projectProfiles EXCEPT ![<<acting[u].project, acting[u].language>>] = acting[u].profile]
    /\ Complete(u) /\ UNCHANGED <<profiles, activations, published>>

\* Only where the language has no default.
DefaultAfterSync(l, p) ==
    /\ profiles[p].language = l
    /\ profiles[p].isDefault \/ (profiles[p].name = "Ollanta Way" /\ Defaults(l) = {})

\* SyncBuiltInProfiles, when the server starts: every language has a profile
\* 'Ollanta Way' with the bundled rules as they come.
SyncBuiltInProfiles ==
    LET missing == SetToSeq({l \in Languages : ~NameTaken("Ollanta Way", l, Root)})
        row(l) == Profile("Ollanta Way", l, Root, TRUE, TRUE)
        kept == [p \in DOMAIN profiles |-> IF profiles[p] = Gone THEN Gone
                    ELSE [profiles[p] EXCEPT !.isBuiltin = @ \/ profiles[p].name = "Ollanta Way",
                                             !.isDefault = DefaultAfterSync(profiles[p].language, p)]]
        rows == kept \o [n \in DOMAIN missing |-> row(missing[n])]
        bundled(l) == [r \in {s \in BundledRules : RuleLanguage[s] = l} |-> DefaultSeverity]
    IN  /\ Len(rows) <= MaxProfiles
        /\ profiles' = rows
        /\ activations' = [p \in DOMAIN rows |->
                LET old == IF p \in DOMAIN activations THEN activations[p] ELSE <<>>
                IN  IF rows[p] # Gone /\ rows[p].name = "Ollanta Way" THEN Overwrite(old, bundled(rows[p].language)) ELSE old]
        /\ UNCHANGED <<projectProfiles, published, acting, profileOps>>

\* A custom rule is published or retired, see CustomRules.
CustomRuleChanges(r) ==
    /\ published' = IF r \in published THEN published \ {r} ELSE published \cup {r}
    /\ UNCHANGED <<profiles, activations, projectProfiles, acting, profileOps>>

\* A statement that fails ends the request; what a copy has stored stays.
ProfileRequestFails(u) == acting[u] # Unoccupied /\ Complete(u) /\ UNCHANGED profileTables

ProfileInit ==
    /\ profiles = [n \in 1..Cardinality(Languages) |-> Profile("Ollanta Way", SetToSeq(Languages)[n], Root, TRUE, TRUE)]
    /\ activations = [n \in 1..Cardinality(Languages) |-> <<>>]
    /\ projectProfiles = [x \in Projects \X Languages |-> Root]
    /\ published = {} /\ acting = [u \in Stewards |-> Unoccupied] /\ profileOps = 0

ProfileNext ==
    \/ SyncBuiltInProfiles \/ \E p \in ProfileIds : DeleteProfile(p)
    \/ \E r \in RuleNames \ BundledRules : CustomRuleChanges(r)
    \/ \E u \in Stewards :
        \/ \E l \in Languages, q \in ProfileIds \cup {Root}, b \in BOOLEAN : CreateProfile(u, "other", l, q, b)
        \/ \E p \in ProfileIds, q \in ProfileIds \cup {Root}, b \in BOOLEAN, name \in {"other", "Ollanta Way"} :
              (name = profiles[p].name \/ profiles[p].isBuiltin) /\ UpdateProfile(u, p, name, q, b)
        \/ \E p \in ProfileIds : SetDefault(u, p) \/ CopyProfile(u, p)
        \/ \E p \in ProfileIds, r \in RuleNames, s \in Severities : ActivateRule(u, p, r, s)
        \/ \E p, q \in ProfileIds : ~Cyclic(q) /\ ImportProfile(u, p, Export(q))
        \/ \E project \in Projects, l \in Languages, p \in ProfileIds : AssignToProject(u, project, l, p)
        \/ InsertProfile(u) \/ UpdateRow(u) \/ SetDefaultRow(u) \/ StoreRules(u)
        \/ InsertCopy(u) \/ ReadRules(u) \/ CopyDone(u) \/ \E r \in RuleNames : CopyRule(u, r)
        \/ AssignRow(u) \/ ProfileRequestFails(u)

ProfileSpec == ProfileInit /\ [][ProfileNext]_profileVars

-----------------------------------------------------------------------------
(* Properties                                                              *)

\* The tables and their references: a parent exists, a project's profile exists
\* and is of the language it is used for, whatever was deleted meanwhile.
ReferencesLead ==
    /\ \A p \in ProfileIds : profiles[p].language \in Languages /\ profiles[p].parent \in ProfileIds \cup {Root}
    /\ \A x \in DOMAIN projectProfiles :
         projectProfiles[x] # Root => projectProfiles[x] \in ProfileIds /\ profiles[projectProfiles[x]].language = x[2]

ProfileTypeOK ==
    /\ ReferencesLead
    /\ DOMAIN activations = DOMAIN profiles /\ published \subseteq RuleNames \ BundledRules
    /\ \A p \in ProfileIds :
         /\ DOMAIN activations[p] \subseteq RuleNames
         /\ \A r \in DOMAIN activations[p] : activations[p][r] \in Severities

\* A rule is applied as the nearest profile up the chain that mentions it says.
Nearest(p, r) ==
    LET up == Ancestry(p)
        n == CHOOSE i \in 0..Len(profiles) : /\ up[i] # Root /\ r \in DOMAIN activations[up[i]]
                                             /\ \A j \in 0..(i - 1) : r \notin DOMAIN activations[up[j]]
    IN  up[n]
EffectiveIsNearest ==
    \A p \in ProfileIds : ~Cyclic(p) =>
        LET rules == ResolveEffectiveRules(p)
        IN  /\ DOMAIN rules = UNION {DOMAIN activations[q] : q \in ToSet(Chain(p))}
            /\ \A r \in DOMAIN rules : /\ rules[r].source = Nearest(p, r)
                                       /\ rules[r].severity = activations[Nearest(p, r)][r]

\* A copy that is answered with success holds every rule the source had when
\* its rules were read, unless someone has changed the copy meanwhile.
CopyIsWhole ==
    [][\A u \in Stewards : CopyDone(u) =>
        \A r \in DOMAIN acting[u].rules :
            acting[u].profile \in ProfileIds => r \in DOMAIN activations[acting[u].profile]]_profileVars

\* A scanner that runs with a document exported from a profile applies the same
\* rules as one that asks the server for it, if it knows the rules.
ExportKeepsPolicy ==
    \A project \in Projects, l \in Languages :
        LET p == ProjectProfile(project, l)
        IN  (p # Root /\ ServerAnswers(project) /\ DocumentAccepted(l, Export(p))) =>
                LocalPolicy(l, Export(p)) = ServerPolicy(project, l)

\* Whoever asks for the policy of a project, the server or a scanner with an
\* exported document, gets the decisions of the nearest profiles.
PolicyIsNearest == EffectiveIsNearest /\ ExportKeepsPolicy
=============================================================================
