---------------------------- MODULE RuleAssistant ----------------------------
(* Drafts of custom rules that a language model suggests: which providers the *)
(* studio offers, what it asks them, and what it makes of their answers       *)
(* (ollantaweb/api/custom_rules_ai_handler.go).                               *)
EXTENDS Integers, SequencesExt

CONSTANTS
    AIKeys,          \* the cloud providers whose key is in the environment
    ModelList,     \* per cloud provider, the models listed in the environment, <<>> when not set
    ChosenModel,   \* per provider, the model chosen there, "" when not set
    OpenAIStyle,   \* OLLANTA_AI_OPENAI_API, lower-case
    OpenAIIsDefault, \* whether the base URL is the default one
    MockIsEnabled,
    Lowercase,     \* the lower case of the values that are written with capitals
    DraftRequests, \* what users ask for
    DraftReplies,  \* what the content of an answer says, when it is a JSON object with a draft
    Installed      \* the lists of models that Ollama may have

VARIABLES
    menu,    \* the providers the studio looked at and offers
    request, \* the request for a draft that is under way
    result   \* what became of the last one

assistantVars == <<menu, request, result>>

CloudProviders == {"openai", "anthropic", "kimi", "qwen"}

ASSUME ModelAssumption == (\A p \in CloudProviders : ModelList[p] \in Seq(STRING)) /\ Installed \subseteq Seq(STRING)

Providers == <<"openai", "anthropic", "kimi", "qwen", "ollama">>
Blank(v) == v \in {"", " "}
First(values) == LET said == {i \in DOMAIN values : ~Blank(values[i])} IN IF said = {} THEN "" ELSE values[Min(said)]
\* The values that are not blank, each where it comes first.
Distinct(values) ==
    LET news == {i \in DOMAIN values : ~Blank(values[i]) /\ \A j \in 1..(i - 1) : values[j] # values[i]}
    IN  [k \in 1..Cardinality(news) |-> values[CHOOSE i \in news : Cardinality({j \in news : j <= i}) = k]]

-----------------------------------------------------------------------------
(* The menu of providers                                                     *)

Fallback == [openai |-> <<"gpt-5.5", "gpt-5.4">>, anthropic |-> <<"claude-opus", "claude-sonnet">>,
             kimi |-> <<"kimi-k2.6">>, qwen |-> <<"qwen3.6-max">>]
DefaultModel == [openai |-> "gpt-5.5", anthropic |-> "claude-sonnet", kimi |-> "kimi-k2.6", qwen |-> "qwen3.6-max"]

CloudDefault(p) == First(<<ChosenModel[p], DefaultModel[p]>>)
CloudModels(p) ==
    LET listed == Distinct(ModelList[p])
        models == IF listed = <<>> THEN Fallback[p] ELSE listed
    IN  IF CloudDefault(p) \in ToSet(models) THEN models ELSE <<CloudDefault(p)>> \o models
Option(p, status, models, default) ==
    [id |-> p, status |-> status, models |-> models, default |-> default, setup |-> status # "connected"]

\* The probe of a cloud provider asks for its models, within two seconds.
CloudProvider(p, answer) ==
    Option(p, IF p \notin AIKeys \/ answer = "unauthorized" THEN "setup_required"
              ELSE IF answer = "ok" THEN "connected" ELSE "unavailable", CloudModels(p), CloudDefault(p))
\* In an order of their own, not the one they were answered in.
OllamaModels(installed) == SetToSeq({v \in ToSet(installed) : ~Blank(v)})
OllamaProvider(answer, installed) ==
    LET models == OllamaModels(installed)
    IN  IF answer # "ok" THEN Option("ollama", "unavailable", <<>>, "")
        ELSE IF models = <<>> THEN Option("ollama", "setup_required", <<>>, "")
        ELSE Option("ollama", "connected", models,
                    IF ChosenModel["ollama"] \in ToSet(models) THEN ChosenModel["ollama"] ELSE Head(models))
MockProvider == Option("mock", "connected", <<"deterministic">>, "deterministic")

OpenMenu ==
    /\ menu.todo = <<>> /\ request.provider = ""
    /\ menu' = [todo |-> Providers, options |-> <<>>]
    /\ UNCHANGED <<request, result>>
Probe ==
    /\ menu.todo # <<>>
    /\ \E answer \in {"ok", "unauthorized", "other", "none"}, installed \in Installed :
        LET p == Head(menu.todo)
            option == IF p = "ollama" THEN OllamaProvider(answer, installed) ELSE CloudProvider(p, answer)
        IN  menu' = [todo |-> Tail(menu.todo),
                     options |-> Append(menu.options, option) \o IF Len(menu.todo) = 1 /\ MockIsEnabled THEN <<MockProvider>> ELSE <<>>]
    /\ UNCHANGED <<request, result>>

-----------------------------------------------------------------------------
(* Drafts                                                                    *)

\* A draft is a function of the fields it has; the others are empty.
Field(draft, f) == IF f \in DOMAIN draft THEN draft[f] ELSE ""
Lower(v) == IF v \in DOMAIN Lowercase THEN Lowercase[v] ELSE v
Allowed(v, allowed, fallback) == IF Lower(v) \in allowed THEN Lower(v) ELSE fallback
Languages == {"go", "javascript", "typescript", "python", "rust"}
IssueTypes == {"code_smell", "bug", "vulnerability", "security_hotspot"}
Severities == {"blocker", "critical", "major", "minor", "info"}
Engines == {"text", "go-ast", "tree-sitter"}
DefaultPattern == "panic|debugger|TODO"

\* What the code compares with is in lower case itself.
ASSUME LowercaseAssumption == DOMAIN Lowercase \cap (Languages \cup IssueTypes \cup Severities \cup Engines) = {}

\* A title is never blank, whatever words it is made of. The slug of a name of symbols is empty, the one
\* of a title is not.
Title == "Detect it"
Slug(name) == IF name = "!!!" THEN "" ELSE "slug"
ExampleOf(language, engine, noncompliant, pattern) ==
    CASE engine = "go-ast" -> IF noncompliant THEN "calls fmt.Println" ELSE "calls println"
      [] engine # "go-ast" /\ language \in {"javascript", "typescript"} ->
            IF ~noncompliant THEN "returns true" ELSE IF pattern = "console.log" THEN "calls console.log" ELSE "has debugger"
      [] OTHER -> IF noncompliant THEN "calls panic" ELSE "calls println"

MockSuggestion(req) ==
    LET Current(f, default) == First(<<Field(req.current, f), default>>)
        console == req.intent = "console"
        name == Current("name", Title)
        engine == Current("engine", "text")
        language == Current("language", IF console THEN "javascript" ELSE "go")
        pattern == Current("text_pattern", IF console THEN "console.log" ELSE DefaultPattern)
    IN  [name |-> name, rule_id |-> Current("rule_id", Slug(name)), language |-> language, engine |-> engine,
         type |-> Current("type", "code_smell"), severity |-> Current("severity", "major"), text_pattern |-> pattern,
         go_ast_pattern |-> Current("go_ast_pattern", "forbidden_call"), target |-> Current("target", "fmt.Println"),
         tree_sitter_query |-> Field(req.current, "tree_sitter_query"),
         noncompliant_example |-> Current("noncompliant_example", ExampleOf(language, engine, TRUE, pattern)),
         compliant_example |-> Current("compliant_example", ExampleOf(language, engine, FALSE, pattern))]

\* Mutant of EnginePattern: a query that the provider filled in is kept whatever the engine.
EnginePatternKept(engine, pattern, query, target) ==
    [text_pattern |-> IF engine # "text" THEN "" ELSE IF pattern = "" THEN DefaultPattern ELSE pattern,
     tree_sitter_query |-> IF engine = "tree-sitter" /\ query = "" THEN "(identifier) @name" ELSE query,
     target |-> IF engine = "go-ast" /\ target = "" THEN "fmt.Println" ELSE target]
EnginePattern(engine, pattern, query, target) ==
    [text_pattern |-> IF engine # "text" THEN "" ELSE IF pattern = "" THEN DefaultPattern ELSE pattern,
     tree_sitter_query |-> IF engine # "tree-sitter" THEN "" ELSE IF query = "" THEN "(identifier) @name" ELSE query,
     target |-> IF engine = "go-ast" /\ target = "" THEN "fmt.Println" ELSE target]

NormalizeSuggestion(s, req) ==
    LET Said(f, default) == First(<<Field(s, f), Field(req.current, f), default>>)
        name == First(<<Field(s, "name"), Title>>)
        engine == Allowed(Said("engine", "text"), Engines, "text")
        language == IF engine = "go-ast" THEN "go" ELSE Allowed(Said("language", "go"), Languages, "go")
        patterns == EnginePattern(engine, Said("text_pattern", ""), Said("tree_sitter_query", ""), Said("target", ""))
    IN  [name |-> name, rule_id |-> Said("rule_id", Slug(name)), language |-> language, engine |-> engine,
         type |-> Allowed(Said("type", "code_smell"), IssueTypes, "code_smell"),
         severity |-> Allowed(Said("severity", "major"), Severities, "major"),
         go_ast_pattern |-> Allowed(Said("go_ast_pattern", "forbidden_call"), {"forbidden_call", "forbidden_import"}, "forbidden_call"),
         noncompliant_example |-> Said("noncompliant_example", ExampleOf(language, engine, TRUE, patterns.text_pattern)),
         compliant_example |-> Said("compliant_example", ExampleOf(language, engine, FALSE, patterns.text_pattern)),
         text_pattern |-> patterns.text_pattern, tree_sitter_query |-> patterns.tree_sitter_query, target |-> patterns.target]

-----------------------------------------------------------------------------
(* Asking a provider                                                         *)

IdleDraft == [provider |-> ""]
NoDraft(reason, p) == [kind |-> "failed", reason |-> reason, provider |-> p]
Drafts(s, req) == [kind |-> "draft", draft |-> NormalizeSuggestion(s, req), said |-> s, current |-> req.current]

\* The way of asking: openai has two, kimi and qwen speak like its chat.
APIStyle(p) ==
    CASE p \in {"anthropic", "ollama"} -> p
      [] p \in {"kimi", "qwen"} -> "chat"
      [] p = "openai" -> IF OpenAIStyle \in {"responses", "response"} THEN "responses"
                         ELSE IF OpenAIStyle \in {"chat", "chat_completions", "chat-completions"} THEN "chat"
                         ELSE IF OpenAIIsDefault THEN "responses" ELSE "chat"

\* The text of an answer, from the texts it has in order: the first, or the first that is not blank.
OutputText(style, texts) ==
    IF style \in {"chat", "ollama"} THEN IF texts = <<>> THEN "" ELSE Head(texts)
    ELSE First(texts)

\* From the first brace to the last one; of several objects that is no object.
Decodes(text) == text \in {"object", "fenced object"}

AskForDraft(req) ==
    /\ request = IdleDraft /\ menu.todo = <<>>
    /\ LET p == Lower(req.provider)
       IN  IF Blank(req.intent) \/ Blank(req.provider) \/ Blank(req.model) THEN request' = request /\ result' = NoDraft("incomplete", p)
           ELSE IF p = "mock" THEN request' = request /\ result' = Drafts(MockSuggestion(req), req)
           ELSE IF p \notin ToSet(Providers) THEN request' = request /\ result' = NoDraft("unsupported", p)
           ELSE IF p \in CloudProviders \ AIKeys THEN request' = request /\ result' = NoDraft("key", p)
           ELSE request' = [req EXCEPT !.provider = p] /\ result' = result
    /\ UNCHANGED menu
ProviderAnswers(replies) ==
    /\ request # IdleDraft
    /\ \E texts \in {<<>>, <<"">>, <<"prose">>, <<"object">>, <<"", "fenced object">>, <<"two objects">>}, draft \in replies :
        result' = IF Decodes(OutputText(APIStyle(request.provider), texts)) THEN Drafts(draft, request) ELSE NoDraft("answer", request.provider)
    /\ request' = IdleDraft
    /\ UNCHANGED menu
\* It cannot be reached in 60 seconds, or answers with another status.
ProviderFails ==
    /\ request # IdleDraft
    /\ result' = NoDraft("provider", request.provider) /\ request' = IdleDraft
    /\ UNCHANGED menu

AssistantInit == menu = [todo |-> <<>>, options |-> <<>>] /\ request = IdleDraft /\ result = NoDraft("none", "")
DraftStep(requests, replies) == (\E req \in requests : AskForDraft(req)) \/ ProviderAnswers(replies) \/ ProviderFails
AssistantNext == OpenMenu \/ Probe \/ DraftStep(DraftRequests, DraftReplies)

AssistantSpec == AssistantInit /\ [][AssistantNext]_assistantVars

-----------------------------------------------------------------------------
(* Properties                                                                *)

AssistantTypeOK ==
    /\ \A k \in DOMAIN menu.options : menu.options[k].status \in {"connected", "setup_required", "unavailable"}
    /\ result.kind \in {"failed", "draft"}

\* A provider that is offered as connected has the model it proposes, and does not refuse a draft for want
\* of a key.
MenuIsTrue ==
    \A k \in DOMAIN menu.options :
        LET o == menu.options[k]
        IN  o.status = "connected" => o.default \in ToSet(o.models) /\ result # NoDraft("key", o.id)

\* Whatever a provider answers, the studio gets a draft that custom rules can hold: known values, the pattern
\* of its engine and no other one, two examples, and where all of it is the studio's own the example that
\* should match does.
DraftIsWhole ==
    result.kind = "draft" =>
        LET d == result.draft
            own == \A f \in {"text_pattern", "target", "noncompliant_example", "go_ast_pattern", "engine"} :
                       Blank(Field(result.said, f)) /\ Blank(Field(result.current, f))
        IN  /\ d.language \in Languages /\ d.type \in IssueTypes /\ d.severity \in Severities
            /\ CASE d.engine = "text" -> d.text_pattern # "" /\ d.tree_sitter_query = ""
                 [] d.engine = "go-ast" -> d.language = "go" /\ d.target # "" /\ <<d.text_pattern, d.tree_sitter_query>> = <<"", "">>
                 [] d.engine = "tree-sitter" -> d.tree_sitter_query # "" /\ d.text_pattern = ""
            /\ d.noncompliant_example # "" /\ d.compliant_example # "" /\ d.name # ""
            /\ own => d.noncompliant_example \in {"calls panic", "has debugger"}

StudioDrafts == AssistantTypeOK /\ MenuIsTrue /\ DraftIsWhole
=============================================================================
