---------------------------- MODULE MCServer ----------------------------
(* The parts of the server processes, one at a time: ingestion, start-up, the *)
(* view of the background tasks, the studio's drafts, and the metrics.       *)
EXTENDS MCIngestPipeline, Startup, BackgroundTasks, RuleAssistant, Telemetry

-----------------------------------------------------------------------------
(* Start-up                                                                  *)

Secret == [jwt_secret |-> "s", url |-> "db"]
MCRole == [a |-> "api", w |-> "worker", m |-> "migrator"]
Env(s, raw) == [x \in {s} |-> raw]
MCFiles ==
    {Secret, [jwt_secret |-> "s"], [jwt_secret |-> "s", host |-> "h", password |-> "p"], <<>>,
     [url |-> "db", allow_random_jwt_secret |-> TRUE],
     Secret @@ [pool_max_conns |-> 260, auto_migrate |-> FALSE, scans_retention |-> 3],
     Secret @@ [cors_allowed_origins |-> <<<<"host", "x">>, <<"slash", "x">>, <<"space", "">>, <<"any", "*">>>>],
     Secret @@ [jwt_expiry |-> Unreadable], Secret @@ [search_host |-> "z", search_backend |-> "elastic"],
     Secret @@ [scan_job_stale_after |-> Written(5), scan_job_max_attempts |-> -1],
     Secret @@ [observability_links |-> <<"relative">>]}
Variables ==
    {Env("database_url", Spaces), Env("database_url", Written("e")), Env("user", Written("u")), Env("port", Unreadable),
     Env("http_max_body_bytes", Written(0)), Env("scan_job_max_attempts", Written(0)), Env("scan_queue_max_accepted", Written(-1)),
     Env("scan_job_recovery_interval", Written(0)), Env("worker_heartbeat_interval", Written(0)), Env("worker_pool", Unreadable),
     Env("worker_pool", Written(2)), Env("cors_allow_unsafe_wildcard", Written(TRUE)), Env("cors_allowed_origins", Spaces),
     Env("observability_links", Written(<<"link">>)), Env("webhook_retry_delays", Written(<<1>>)), Env("pool_min_conns", Written(200)),
     Env("pool_max_conns", Written(130)), Env("measures_retention", Written(7)), Env("jwt_secret", Empty)}
NoMigration == Env("auto_migrate", Written(FALSE))
MCEnvironments == {<<>>, NoMigration} \cup Variables

-----------------------------------------------------------------------------
(* Background tasks                                                          *)

AnyTask == [type |-> "", status |-> "", project |-> "", scan |-> 0, worker |-> "", failed |-> FALSE, stale |-> FALSE,
            after |-> Never, before |-> Never, limit |-> 0, offset |-> 0, everything |-> TRUE]
Asked(fields) == fields @@ [AnyTask EXCEPT !.everything = FALSE]
MCTaskFilters ==
    {AnyTask, Asked([status |-> "accepted", limit |-> 9]), Asked([status |-> "retrying"]), Asked([stale |-> TRUE, worker |-> "w"]),
     Asked([failed |-> TRUE, scan |-> 1, limit |-> 1, offset |-> 1]), Asked([type |-> "index", project |-> "p", before |-> 0])}
MCTasks == {<<"scan", 1>>, <<"scan", 2>>, <<"index", 1>>, <<"webhook", 1>>}
MCStaleAge == [scan |-> 1, index |-> 0, webhook |-> 0]
MCSubjects ==
    {[type |-> "scan", project |-> "p", scan |-> 0, params |-> {"metadata"}],
     [type |-> "index", project |-> "p", scan |-> 1, params |-> {}], [type |-> "webhook", project |-> "q", scan |-> 0, params |-> {}]}
\* The answers that change nothing end it.
Unanswered == \A c \in TaskClients : shown[c].code \in {0, 202, 409}

-----------------------------------------------------------------------------
(* The studio                                                                *)

MCModelList == [p \in CloudProviders |-> IF p = "kimi" THEN <<"k1", " ", "k1">> ELSE IF p = "qwen" THEN <<" ">> ELSE <<>>]
MCChosen == [p \in CloudProviders \cup {"ollama"} |-> IF p = "anthropic" THEN "mine" ELSE IF p = "ollama" THEN "m2" ELSE " "]
MCLowercase == [x \in {"GO", "Go-AST", "OpenAI"} |-> CASE x = "GO" -> "go" [] x = "Go-AST" -> "go-ast" [] OTHER -> "openai"]
PatternFields == {<<>>, [text_pattern |-> "p"], [tree_sitter_query |-> "q"], [text_pattern |-> "p", tree_sitter_query |-> "q"],
                  [target |-> "os.Exit"]}
Begun == {[engine |-> e] @@ p : e \in {" ", "text", "Go-AST", "tree-sitter", "regex"}, p \in PatternFields}
MCReplies == Begun \cup {[language |-> l, name |-> "!!!"] @@ b : l \in {"GO", "javascript", "cobol"}, b \in {<<>>, [engine |-> "text"]}}
Ask(p, intent, current) == [provider |-> p, model |-> "m", intent |-> intent, current |-> current]
MCRequests ==
    {Ask("mock", i, c) : i \in {"console", "it"}, c \in Begun} \cup {Ask("ollama", "it", c) : c \in Begun}
    \cup {Ask(p, "it", <<>>) : p \in {"OpenAI", "anthropic", "kimi", "qwen", "none"}} \cup {Ask("mock", " ", <<>>)}
MCInstalled == {<<>>, <<"m2", "m1", "m2">>}

MCBuckets == <<1, 2>>

-----------------------------------------------------------------------------

VARIABLE area

ServerInit ==
    /\ area \in {"ingest", "options", "schema", "tasks", "menu", "drafts", "metrics"}
    /\ Init /\ StartInit /\ TasksInit /\ AssistantInit /\ TelemetryInit
    /\ area # "options" => file = Secret
ServerNext ==
    /\ UNCHANGED area
    /\ IF area = "ingest" THEN Next ELSE UNCHANGED vars
    /\ CASE area = "options" -> ProcessStep("w", Environments) /\ (starts <= 1)'
         [] area = "schema" -> \E p \in Processes : ProcessStep(p, {<<>>, NoMigration})
         [] OTHER -> UNCHANGED startVars
    /\ IF area = "tasks" THEN Unanswered /\ TasksNext ELSE UNCHANGED taskVars
    /\ CASE area = "menu" -> OpenMenu \/ Probe \/ DraftStep({r \in MCRequests : r.current = <<>>}, {<<>>})
         [] area = "drafts" -> result.kind # "draft" /\ DraftStep(MCRequests, MCReplies)
         [] OTHER -> UNCHANGED assistantVars
    /\ IF area = "metrics" THEN TelemetryNext ELSE UNCHANGED telemetryVars
ServerSpec == ServerInit /\ [][ServerNext]_<<area, vars, startVars, taskVars, assistantVars, telemetryVars>>
=============================================================================
