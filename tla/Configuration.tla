---------------------------- MODULE Configuration ----------------------------
(* What a server process runs with: the defaults, overridden by config.toml,  *)
(* overridden by the OLLANTA_* variables, refused when something cannot be    *)
(* read or would not work (ollantaweb/config, configfile).                    *)
EXTENDS Integers, SequencesExt

CONSTANT Bits \* the width of the integers that config.go narrows

\* The default sizes of the pool fit the width.
ASSUME BitsAssumption == Bits \in Nat /\ 2^(Bits - 1) \in Nat /\ 2^Bits = 2 * 2^(Bits - 1) /\ 25 < 2^(Bits - 1)

(* A source of settings is a function: the settings it has, under the name of *)
(* their key, and what is written there.  Of a variable of the environment,   *)
(* which is text, the form is known before its value is.                      *)
Written(v) == [form |-> "value", of |-> v]
Empty == [form |-> "empty"]
Spaces == [form |-> "spaces"]
Unreadable == [form |-> "unreadable"]

Texts == {"addr", "admin_addr", "log_level", "jwt_secret", "oauth_redirect_base", "github_client_id",
          "github_client_secret", "gitlab_client_id", "gitlab_client_secret", "google_client_id",
          "google_client_secret", "scanner_token", "search_backend", "search_user", "search_password"}
Flags == {"allow_random_jwt_secret", "cors_allow_unsafe_wildcard", "auto_migrate"}
Counts == {"http_max_body_bytes", "scan_queue_max_accepted", "scan_queue_max_running", "index_max_retries",
           "index_batch_size", "scan_job_max_attempts", "index_job_max_attempts", "webhook_job_max_attempts"}
Narrow == {"pool_max_conns", "pool_min_conns"}
Retentions == {"scan_jobs_retention", "scans_retention", "measures_retention"}
Durations == {"jwt_expiry", "refresh_expiry", "scan_queue_max_age", "scan_queue_retry_after",
              "scan_job_stale_after", "scan_job_recovery_interval", "index_job_stale_after",
              "index_job_recovery_interval", "webhook_job_stale_after", "webhook_job_recovery_interval",
              "worker_poll_delay", "worker_heartbeat_interval", "worker_data_cleanup_interval",
              "index_poll_delay", "webhook_poll_delay", "webhook_client_timeout", "http_read_timeout",
              "http_write_timeout", "http_idle_timeout", "http_shutdown_timeout", "metrics_interval",
              "pool_max_conn_lifetime", "pool_max_conn_idle_time"}
Lists == {"cors_allowed_origins", "webhook_retry_delays", "observability_links"}
URLs == {"database_url", "search_url"}
Numbers == Counts \cup Narrow \cup Retentions \cup Durations
Settings == Texts \cup Flags \cup Numbers \cup Lists \cup URLs \cup {"worker_pool"}

-----------------------------------------------------------------------------
(* Connection strings                                                        *)

\* A string as the set of its parts; {} is the empty one.
DatabaseParts == {"host", "port", "name", "user", "password", "sslmode"}
Absent(source, part) == part \notin DOMAIN source \/ source[part] = ""
PartOr(source, part, default) == IF Absent(source, part) THEN default ELSE source[part]
BuildDatabaseURL(source) ==
    {<<"host", PartOr(source, "host", "")>>, <<"port", PartOr(source, "port", "5432")>>,
     <<"name", PartOr(source, "name", "")>>, <<"sslmode", PartOr(source, "sslmode", "disable")>>}
    \cup IF Absent(source, "user") THEN {}
         ELSE {<<part, source[part]>> : part \in {q \in {"user", "password"} : ~Absent(source, q)}}
BuildSearchURL(source) == {<<"host", source["search_host"]>>, <<"port", PartOr(source, "search_port", "4080")>>}
FileDatabaseURL(file) ==
    IF ~Absent(file, "url") THEN {<<"url", file["url"]>>}
    ELSE IF \E part \in DatabaseParts : ~Absent(file, part) THEN BuildDatabaseURL(file) ELSE {}
FileSearchURL(file) ==
    IF ~Absent(file, "search_url") THEN {<<"url", file["search_url"]>>}
    ELSE IF ~Absent(file, "search_host") THEN BuildSearchURL(file) ELSE {}

\* The parts of the environment, without surrounding space.  A URL of spaces is taken for a URL,
\* and for none when the parts are looked at.
Trimmed(env) == [part \in {q \in DatabaseParts \cap DOMAIN env : env[q].form = "value"} |-> env[part].of]
GivesURL(env) == "database_url" \in DOMAIN env /\ env["database_url"].form \notin {"empty", "spaces"}
EnvDatabaseURL(env, before) ==
    LET url == IF GivesURL(env) THEN {<<"url", env["database_url"].of>>}
               ELSE IF "database_url" \in DOMAIN env /\ env["database_url"].form = "spaces" THEN {<<"url", " ">>} ELSE before
        parts == Trimmed(env)
    IN  IF GivesURL(env) \/ DOMAIN parts = {} THEN url
        ELSE BuildDatabaseURL([host |-> PartOr(parts, "host", "localhost"), name |-> PartOr(parts, "name", "ollanta"),
                               user |-> PartOr(parts, "user", "ollanta")] @@ parts)

-----------------------------------------------------------------------------
(* Load                                                                      *)

Minute == 60
Hour == 60 * Minute
Day == 24 * Hour
DefaultJobRecovery == [stale |-> 15 * Minute, attempts |-> 3, interval |-> Minute]

\* Durations in seconds, shorter ones rounded up.
Presets ==
    [addr |-> ":8080", admin_addr |-> ":9090", search_user |-> "admin", search_password |-> "admin",
     search_backend |-> "zincsearch", log_level |-> "info",
     auto_migrate |-> TRUE, http_max_body_bytes |-> 10 * 1024 * 1024,
     jwt_expiry |-> 15 * Minute, refresh_expiry |-> 30 * Day, scan_queue_retry_after |-> 30,
     pool_max_conns |-> 25, pool_min_conns |-> 5, pool_max_conn_lifetime |-> Hour, pool_max_conn_idle_time |-> 30 * Minute,
     worker_poll_delay |-> 1, worker_heartbeat_interval |-> 10, worker_data_cleanup_interval |-> Hour,
     scan_jobs_retention |-> 7 * Day, scans_retention |-> 365 * Day, measures_retention |-> 90 * Day,
     index_poll_delay |-> 1, index_max_retries |-> 3, index_batch_size |-> 1000, webhook_poll_delay |-> 1,
     webhook_client_timeout |-> 10, webhook_retry_delays |-> <<Minute, 5 * Minute, 30 * Minute>>,
     http_read_timeout |-> 30, http_write_timeout |-> 60, http_idle_timeout |-> 120, http_shutdown_timeout |-> 15,
     metrics_interval |-> 30, search_url |-> {<<"url", "http://localhost:4080">>}]
JobSettings ==
    [scan |-> [stale |-> "scan_job_stale_after", attempts |-> "scan_job_max_attempts", interval |-> "scan_job_recovery_interval"],
     index |-> [stale |-> "index_job_stale_after", attempts |-> "index_job_max_attempts", interval |-> "index_job_recovery_interval"],
     webhook |-> [stale |-> "webhook_job_stale_after", attempts |-> "webhook_job_max_attempts",
                  interval |-> "webhook_job_recovery_interval"]]
Defaults ==
    [s \in Settings |->
        IF s \in DOMAIN Presets THEN Presets[s]
        ELSE IF \E job \in DOMAIN JobSettings : s = JobSettings[job].stale THEN DefaultJobRecovery.stale
        ELSE IF \E job \in DOMAIN JobSettings : s = JobSettings[job].attempts THEN DefaultJobRecovery.attempts
        ELSE IF \E job \in DOMAIN JobSettings : s = JobSettings[job].interval THEN DefaultJobRecovery.interval
        ELSE IF s \in Texts THEN "" ELSE IF s \in Flags THEN FALSE ELSE IF s \in Lists THEN <<>> ELSE IF s \in URLs THEN {} ELSE 0]

\* What the file says about a setting: nothing, when it is the zero of its type, except of auto_migrate.
Says(file, s) ==
    /\ s \in DOMAIN file
    /\ s \in Texts => file[s] # ""
    /\ s \in Flags \ {"auto_migrate"} => file[s]
    /\ s \in Counts \cup Narrow \cup Retentions => file[s] # 0
    /\ s \in {"cors_allowed_origins", "observability_links"} => file[s] # <<>>
    /\ s # "worker_pool"
Wrapped(n) == ((n + 2^(Bits - 1)) % 2^Bits) - 2^(Bits - 1)
FileValue(file, s) ==
    IF s \in Narrow THEN Wrapped(file[s]) ELSE IF s \in Retentions THEN file[s] * Day
    ELSE IF s \in Durations \cup {"webhook_retry_delays"} THEN file[s].of ELSE file[s]
ApplyFile(cfg, file) ==
    LET urls == [database_url |-> FileDatabaseURL(file), search_url |-> FileSearchURL(file)]
    IN  [s \in Settings |-> IF s \in URLs THEN IF urls[s] # {} THEN urls[s] ELSE cfg[s]
                            ELSE IF Says(file, s) THEN FileValue(file, s) ELSE cfg[s]]

\* What the environment says: text that is not empty, a list even when it is, a number or a flag when there
\* is more than space.
Applies(env, s) ==
    /\ s \in DOMAIN env
    /\ s \in Texts \cup Durations \cup URLs \cup Retentions \cup {"webhook_retry_delays"} => env[s].form # "empty"
    /\ s \in Flags \cup Counts \cup Narrow \cup {"worker_pool"} => env[s].form \notin {"empty", "spaces"}
    /\ s = "worker_pool" => env[s].form # "unreadable"

EnvValue(env, s) == IF env[s].form = "value" THEN env[s].of ELSE IF s \in Texts THEN " " ELSE <<>>
ApplyEnv(cfg, env) ==
    [s \in Settings |->
        IF s = "database_url" THEN EnvDatabaseURL(env, cfg[s])
        ELSE IF ~Applies(env, s) THEN cfg[s]
        ELSE IF s \in URLs THEN {<<"url", IF env[s].form = "spaces" THEN " " ELSE env[s].of>>} ELSE EnvValue(env, s)]

\* A source that cannot be read: a duration in the file, a number, a flag or a duration in the
\* environment, a number that is too wide.  An unreadable worker_pool is dropped instead.
BadFile(file) == \E s \in Durations \cup {"webhook_retry_delays"} : s \in DOMAIN file /\ file[s] = Unreadable
BadVariable(env, s) ==
    \/ s \in Durations \cup Retentions /\ env[s].form \in {"spaces", "unreadable"}
    \/ s \in Flags \cup Counts \cup Narrow \cup {"port", "webhook_retry_delays"} /\ env[s].form = "unreadable"
    \/ s \in Narrow /\ env[s].form = "value" /\ env[s].of \notin -(2^(Bits - 1))..(2^(Bits - 1) - 1)
\* The port is not looked at when there is a URL.
BadEnv(env) == \E s \in DOMAIN env : BadVariable(env, s) /\ (s = "port" => ~GivesURL(env))

\* The links must have a label and an absolute URL (validateObservabilityLinks).
BadLinks(links) == \E k \in DOMAIN links : links[k] # "link"

\* An origin is written as its kind and its host.  Space is dropped, "/" at the end as well,
\* repetitions are dropped, and with a path it is no origin.
BadOrigins(origins, unsafe) ==
    \E k \in DOMAIN origins : origins[k][1] \in {"path", "relative"} \/ (origins[k][1] = "any" /\ ~unsafe)
NormalOrigins(origins) ==
    LET IsSpace(k) == origins[k][1] = "space"
        first == {k \in DOMAIN origins : ~IsSpace(k) /\ \A j \in 1..(k - 1) : IsSpace(j) \/ origins[j][2] # origins[k][2]}
    IN  [n \in 1..Cardinality(first) |-> origins[CHOOSE k \in first : Cardinality({j \in first : j < k}) = n - 1][2]]

PoolFails(cfg) ==
    \/ cfg["pool_max_conns"] <= 0 \/ cfg["pool_min_conns"] < 0 \/ cfg["pool_min_conns"] > cfg["pool_max_conns"]
    \/ cfg["pool_max_conn_lifetime"] <= 0 \/ cfg["pool_max_conn_idle_time"] <= 0

Recovery(cfg, job) == [field \in {"stale", "attempts", "interval"} |-> cfg[JobSettings[job][field]]]

RecoveryFails(cfg, job) ==
    \/ \E field \in {"stale", "attempts", "interval"} : Recovery(cfg, job)[field] < 0
    \/ 0 \notin {Recovery(cfg, job).stale, Recovery(cfg, job).interval} /\ Recovery(cfg, job).attempts = 0

RuntimeFails(cfg) ==
    \/ cfg["jwt_secret"] = "" /\ ~cfg["allow_random_jwt_secret"]
    \/ cfg["http_max_body_bytes"] <= 0
    \/ \E s \in {"scan_queue_max_accepted", "scan_queue_max_running", "scan_queue_max_age", "scan_queue_retry_after"} : cfg[s] < 0
    \/ \E job \in {"scan", "index", "webhook"} : RecoveryFails(cfg, job)
    \/ BadOrigins(cfg["cors_allowed_origins"], cfg["cors_allow_unsafe_wildcard"])
    \/ PoolFails(cfg)

\* Load, after configfile.Load, which fails for a file that was named and is not there.
Overridden(file, env) == ApplyEnv(ApplyFile(Defaults, file), env)
Loads(file, env) ==
    /\ ~BadFile(file) /\ ~BadEnv(env)
    /\ "observability_links" \in DOMAIN file => ~BadLinks(file["observability_links"])
    /\ "observability_links" \in DOMAIN env /\ env["observability_links"].form = "value" => ~BadLinks(env["observability_links"].of)
    /\ Overridden(file, env)["database_url"] # {}
    /\ ~RuntimeFails(Overridden(file, env))
Load(file, env) ==
    LET cfg == Overridden(file, env)
    IN  [s \in Settings |-> CASE s = "cors_allowed_origins" -> NormalOrigins(cfg[s])
                              [] s = "jwt_secret" -> IF cfg[s] = "" THEN "random" ELSE cfg[s]
                              [] OTHER -> cfg[s]]

-----------------------------------------------------------------------------
(* What the roles make of it                                                 *)

JobRecoveryEnabled(cfg, job) == \A field \in {"stale", "attempts", "interval"} : Recovery(cfg, job)[field] > 0
WorkerPoolSize(cfg) == IF cfg["worker_pool"] >= 1 THEN cfg["worker_pool"] ELSE 4

\* time.NewTicker panics unless its interval is positive.
TickerPanics(role, cfg) ==
    role = "worker" /\ (cfg["worker_heartbeat_interval"] <= 0 \/ cfg["worker_data_cleanup_interval"] <= 0)

-----------------------------------------------------------------------------
(* Properties                                                                *)

\* The models of the queues assume of their constants what a configuration that was accepted has:
\* limits that are no negative numbers, an attempt limit wherever claims are recovered, workers.
AsAssumed(cfg) ==
    /\ \A s \in {"scan_queue_max_accepted", "scan_queue_max_running"} : cfg[s] \in Nat
    /\ \A job \in {"scan", "index", "webhook"} : JobRecoveryEnabled(cfg, job) \/ 0 \in {Recovery(cfg, job).stale, Recovery(cfg, job).interval}
    /\ WorkerPoolSize(cfg) \in Nat \ {0}
    /\ cfg["pool_min_conns"] \in 0..cfg["pool_max_conns"] /\ cfg["pool_max_conns"] \in 1..(2^(Bits - 1) - 1)
    /\ "*" \in ToSet(cfg["cors_allowed_origins"]) => cfg["cors_allow_unsafe_wildcard"]
    /\ IsInjective(cfg["cors_allowed_origins"]) /\ cfg["jwt_secret"] # ""

\* config.toml.example: "OLLANTA_* environment variables still override this file", and what neither
\* of them mentions keeps its default.
Precedence(file, env, cfg) ==
    \A s \in Settings \ (URLs \cup {"jwt_secret", "cors_allowed_origins"}) :
        IF s \in DOMAIN env /\ env[s].form = "value" THEN cfg[s] = env[s].of
        ELSE s \notin DOMAIN file \cup DOMAIN env => cfg[s] = Defaults[s]
=============================================================================
