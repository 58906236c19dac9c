---------------------------- MODULE Startup ----------------------------
(* The processes of a deployment start, migrate or verify the schema they     *)
(* share, serve, crash and are started again, of a newer release as well      *)
(* (ollantaweb/cmd/*, internal/runtime, postgres/db.go).                      *)
EXTENDS Configuration, FiniteSets

CONSTANTS
    Processes,
    Role,         \* of a process: "api", "worker", "indexer", "webhookworker", "migrator"
    Files,        \* what config.toml may hold
    Environments, \* what the variables of a process may be
    Releases,     \* numbers of releases: a release embeds the migrations up to its own number
    MaxStarts,    \* bound on how often processes are started
    MaxFailures   \* bound on what goes wrong

VARIABLES
    file,     \* config.toml, shared by all processes
    process,  \* per process, how far it is
    lock,     \* the holder of the advisory lock
    table,    \* whether schema_migrations exists
    applied,  \* its rows in the order of their commits, each with the migration it records
    builtins, \* the release whose built-in profiles are stored
    starts, failures

startVars == <<file, process, lock, table, applied, builtins, starts, failures>>

Nobody == "nobody"

\* Migrations are numbered from 1, and a release embeds one at least.
ASSUME StartAssumption == Releases \subseteq Nat \ {0} /\ Nobody \notin Processes

\* What is written in a source has the type of the setting: a number where the code parses one, and origins as
\* a list, the wildcard among them as what it is.
IsOrigins(origins) ==
    origins \in Seq(STRING \X STRING) /\ \A k \in DOMAIN origins : origins[k][2] = "*" => origins[k][1] = "any"
FileIsTyped(f) ==
    /\ \A s \in DOMAIN f \cap (Counts \cup Narrow) : f[s] \in Int
    /\ \A s \in DOMAIN f \cap Durations : f[s] = Unreadable \/ f[s].of \in Int
    /\ "cors_allowed_origins" \in DOMAIN f => IsOrigins(f["cors_allowed_origins"])
EnvIsTyped(env) ==
    \A s \in DOMAIN env :
        /\ env[s].form \in {"value", "empty", "spaces", "unreadable"}
        /\ env[s].form = "value" =>
             /\ s \in Numbers \cup {"worker_pool"} => env[s].of \in Int
             /\ s = "cors_allowed_origins" => IsOrigins(env[s].of)
ASSUME SourcesAssumption ==
    (\A f \in Files : FileIsTyped(f)) /\ (\A env \in Environments : EnvIsTyped(env))

Down == [stage |-> "down", env |-> <<>>, cfg |-> <<>>, release |-> 0, next |-> 0]
LatestMigration(release) == release
Recorded == ToSet(applied)
Config(p) == process[p].cfg

StartInit ==
    /\ file \in Files
    /\ process = [p \in Processes |-> Down]
    /\ lock = Nobody /\ table = FALSE /\ applied = <<>> /\ builtins = 0
    /\ starts = 0 /\ failures = 0

To(p, stage) == process' = [process EXCEPT ![p] = IF stage = "down" THEN Down ELSE [@ EXCEPT !.stage = stage]]
Fails == failures < MaxFailures /\ failures' = failures + 1
Release(p) == lock' = IF lock = p THEN Nobody ELSE lock

\* main: MustLoad panics when the configuration is refused.
Start(p, env, release) ==
    /\ process[p].stage = "down" /\ starts < MaxStarts /\ starts' = starts + 1
    /\ process' = [process EXCEPT ![p] = IF ~Loads(file, env) THEN Down
                                         ELSE [stage |-> "loaded", env |-> env, cfg |-> Load(file, env),
                                               release |-> release, next |-> 1]]
    /\ UNCHANGED <<file, lock, table, applied, builtins, failures>>

\* PrepareDatabase, or Migrate of the migrator whatever its configuration says.
PrepareDatabase(p) ==
    /\ process[p].stage = "loaded"
    /\ To(p, IF Role[p] = "migrator" \/ Config(p)["auto_migrate"] THEN "locking" ELSE "verifying")
    /\ UNCHANGED <<file, lock, table, applied, builtins, starts, failures>>

-----------------------------------------------------------------------------
(* Migrate, on one connection                                                *)

\* Mutant of LockIsFree: nobody waits for the lock.
LockIsTaken(p) == lock # p
LockIsFree(p) == lock = Nobody
AcquireMigrationLock(p) ==
    /\ process[p].stage = "locking" /\ LockIsFree(p)
    /\ lock' = p /\ To(p, "creating")
    /\ UNCHANGED <<file, table, applied, builtins, starts, failures>>

EnsureSchemaMigrations(p) ==
    /\ process[p].stage = "creating"
    /\ table' = TRUE /\ To(p, "migrating")
    /\ UNCHANGED <<file, lock, applied, builtins, starts, failures>>

\* Each migration is looked up in a statement of its own and applied in a transaction, its row with it.
MigrationApplied(p) ==
    LET n == process[p].next
    IN  /\ process[p].stage = "migrating" /\ n <= LatestMigration(process[p].release)
        /\ process' = [process EXCEPT ![p].stage = IF n \in Recorded THEN "migrating" ELSE "applying",
                                      ![p].next = IF n \in Recorded THEN n + 1 ELSE n]
        /\ UNCHANGED <<file, lock, table, applied, builtins, starts, failures>>
ApplyMigration(p) ==
    LET n == process[p].next
    IN  /\ process[p].stage = "applying" /\ n \notin Recorded
        /\ applied' = Append(applied, n)
        /\ process' = [process EXCEPT ![p].stage = "migrating", ![p].next = n + 1]
        /\ UNCHANGED <<file, lock, table, builtins, starts, failures>>

\* The lock is given back in the end, and by the database when the session is gone.
ReleaseMigrationLock(p) ==
    /\ process[p].stage = "migrating" /\ process[p].next > LatestMigration(process[p].release)
    /\ Release(p) /\ To(p, "prepared")
    /\ UNCHANGED <<file, table, applied, builtins, starts, failures>>

-----------------------------------------------------------------------------
(* VerifySchema, two statements                                              *)

VerifyTable(p) ==
    /\ process[p].stage = "verifying"
    /\ To(p, IF table THEN "verifyingLatest" ELSE "down")
    /\ UNCHANGED <<file, lock, table, applied, builtins, starts, failures>>

IsCurrent(p) == LatestMigration(process[p].release) \in Recorded
VerifyLatest(p) ==
    /\ process[p].stage = "verifyingLatest"
    /\ To(p, IF IsCurrent(p) THEN "prepared" ELSE "down")
    /\ UNCHANGED <<file, lock, table, applied, builtins, starts, failures>>

-----------------------------------------------------------------------------
(* The roles                                                                 *)

\* The server synchronizes the built-in profiles, in one transaction, before it looks at its search
\* backend, and the migrator is done; the workers start their loops, the first tick of which may be their last.
KnownBackend(p) == Role[p] \in {"api", "indexer"} => Config(p)["search_backend"] \in {"zincsearch", "postgres"}
SyncBuiltInProfiles(p) ==
    /\ process[p].stage = "prepared" /\ Role[p] = "api"
    /\ builtins' = process[p].release /\ To(p, IF KnownBackend(p) THEN "serving" ELSE "down")
    /\ UNCHANGED <<file, lock, table, applied, starts, failures>>
MigratorEnds(p) ==
    /\ process[p].stage = "prepared" /\ Role[p] = "migrator"
    /\ To(p, "down")
    /\ UNCHANGED <<file, lock, table, applied, builtins, starts, failures>>
StartLoops(p) ==
    /\ process[p].stage = "prepared" /\ Role[p] \notin {"api", "migrator"}
    /\ To(p, IF TickerPanics(Role[p], Config(p)) \/ ~KnownBackend(p) THEN "down" ELSE "serving")
    /\ UNCHANGED <<file, lock, table, applied, builtins, starts, failures>>

\* A statement or the connection fails before the role serves: it gives up, and later it is started again.
GiveUp(p) ==
    /\ process[p].stage \notin {"down", "serving"} /\ Fails
    /\ To(p, "down") /\ Release(p)
    /\ UNCHANGED <<file, table, applied, builtins, starts>>

\* A process is told to stop, or crashes.
Stop(p) ==
    /\ process[p].stage = "serving"
    /\ To(p, "down")
    /\ UNCHANGED <<file, lock, table, applied, builtins, starts, failures>>

ProcessStep(p, environments) ==
    \/ \E env \in environments, release \in Releases : Start(p, env, release)
    \/ PrepareDatabase(p)
    \/ AcquireMigrationLock(p) \/ EnsureSchemaMigrations(p) \/ MigrationApplied(p) \/ ApplyMigration(p)
    \/ ReleaseMigrationLock(p) \/ VerifyTable(p) \/ VerifyLatest(p)
    \/ SyncBuiltInProfiles(p) \/ MigratorEnds(p) \/ StartLoops(p) \/ GiveUp(p) \/ Stop(p)
StartNext == \E p \in Processes : ProcessStep(p, Environments)
StartSpec == StartInit /\ [][StartNext]_startVars

-----------------------------------------------------------------------------
(* Properties                                                                *)

StartTypeOK ==
    /\ lock \in Processes \cup {Nobody} /\ table \in BOOLEAN
    /\ \A p \in Processes : process[p].release \in Releases \cup {0}
    /\ Recorded \subseteq UNION {1..LatestMigration(r) : r \in Releases} /\ builtins \in Releases \cup {0}

\* "multiple replicas cannot apply the same migration concurrently" (docs/database.md:12), in order, and
\* a process serves only on a schema that has all its own, whoever applied them and crashed meanwhile.
SchemaIsReady ==
    /\ \A p, q \in Processes : p # q => "applying" \notin {process[p].stage} \cap {process[q].stage}
    /\ \A k \in DOMAIN applied : applied[k] = k
    /\ \A p \in Processes : process[p].stage = "serving" => 1..LatestMigration(process[p].release) \subseteq Recorded

\* A process that serves has a configuration that is what its sources say, and as the queues need it.
ServesAsConfigured ==
    \A p \in Processes : process[p].stage = "serving" =>
        AsAssumed(Config(p)) /\ Precedence(file, process[p].env, Config(p))

ServesReady == StartTypeOK /\ SchemaIsReady /\ ServesAsConfigured
=============================================================================
