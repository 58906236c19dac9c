---------------------------- MODULE ServerProofs ----------------------------
(***************************************************************************)
(* Theorems about the parts that MCServer puts side by side: processes     *)
(* that start on the schema they share, the administrator's view of the    *)
(* queues, the metrics of a process, the projects, their rows and the      *)
(* searches in them, and the drafts of the rule assistant.                 *)
(***************************************************************************)
EXTENDS Startup, BackgroundTasks, Telemetry, ProjectSearch, RuleAssistant, FiniteSetTheorems, FunctionTheorems,
        SequenceTheorems, Recursions, TLAPS

-----------------------------------------------------------------------------
(* Start-up                                                                *)

Stages == {"down", "loaded", "locking", "creating", "migrating", "applying", "verifying",
           "verifyingLatest", "prepared", "serving"}

\* The stages of a migration, which is made under the advisory lock.
Migrating == {"creating", "migrating", "applying"}

IsProcess(r) ==
    /\ r = [stage |-> r.stage, env |-> r.env, cfg |-> r.cfg, release |-> r.release, next |-> r.next]
    /\ r.stage \in Stages /\ r.next \in Nat
    /\ r.stage # "down" => r.release \in Releases
    /\ r.stage = "down" => r.release = 0

\* The rows of schema_migrations are those of the first migrations, in order.
RowsInOrder == applied \in Seq(Nat) /\ \A k \in DOMAIN applied : applied[k] = k

\* How far a process is, against what is recorded: a migrator has looked at every migration before
\* the next one, and one that was not there is still not there when it is applied.
HasReached(r, rows) ==
    /\ r.stage \in {"loaded", "locking", "creating"} => r.next = 1
    /\ r.stage \in {"migrating", "applying"} => r.next >= 1 /\ r.next <= Len(rows) + 1
    /\ r.stage = "applying" => r.next = Len(rows) + 1 /\ r.next <= r.release
    /\ r.stage \in {"prepared", "serving"} => r.release <= Len(rows)

SchemaInv ==
    /\ process = [p \in Processes |-> process[p]]
    /\ \A p \in Processes : IsProcess(process[p]) /\ HasReached(process[p], applied)
    /\ \A p \in Processes : process[p].stage \in Migrating <=> lock = p
    /\ lock \in Processes \cup {Nobody} /\ table \in BOOLEAN
    /\ builtins \in Releases \cup {0}
    /\ RowsInOrder
    /\ \E r \in Releases \cup {0} : Len(applied) <= r

LEMMA RecordedIsPrefix == RowsInOrder => Len(applied) \in Nat /\ Recorded = 1..Len(applied)
<1> SUFFICES ASSUME RowsInOrder PROVE Len(applied) \in Nat /\ Recorded = 1..Len(applied)
  OBVIOUS
<1>1. applied \in Seq(Nat) /\ DOMAIN applied = 1..Len(applied) /\ Len(applied) \in Nat
  BY DEF RowsInOrder
<1>2. Recorded = {applied[i] : i \in DOMAIN applied}
  BY DEF Recorded, ToSet
<1>3. \A i \in DOMAIN applied : applied[i] = i
  BY DEF RowsInOrder
<1>4. QED
  BY <1>1, <1>2, <1>3

\* The invariant says that the schema is ready for who serves, and the types.
LEMMA SchemaFollows == SchemaInv => StartTypeOK /\ SchemaIsReady
<1> SUFFICES ASSUME SchemaInv PROVE StartTypeOK /\ SchemaIsReady
  OBVIOUS
<1>1. Len(applied) \in Nat /\ Recorded = 1..Len(applied)
  BY RecordedIsPrefix DEF SchemaInv
<1>2. PICK top \in Releases \cup {0} : Len(applied) <= top
  BY DEF SchemaInv
<1>3. top \in Nat
  BY StartAssumption
<1>4. Recorded \subseteq UNION {1..LatestMigration(r) : r \in Releases}
  <2> SUFFICES ASSUME NEW n \in Recorded PROVE n \in UNION {1..LatestMigration(r) : r \in Releases}
    OBVIOUS
  <2>1. n \in 1..top /\ top \in Releases
    BY <1>1, <1>2, <1>3
  <2>2. n \in 1..LatestMigration(top)
    BY <2>1 DEF LatestMigration
  <2>3. QED
    BY <2>1, <2>2
<1>5. StartTypeOK
  <2>1. \A p \in Processes : process[p].release \in Releases \cup {0}
    BY DEF SchemaInv, IsProcess
  <2>2. QED
    BY <1>4, <2>1 DEF SchemaInv, StartTypeOK
<1>6. \A p, q \in Processes : p # q => "applying" \notin {process[p].stage} \cap {process[q].stage}
  <2> SUFFICES ASSUME NEW p \in Processes, NEW q \in Processes, p # q,
                      process[p].stage = "applying", process[q].stage = "applying"
               PROVE  FALSE
    OBVIOUS
  <2>1. lock = p /\ lock = q
    BY DEF SchemaInv, Migrating
  <2>2. QED
    BY <2>1
<1>7. \A p \in Processes : process[p].stage = "serving" => 1..LatestMigration(process[p].release) \subseteq Recorded
  <2> SUFFICES ASSUME NEW p \in Processes, process[p].stage = "serving"
               PROVE  1..LatestMigration(process[p].release) \subseteq Recorded
    OBVIOUS
  <2>1. process[p].release <= Len(applied) /\ process[p].release \in Nat
    BY StartAssumption DEF SchemaInv, HasReached, IsProcess
  <2>2. QED
    BY <1>1, <2>1 DEF LatestMigration
<1>8. QED
  BY <1>5, <1>6, <1>7 DEF SchemaInv, RowsInOrder, SchemaIsReady

\* One process moves, and only the one with the lock adds a row.
LEMMA ProcessMoves ==
  ASSUME SchemaInv, NEW p \in Processes, NEW new, process' = [process EXCEPT ![p] = new],
         IsProcess(new), HasReached(new, applied'),
         new.stage \in Migrating <=> lock' = p,
         lock' = lock \/ (lock = Nobody /\ lock' = p) \/ (lock = p /\ lock' = Nobody),
         table' \in BOOLEAN, builtins' \in Releases \cup {0},
         \/ applied' = applied
         \/ /\ lock = p /\ RowsInOrder' /\ Len(applied) <= Len(applied')
            /\ \E r \in Releases : Len(applied') <= r
  PROVE  SchemaInv'
<1>1. /\ process' = [q \in Processes |-> process'[q]]
      /\ \A q \in Processes : process'[q] = IF q = p THEN new ELSE process[q]
  BY DEF SchemaInv
<1>2. Len(applied) \in Nat /\ Len(applied') \in Nat
  <2>1. Len(applied) \in Nat
    BY DEF SchemaInv, RowsInOrder
  <2>2. CASE applied' = applied
    BY <2>1, <2>2
  <2>3. CASE RowsInOrder'
    BY <2>1, <2>3 DEF RowsInOrder
  <2>4. QED
    BY <2>1, <2>2, <2>3
<1>3. ASSUME NEW q \in Processes
      PROVE  IsProcess(process'[q]) /\ HasReached(process'[q], applied')
  <2>1. CASE q = p
    BY <1>1, <2>1
  <2>2. CASE q # p
    <3>1. process'[q] = process[q] /\ IsProcess(process[q]) /\ HasReached(process[q], applied)
      BY <1>1, <2>2 DEF SchemaInv
    <3>2. CASE applied' = applied
      BY <3>1, <3>2
    <3>3. CASE lock = p /\ Len(applied) <= Len(applied')
      <4>1. process[q].stage \notin Migrating
        BY <2>2, <3>3 DEF SchemaInv
      <4>2. process[q].stage \in {"prepared", "serving"} => process[q].release <= Len(applied')
        <5>1. process[q].stage \in {"prepared", "serving"} => process[q].release \in Nat
          BY <3>1, StartAssumption DEF IsProcess
        <5>2. QED
          BY <1>2, <3>1, <3>3, <5>1 DEF HasReached
      <4>3. HasReached(process[q], applied')
        BY <3>1, <4>1, <4>2 DEF HasReached, Migrating
      <4>4. QED
        BY <3>1, <4>3
    <3>4. QED
      BY <3>2, <3>3
  <2>3. QED
    BY <2>1, <2>2
<1>4. ASSUME NEW q \in Processes PROVE process'[q].stage \in Migrating <=> lock' = q
  <2>1. CASE q = p
    BY <1>1, <2>1
  <2>2. CASE q # p
    <3>1. process'[q] = process[q] /\ (process[q].stage \in Migrating <=> lock = q)
      BY <1>1, <2>2 DEF SchemaInv
    <3>2. lock' = q <=> lock = q
      BY <2>2, StartAssumption
    <3>3. QED
      BY <3>1, <3>2
  <2>3. QED
    BY <2>1, <2>2
<1>5. RowsInOrder' /\ \E r \in Releases \cup {0} : Len(applied') <= r
  BY DEF SchemaInv, RowsInOrder
<1>6. lock' \in Processes \cup {Nobody}
  BY DEF SchemaInv
<1>7. QED
  BY <1>1, <1>3, <1>4, <1>5, <1>6 DEF SchemaInv

\* A process that goes down, with the lock if it has it.
LEMMA ProcessEnds ==
  ASSUME SchemaInv, NEW p \in Processes, To(p, "down"),
         lock' = IF lock = p THEN Nobody ELSE lock, applied' = applied,
         table' \in BOOLEAN, builtins' \in Releases \cup {0}
  PROVE  SchemaInv'
<1>1. process' = [process EXCEPT ![p] = Down]
  BY DEF To
<1>2. IsProcess(Down) /\ HasReached(Down, applied') /\ Down.stage = "down"
  BY DEF IsProcess, HasReached, Down, Stages
<1>3. ~(Down.stage \in Migrating <=> lock' = p) => FALSE
  BY <1>2, StartAssumption DEF Migrating
<1> HIDE DEF Down
<1>4. QED
  BY <1>1, <1>2, <1>3, ProcessMoves

\* A process that goes from one stage to another.
LEMMA StageMoves ==
  ASSUME SchemaInv, NEW p \in Processes, NEW stage \in Stages \ {"down"}, To(p, stage),
         process[p].stage # "down"
  PROVE  \E new : /\ process' = [process EXCEPT ![p] = new] /\ IsProcess(new) /\ new.stage = stage
                  /\ new.release = process[p].release /\ new.next = process[p].next
                  /\ new.release \in Nat
<1> DEFINE old == process[p]
           new == [stage |-> stage, env |-> old.env, cfg |-> old.cfg, release |-> old.release, next |-> old.next]
<1>1. IsProcess(old) /\ old.release \in Releases
  BY DEF SchemaInv, IsProcess
<1>2. process' = [process EXCEPT ![p] = [old EXCEPT !.stage = stage]]
  BY DEF To
<1> HIDE DEF old
<1>3. [old EXCEPT !.stage = stage] = new
  BY <1>1 DEF IsProcess
<1>4. IsProcess(new)
  BY <1>1 DEF IsProcess
<1>5. QED
  BY <1>1, <1>2, <1>3, <1>4, StartAssumption DEF old

LEMMA StartKeeps ==
  ASSUME SchemaInv, NEW p \in Processes, NEW env, NEW release \in Releases, Start(p, env, release)
  PROVE  SchemaInv'
<1> DEFINE fresh == [stage |-> "loaded", env |-> env, cfg |-> Load(file, env), release |-> release, next |-> 1]
           new == IF ~Loads(file, env) THEN Down ELSE fresh
<1>1. /\ process[p].stage = "down" /\ process' = [process EXCEPT ![p] = new]
      /\ UNCHANGED <<lock, table, applied, builtins>>
  BY DEF Start
<1>2. IsProcess(fresh) /\ HasReached(fresh, applied') /\ fresh.stage = "loaded"
  BY DEF IsProcess, HasReached, Stages
<1>3. IsProcess(Down) /\ HasReached(Down, applied') /\ Down.stage = "down"
  BY DEF IsProcess, HasReached, Down, Stages
<1> HIDE DEF fresh
<1>4. IsProcess(new) /\ HasReached(new, applied') /\ new.stage \notin Migrating
  <2>1. CASE Loads(file, env)
    BY <1>2, <2>1 DEF Migrating
  <2>2. CASE ~Loads(file, env)
    BY <1>3, <2>2 DEF Migrating
  <2>3. QED
    BY <2>1, <2>2
<1> HIDE DEF new
<1>5. lock' # p
  BY <1>1 DEF SchemaInv, Migrating
<1>6. table' \in BOOLEAN /\ builtins' \in Releases \cup {0} /\ lock' = lock /\ applied' = applied
  BY <1>1 DEF SchemaInv
<1>7. QED
  BY <1>1, <1>4, <1>5, <1>6, ProcessMoves

\* Steps between stages that touch neither the lock nor the rows.
LEMMA StagesKeep ==
  ASSUME SchemaInv, NEW p \in Processes, NEW stage \in Stages, To(p, stage),
         process[p].stage \notin Migrating \cup {"down"}, stage \notin Migrating,
         stage \in {"loaded", "locking"} => process[p].stage = "loaded",
         stage \in {"prepared", "serving"} => process[p].release <= Len(applied),
         lock' = lock, applied' = applied, table' \in BOOLEAN, builtins' \in Releases \cup {0}
  PROVE  SchemaInv'
<1>1. lock # p
  BY DEF SchemaInv
<1>2. CASE stage = "down"
  BY <1>1, <1>2, ProcessEnds
<1>3. CASE stage # "down"
  <2>1. PICK new : /\ process' = [process EXCEPT ![p] = new] /\ IsProcess(new) /\ new.stage = stage
                   /\ new.release = process[p].release /\ new.next = process[p].next
                   /\ new.release \in Nat
    BY <1>3, StageMoves
  <2>2. HasReached(process[p], applied)
    BY DEF SchemaInv
  <2>3. HasReached(new, applied')
    BY <2>1, <2>2 DEF HasReached, Migrating
  <2>4. new.stage \in Migrating <=> lock' = p
    BY <1>1, <2>1
  <2>5. QED
    BY <2>1, <2>3, <2>4, ProcessMoves
<1>4. QED
  BY <1>2, <1>3

LEMMA AcquireKeeps ==
  ASSUME SchemaInv, NEW p \in Processes, AcquireMigrationLock(p) PROVE SchemaInv'
<1>1. /\ process[p].stage = "locking" /\ lock = Nobody /\ lock' = p /\ To(p, "creating")
      /\ UNCHANGED <<table, applied, builtins>>
  BY DEF AcquireMigrationLock, LockIsFree
<1>2. PICK new : /\ process' = [process EXCEPT ![p] = new] /\ IsProcess(new) /\ new.stage = "creating"
                 /\ new.release = process[p].release /\ new.next = process[p].next
                 /\ new.release \in Nat
  BY <1>1, StageMoves DEF Stages
<1>3. HasReached(process[p], applied)
  BY DEF SchemaInv
<1>4. HasReached(new, applied')
  BY <1>1, <1>2, <1>3 DEF HasReached
<1>5. table' \in BOOLEAN /\ builtins' \in Releases \cup {0} /\ applied' = applied
  BY <1>1 DEF SchemaInv
<1>6. new.stage \in Migrating
  BY <1>2 DEF Migrating
<1>7. QED
  BY <1>1, <1>2, <1>4, <1>5, <1>6, ProcessMoves

LEMMA EnsureKeeps ==
  ASSUME SchemaInv, NEW p \in Processes, EnsureSchemaMigrations(p) PROVE SchemaInv'
<1>1. /\ process[p].stage = "creating" /\ table' = TRUE /\ To(p, "migrating")
      /\ UNCHANGED <<lock, applied, builtins>>
  BY DEF EnsureSchemaMigrations
<1>2. PICK new : /\ process' = [process EXCEPT ![p] = new] /\ IsProcess(new) /\ new.stage = "migrating"
                 /\ new.release = process[p].release /\ new.next = process[p].next
                 /\ new.release \in Nat
  BY <1>1, StageMoves DEF Stages
<1>3. HasReached(process[p], applied) /\ Len(applied) \in Nat /\ lock = p
  BY <1>1 DEF SchemaInv, RowsInOrder, Migrating
<1>4. HasReached(new, applied')
  BY <1>1, <1>2, <1>3 DEF HasReached
<1>5. table' \in BOOLEAN /\ builtins' \in Releases \cup {0} /\ applied' = applied /\ lock' = lock
  BY <1>1 DEF SchemaInv
<1>6. new.stage \in Migrating
  BY <1>2 DEF Migrating
<1>7. QED
  BY <1>2, <1>3, <1>4, <1>5, <1>6, ProcessMoves

\* A migrator takes note of a migration.
LEMMA NextIsNoted ==
  ASSUME NEW r, IsProcess(r), NEW stage, NEW next
  PROVE  [r EXCEPT !.stage = stage, !.next = next]
           = [stage |-> stage, env |-> r.env, cfg |-> r.cfg, release |-> r.release, next |-> next]
<1> DEFINE one == [r EXCEPT !.stage = stage]
<1>1. r = [stage |-> r.stage, env |-> r.env, cfg |-> r.cfg, release |-> r.release, next |-> r.next]
  BY DEF IsProcess
<1>2. [r EXCEPT !.stage = stage, !.next = next] = [one EXCEPT !.next = next]
  OBVIOUS
<1>3. one = [stage |-> stage, env |-> r.env, cfg |-> r.cfg, release |-> r.release, next |-> r.next]
  BY <1>1
<1> HIDE DEF one
<1>4. one = [stage |-> one.stage, env |-> one.env, cfg |-> one.cfg, release |-> one.release, next |-> one.next]
  BY <1>3
<1>5. [one EXCEPT !.next = next]
        = [stage |-> one.stage, env |-> one.env, cfg |-> one.cfg, release |-> one.release, next |-> next]
  BY <1>4
<1>6. QED
  BY <1>2, <1>3, <1>5

LEMMA LookUpKeeps ==
  ASSUME SchemaInv, NEW p \in Processes, MigrationApplied(p) PROVE SchemaInv'
<1> DEFINE old == process[p]
           n == old.next
           new == [stage |-> IF n \in Recorded THEN "migrating" ELSE "applying", env |-> old.env,
                   cfg |-> old.cfg, release |-> old.release, next |-> IF n \in Recorded THEN n + 1 ELSE n]
<1>1. /\ old.stage = "migrating" /\ n <= old.release
      /\ UNCHANGED <<lock, table, applied, builtins>>
  BY DEF MigrationApplied, LatestMigration
<1>2. IsProcess(old) /\ HasReached(old, applied) /\ lock = p
  BY <1>1 DEF SchemaInv, Migrating
<1>3. /\ n \in Nat /\ old.release \in Releases /\ old.release \in Nat
      /\ Len(applied) \in Nat /\ Recorded = 1..Len(applied) /\ n <= Len(applied) + 1
  BY <1>1, <1>2, RecordedIsPrefix, StartAssumption DEF IsProcess, HasReached, SchemaInv
<1>4. n >= 1
  BY <1>1, <1>2 DEF HasReached
<1>5. process' = [process EXCEPT ![p] = new]
  <2>1. process' = [process EXCEPT ![p] = [old EXCEPT !.stage = IF n \in Recorded THEN "migrating" ELSE "applying",
                                                      !.next = IF n \in Recorded THEN n + 1 ELSE n]]
    BY DEF MigrationApplied
  <2>2. [old EXCEPT !.stage = IF n \in Recorded THEN "migrating" ELSE "applying",
                    !.next = IF n \in Recorded THEN n + 1 ELSE n] = new
    BY <1>2, NextIsNoted, Zenon
  <2>3. QED
    BY <2>1, <2>2
<1>6. IsProcess(new)
  BY <1>3 DEF IsProcess, Stages
<1>7. HasReached(new, applied') /\ new.stage \in Migrating
  BY <1>1, <1>3, <1>4 DEF HasReached, Migrating
<1>8. table' \in BOOLEAN /\ builtins' \in Releases \cup {0} /\ applied' = applied /\ lock' = lock
  BY <1>1 DEF SchemaInv
<1> HIDE DEF new
<1>9. QED
  BY <1>2, <1>5, <1>6, <1>7, <1>8, ProcessMoves

LEMMA ApplyKeeps ==
  ASSUME SchemaInv, NEW p \in Processes, ApplyMigration(p) PROVE SchemaInv'
<1> DEFINE old == process[p]
           n == old.next
           new == [stage |-> "migrating", env |-> old.env, cfg |-> old.cfg, release |-> old.release, next |-> n + 1]
<1>1. /\ old.stage = "applying" /\ applied' = Append(applied, n)
      /\ UNCHANGED <<lock, table, builtins>>
  BY DEF ApplyMigration
<1>2. IsProcess(old) /\ HasReached(old, applied) /\ lock = p
  BY <1>1 DEF SchemaInv, Migrating
<1>3. /\ n \in Nat /\ old.release \in Releases /\ old.release \in Nat
      /\ applied \in Seq(Nat) /\ Len(applied) \in Nat /\ n = Len(applied) + 1 /\ n <= old.release
  BY <1>1, <1>2, StartAssumption DEF IsProcess, HasReached, SchemaInv, RowsInOrder
<1>4. process' = [process EXCEPT ![p] = new]
  <2>1. process' = [process EXCEPT ![p] = [old EXCEPT !.stage = "migrating", !.next = n + 1]]
    BY DEF ApplyMigration
  <2>2. [old EXCEPT !.stage = "migrating", !.next = n + 1] = new
    BY <1>2, NextIsNoted, Zenon
  <2>3. QED
    BY <2>1, <2>2
<1>5. applied' \in Seq(Nat) /\ Len(applied') = n
  BY <1>1, <1>3, AppendProperties
<1>6. \A k \in DOMAIN applied' : applied'[k] = k
  BY <1>1, <1>3, <1>5, AppendProperties DEF SchemaInv, RowsInOrder
<1>7. RowsInOrder' /\ Len(applied) <= Len(applied') /\ \E r \in Releases : Len(applied') <= r
  BY <1>3, <1>5, <1>6 DEF RowsInOrder
<1>8. IsProcess(new)
  BY <1>3 DEF IsProcess, Stages
<1>9. HasReached(new, applied') /\ new.stage \in Migrating
  BY <1>3, <1>5 DEF HasReached, Migrating
<1>10. table' \in BOOLEAN /\ builtins' \in Releases \cup {0} /\ lock' = lock
  BY <1>1 DEF SchemaInv
<1> HIDE DEF new
<1>11. QED
  BY <1>2, <1>4, <1>7, <1>8, <1>9, <1>10, ProcessMoves

LEMMA ReleaseKeeps ==
  ASSUME SchemaInv, NEW p \in Processes, ReleaseMigrationLock(p) PROVE SchemaInv'
<1>1. /\ process[p].stage = "migrating" /\ process[p].next > process[p].release
      /\ Release(p) /\ To(p, "prepared") /\ UNCHANGED <<table, applied, builtins>>
  BY DEF ReleaseMigrationLock, LatestMigration
<1>2. PICK new : /\ process' = [process EXCEPT ![p] = new] /\ IsProcess(new) /\ new.stage = "prepared"
                 /\ new.release = process[p].release /\ new.next = process[p].next
                 /\ new.release \in Nat
  BY <1>1, StageMoves DEF Stages
<1>3. HasReached(process[p], applied) /\ Len(applied) \in Nat /\ lock = p /\ process[p].next \in Nat
  BY <1>1 DEF SchemaInv, RowsInOrder, Migrating, IsProcess
<1>4. HasReached(new, applied')
  BY <1>1, <1>2, <1>3 DEF HasReached
<1>5. table' \in BOOLEAN /\ builtins' \in Releases \cup {0} /\ applied' = applied /\ lock' = Nobody
  BY <1>1, <1>3 DEF SchemaInv, Release
<1>6. new.stage \notin Migrating /\ lock' # p
  BY <1>2, <1>5, StartAssumption DEF Migrating
<1>7. QED
  BY <1>2, <1>3, <1>4, <1>5, <1>6, ProcessMoves

LEMMA SchemaStep == SchemaInv /\ [StartNext]_startVars => SchemaInv'
<1> SUFFICES ASSUME SchemaInv, [StartNext]_startVars PROVE SchemaInv'
  OBVIOUS
<1>1. SchemaInv => table \in BOOLEAN /\ builtins \in Releases \cup {0}
  BY DEF SchemaInv
<1>2. ASSUME NEW p \in Processes, PrepareDatabase(p) PROVE SchemaInv'
  <2>1. \E stage \in {"locking", "verifying"} :
          To(p, stage) /\ process[p].stage = "loaded" /\ UNCHANGED <<lock, table, applied, builtins>>
    BY <1>2 DEF PrepareDatabase
  <2>2. QED
    BY <1>1, <2>1, StagesKeep DEF Stages, Migrating
<1>3. ASSUME NEW p \in Processes, VerifyTable(p) PROVE SchemaInv'
  <2>1. \E stage \in {"verifyingLatest", "down"} :
          To(p, stage) /\ process[p].stage = "verifying" /\ UNCHANGED <<lock, table, applied, builtins>>
    BY <1>3 DEF VerifyTable
  <2>2. QED
    BY <1>1, <2>1, StagesKeep DEF Stages, Migrating
<1>4. ASSUME NEW p \in Processes, VerifyLatest(p) PROVE SchemaInv'
  <2>1. Recorded = 1..Len(applied)
    BY RecordedIsPrefix DEF SchemaInv
  <2>2. \E stage \in {"prepared", "down"} :
          /\ To(p, stage) /\ process[p].stage = "verifyingLatest" /\ UNCHANGED <<lock, table, applied, builtins>>
          /\ stage = "prepared" => process[p].release <= Len(applied)
    BY <1>4, <2>1 DEF VerifyLatest, IsCurrent, LatestMigration
  <2>3. QED
    BY <1>1, <2>2, StagesKeep DEF Stages, Migrating
<1>5. ASSUME NEW p \in Processes, SyncBuiltInProfiles(p) \/ MigratorEnds(p) \/ StartLoops(p)
      PROVE  SchemaInv'
  <2>1. \E stage \in {"serving", "down"} :
          /\ To(p, stage) /\ process[p].stage = "prepared" /\ UNCHANGED <<lock, table, applied>>
          /\ builtins' \in {builtins, process[p].release}
    BY <1>5 DEF SyncBuiltInProfiles, MigratorEnds, StartLoops
  <2>2. process[p].stage = "prepared" => process[p].release <= Len(applied) /\ process[p].release \in Releases
    BY DEF SchemaInv, HasReached, IsProcess
  <2>3. QED
    BY <1>1, <2>1, <2>2, StagesKeep DEF Stages, Migrating
<1>6. ASSUME NEW p \in Processes, GiveUp(p) \/ Stop(p) PROVE SchemaInv'
  <2>1. /\ To(p, "down") /\ UNCHANGED <<table, applied, builtins>>
        /\ lock' = IF lock = p THEN Nobody ELSE lock
    BY <1>6 DEF GiveUp, Stop, Release, SchemaInv, Migrating
  <2>2. QED
    BY <1>1, <2>1, ProcessEnds
<1>7. CASE UNCHANGED startVars
  BY <1>7 DEF startVars, SchemaInv, RowsInOrder
<1>8. ASSUME NEW p \in Processes, ProcessStep(p, Environments) PROVE SchemaInv'
  BY <1>2, <1>3, <1>4, <1>5, <1>6, <1>8, StartKeeps, AcquireKeeps, EnsureKeeps, LookUpKeeps, ApplyKeeps, ReleaseKeeps
     DEF ProcessStep
<1>9. QED
  BY <1>7, <1>8 DEF StartNext

LEMMA SchemaInit == StartInit => SchemaInv
<1> SUFFICES ASSUME StartInit PROVE SchemaInv
  OBVIOUS
<1>1. IsProcess(Down) /\ HasReached(Down, applied) /\ Down.stage = "down"
  BY DEF IsProcess, HasReached, Down, Stages
<1> HIDE DEF Down
<1>2. process = [p \in Processes |-> Down] /\ lock = Nobody /\ applied = << >>
  BY DEF StartInit
<1>3. applied \in Seq(Nat) /\ Len(applied) = 0
  BY <1>2, EmptySeq
<1>4. RowsInOrder
  BY <1>2, <1>3 DEF RowsInOrder
<1>5. \A p \in Processes : process[p].stage \in Migrating <=> lock = p
  BY <1>1, <1>2, StartAssumption DEF Migrating
<1>6. \A p \in Processes : IsProcess(process[p]) /\ HasReached(process[p], applied)
  BY <1>1, <1>2
<1>7. lock \in Processes \cup {Nobody} /\ table \in BOOLEAN /\ builtins \in Releases \cup {0}
  BY DEF StartInit
<1>8. \E r \in Releases \cup {0} : Len(applied) <= r
  <2>1. 0 \in Releases \cup {0} /\ Len(applied) <= 0
    BY <1>3
  <2>2. QED
    BY <2>1
<1>9. QED
  BY <1>2, <1>4, <1>5, <1>6, <1>7, <1>8 DEF SchemaInv

\* Whatever processes of whatever releases migrate, crash and start beside each other, no two apply
\* migrations at once, migrations are recorded in order, and a process serves only on a schema that
\* has every migration of its release.
THEOREM SchemaIsMigrated == StartSpec => [](StartTypeOK /\ SchemaIsReady)
<1>1. StartSpec => []SchemaInv
  BY SchemaInit, SchemaStep, PTL DEF StartSpec
<1>2. QED
  BY <1>1, SchemaFollows, PTL

-----------------------------------------------------------------------------
(* Configuration                                                           *)

\* What is narrowed fits the width.
LEMMA WidthOfAnInteger ==
  /\ \A n \in Int : Wrapped(n) \in -(2^(Bits - 1))..(2^(Bits - 1) - 1)
  /\ 2^(Bits - 1) \in Nat /\ 25 < 2^(Bits - 1)
<1> DEFINE half == 2^(Bits - 1)
           full == 2^Bits
<1>1. half \in Nat /\ full = 2 * half /\ 25 < half
  BY BitsAssumption
<1>2. \A n : Wrapped(n) = ((n + half) % full) - half
  BY DEF Wrapped
<1> HIDE DEF half, full
<1>3. \A x \in Int : x % full \in 0..(full - 1)
  BY <1>1
<1>4. ASSUME NEW n \in Int PROVE Wrapped(n) \in -half..(half - 1)
  <2>1. n + half \in Int
    BY <1>1
  <2>2. PICK x : x = (n + half) % full
    OBVIOUS
  <2>3. x \in 0..(full - 1)
    BY <1>3, <2>1, <2>2
  <2>4. Wrapped(n) = x - half
    BY <1>2, <2>2
  <2>5. QED
    BY <1>1, <2>3, <2>4
<1>5. QED
  BY <1>1, <1>4 DEF half

\* The origins that stay: each where it comes first, and no space.
LEMMA OriginsStayDistinct ==
  ASSUME NEW origins, IsOrigins(origins)
  PROVE  /\ IsInjective(NormalOrigins(origins))
         /\ \A o \in ToSet(NormalOrigins(origins)) : \E k \in DOMAIN origins : origins[k][2] = o
<1> DEFINE IsSpace(k) == origins[k][1] = "space"
           first == {k \in DOMAIN origins : ~IsSpace(k) /\ \A j \in 1..(k - 1) : IsSpace(j) \/ origins[j][2] # origins[k][2]}
           before == [k \in first |-> {j \in first : j < k}]
           place == [k \in first |-> Cardinality(before[k])]
           n == Cardinality(first)
           normal == NormalOrigins(origins)
<1>1. Len(origins) \in Nat /\ DOMAIN origins = 1..Len(origins)
  BY DEF IsOrigins
<1>2. first \subseteq 1..Len(origins)
  BY <1>1
<1>3. \A j, k \in first : j < k => origins[j][2] # origins[k][2]
  <2> SUFFICES ASSUME NEW j \in first, NEW k \in first, j < k PROVE origins[j][2] # origins[k][2]
    OBVIOUS
  <2>1. j \in 1..(k - 1)
    BY <1>2
  <2>2. QED
    BY <2>1
<1>4. \A k \in first : k \in DOMAIN origins
  BY <1>1, <1>2
<1>5. normal = [m \in 1..n |-> origins[CHOOSE k \in first : Cardinality({j \in first : j < k}) = m - 1][2]]
  BY DEF NormalOrigins
<1>6. \A k \in first : Cardinality({j \in first : j < k}) = place[k]
  OBVIOUS
<1> HIDE DEF first, normal
<1>7. IsFiniteSet(first) /\ n \in Nat
  <2>1. IsFiniteSet(1..Len(origins))
    BY <1>1, FS_Interval
  <2>2. IsFiniteSet(first)
    BY <1>2, <2>1, FS_Subset
  <2>3. QED
    BY <2>2, FS_CardinalityType
<1>8. /\ place \in Bijection(first, 0..(n - 1))
      /\ \A j, k \in first : place[j] < place[k] <=> j \in before[k]
  <2>1. before \in [first -> SUBSET first]
    OBVIOUS
  <2>2. \A k \in first : k \notin before[k]
    BY <1>2
  <2>3. ASSUME NEW k \in first, NEW j \in first, j \in before[k] PROVE before[j] \subseteq before[k]
    <3>1. j < k /\ \A i \in first : i \in Int
      BY <1>2, <2>3
    <3>2. \A i \in first : i < j => i < k
      BY <3>1
    <3>3. QED
      BY <3>2
  <2>4. \A k, j \in first : k # j => j \in before[k] \/ k \in before[j]
    BY <1>2
  <2> HIDE DEF before
  <2>5. QED
    BY <1>7, <2>1, <2>2, <2>3, <2>4, PlacesInOrder
<1> HIDE DEF before, place, n
<1>9. \A p \in 0..(n - 1) : \E k \in first : place[k] = p
  BY <1>8 DEF Bijection, Surjection
<1>10. ASSUME NEW m \in 1..n
       PROVE  \E k \in first : place[k] = m - 1 /\ normal[m] = origins[k][2]
  <2> DEFINE at == CHOOSE k \in first : Cardinality({j \in first : j < k}) = m - 1
  <2>1. m - 1 \in 0..(n - 1)
    BY <1>7
  <2>2. \E k \in first : Cardinality({j \in first : j < k}) = m - 1
    BY <1>6, <1>9, <2>1
  <2>3. at \in first /\ Cardinality({j \in first : j < at}) = m - 1
    BY <2>2
  <2>4. normal[m] = origins[at][2]
    BY <1>5
  <2> HIDE DEF at
  <2>5. QED
    BY <1>6, <2>3, <2>4
<1>11. DOMAIN normal = 1..n
  BY <1>5
<1>12. ASSUME NEW l \in 1..n, NEW m \in 1..n, normal[l] = normal[m] PROVE l = m
  <2>1. PICK j \in first : place[j] = l - 1 /\ normal[l] = origins[j][2]
    BY <1>10
  <2>2. PICK k \in first : place[k] = m - 1 /\ normal[m] = origins[k][2]
    BY <1>10
  <2>3. j \in Int /\ k \in Int
    BY <1>2
  <2>a. origins[j][2] = origins[k][2]
    BY <1>12, <2>1, <2>2
  <2>b. ~(j < k) /\ ~(k < j)
    BY <1>3, <2>a
  <2>4. j = k
    BY <2>3, <2>b
  <2>5. QED
    BY <1>7, <2>1, <2>2, <2>4
<1>13. IsInjective(normal)
  BY <1>11, <1>12 DEF IsInjective
<1>14. \A o \in ToSet(normal) : \E k \in DOMAIN origins : origins[k][2] = o
  BY <1>4, <1>10, <1>11 DEF ToSet
<1>15. QED
  BY <1>13, <1>14 DEF normal

\* The numbers that the queues and the pool depend on.
Recoveries == {"scan_job_stale_after", "scan_job_max_attempts", "scan_job_recovery_interval",
               "index_job_stale_after", "index_job_max_attempts", "index_job_recovery_interval",
               "webhook_job_stale_after", "webhook_job_max_attempts", "webhook_job_recovery_interval"}
Bounds == {"scan_queue_max_accepted", "scan_queue_max_running"}
LEMMA KindsOfSettings ==
  /\ Recoveries \cup Bounds \subseteq Settings /\ Recoveries \cup Bounds \subseteq Counts \cup Durations
  /\ Recoveries \cup Bounds \subseteq Numbers
  /\ \A s \in Recoveries \cup Bounds \cup Narrow \cup {"worker_pool"} : s \notin URLs /\ s \notin Texts /\ s \notin Lists /\ s \in Settings
  /\ {"pool_max_conns", "pool_min_conns"} = Narrow
  /\ \A s \in Counts \cup Durations : s \notin Narrow /\ s \notin Retentions
  /\ \A s \in Counts : s \notin Durations /\ s \notin Flags
BY DEF Recoveries, Bounds, Settings, Numbers, Counts, Durations, Narrow, Retentions, URLs, Texts, Lists, Flags
LEMMA DefaultNumbers ==
  /\ \A s \in Recoveries \cup Bounds : Defaults[s] \in Int
  /\ Defaults["pool_max_conns"] = 25 /\ Defaults["pool_min_conns"] = 5 /\ Defaults["worker_pool"] = 0
  /\ Defaults["cors_allowed_origins"] = <<>>
<1>1. ASSUME NEW s \in Settings, s \notin DOMAIN Presets, s \notin Texts, s \notin Flags, s \notin Lists, s \notin URLs
      PROVE  Defaults[s] \in Int
  BY <1>1 DEF Defaults, DefaultJobRecovery, Minute
<1>2. DOMAIN Presets = {"addr", "admin_addr", "search_user", "search_password",
     "search_backend", "log_level", "auto_migrate", "http_max_body_bytes",
     "jwt_expiry", "refresh_expiry", "scan_queue_retry_after",
     "pool_max_conns", "pool_min_conns", "pool_max_conn_lifetime", "pool_max_conn_idle_time",
     "worker_poll_delay", "worker_heartbeat_interval", "worker_data_cleanup_interval",
     "scan_jobs_retention", "scans_retention", "measures_retention",
     "index_poll_delay", "index_max_retries", "index_batch_size", "webhook_poll_delay",
     "webhook_client_timeout", "webhook_retry_delays",
     "http_read_timeout", "http_write_timeout", "http_idle_timeout", "http_shutdown_timeout",
     "metrics_interval", "search_url"}
  BY DEF Presets
<1>3. \A s \in Recoveries \cup Bounds : s \notin DOMAIN Presets
  BY <1>2 DEF Recoveries, Bounds
<1>4. \A s \in Recoveries \cup Bounds : Defaults[s] \in Int
  <2>1. \A s \in Recoveries \cup Bounds : s \notin Flags
    BY DEF Recoveries, Bounds, Flags
  <2>2. QED
    BY <1>1, <1>3, <2>1, KindsOfSettings
<1>5. Defaults["pool_max_conns"] = 25 /\ Defaults["pool_min_conns"] = 5
  <2>1. Presets["pool_max_conns"] = 25 /\ Presets["pool_min_conns"] = 5
    BY DEF Presets
  <2>2. "pool_max_conns" \in Settings /\ "pool_min_conns" \in Settings
    BY KindsOfSettings
  <2>3. "pool_max_conns" \in DOMAIN Presets /\ "pool_min_conns" \in DOMAIN Presets
    BY <1>2
  <2>4. QED
    BY <2>1, <2>2, <2>3 DEF Defaults
<1> DEFINE named == UNION {{JobSettings[job].stale, JobSettings[job].attempts, JobSettings[job].interval} : job \in DOMAIN JobSettings}
<1>6. "worker_pool" \notin named /\ "cors_allowed_origins" \notin named
  BY DEF JobSettings
<1>7. Defaults["worker_pool"] = 0 /\ Defaults["cors_allowed_origins"] = <<>>
  <2>1. "worker_pool" \notin DOMAIN Presets /\ "cors_allowed_origins" \notin DOMAIN Presets
    BY <1>2
  <2>2. "worker_pool" \in Settings /\ "worker_pool" \notin Texts \cup Flags \cup Lists \cup URLs
    BY DEF Settings, Texts, Flags, Lists, URLs
  <2>3. "cors_allowed_origins" \in Settings /\ "cors_allowed_origins" \notin Texts \cup Flags /\ "cors_allowed_origins" \in Lists
    BY DEF Settings, Texts, Flags, Lists
  <2>4. \A s \in {"worker_pool", "cors_allowed_origins"} : \A job \in DOMAIN JobSettings :
           s # JobSettings[job].stale /\ s # JobSettings[job].attempts /\ s # JobSettings[job].interval
    BY <1>6
  <2>5. QED
    BY <2>1, <2>2, <2>3, <2>4 DEF Defaults
<1>8. QED
  BY <1>4, <1>5, <1>7

\* What a source says about a setting, over what was there before.
LEMMA OverriddenSetting ==
  ASSUME NEW f, NEW env, NEW s \in Settings \ URLs
  PROVE  Overridden(f, env)[s] =
           IF Applies(env, s) THEN EnvValue(env, s) ELSE IF Says(f, s) THEN FileValue(f, s) ELSE Defaults[s]
<1> DEFINE urls == [database_url |-> FileDatabaseURL(f), search_url |-> FileSearchURL(f)]
           filed == ApplyFile(Defaults, f)
<1>1. s \in Settings /\ s # "database_url" /\ s \notin URLs
  BY DEF URLs
<1>2. filed[s] = IF Says(f, s) THEN FileValue(f, s) ELSE Defaults[s]
  BY <1>1 DEF ApplyFile
<1> HIDE DEF filed
<1>3. ApplyEnv(filed, env)[s] = IF ~Applies(env, s) THEN filed[s] ELSE EnvValue(env, s)
  BY <1>1 DEF ApplyEnv
<1>4. QED
  BY <1>2, <1>3 DEF Overridden, filed

LEMMA NumbersAreRead ==
  ASSUME NEW f, FileIsTyped(f), ~BadFile(f), NEW env, EnvIsTyped(env), ~BadEnv(env)
  PROVE  /\ \A s \in Recoveries \cup Bounds : Overridden(f, env)[s] \in Int
         /\ \A s \in Narrow : Overridden(f, env)[s] \in -(2^(Bits - 1))..(2^(Bits - 1) - 1)
         /\ Overridden(f, env)["worker_pool"] \in Int
<1> DEFINE range == -(2^(Bits - 1))..(2^(Bits - 1) - 1)
<1>1. ASSUME NEW s \in Recoveries \cup Bounds PROVE Overridden(f, env)[s] \in Int
  <2>1. s \in Settings \ URLs /\ s \in Counts \cup Durations /\ s \in Numbers /\ s \notin Narrow /\ s \notin Retentions
        /\ s \notin Texts /\ s \notin Lists
    BY KindsOfSettings
  <2>2. ASSUME Applies(env, s) PROVE EnvValue(env, s) \in Int
    <3>1. s \in DOMAIN env /\ env[s].form \in {"value", "empty", "spaces", "unreadable"}
      BY <2>2 DEF Applies, EnvIsTyped
    <3>2. s # "port"
      BY <2>1 DEF Counts, Durations
    <3>3. ~BadVariable(env, s)
      BY <3>1, <3>2 DEF BadEnv
    <3>4. CASE s \in Durations
      <4>1. env[s].form # "empty"
        BY <2>2, <3>4 DEF Applies
      <4>2. env[s].form \notin {"spaces", "unreadable"}
        BY <3>3, <3>4 DEF BadVariable
      <4>3. env[s].form = "value"
        BY <3>1, <4>1, <4>2
      <4>4. QED
        BY <2>1, <3>1, <4>3 DEF EnvIsTyped, EnvValue
    <3>5. CASE s \in Counts
      <4>1. s \notin Durations /\ s \notin Retentions /\ s # "webhook_retry_delays" /\ s \notin {"cors_allowed_origins", "observability_links"}
        BY <2>1, <3>5, KindsOfSettings DEF Lists
      <4>2. env[s].form \notin {"empty", "spaces"}
        BY <2>1, <2>2, <3>5, <4>1 DEF Applies
      <4>3. env[s].form # "unreadable"
        BY <3>3, <3>5, <4>1 DEF BadVariable
      <4>4. env[s].form = "value"
        BY <3>1, <4>2, <4>3
      <4>5. QED
        BY <2>1, <3>1, <4>4 DEF EnvIsTyped, EnvValue
    <3>6. QED
      BY <2>1, <3>4, <3>5
  <2>3. ASSUME Says(f, s) PROVE FileValue(f, s) \in Int
    <3>1. s \in DOMAIN f
      BY <2>3 DEF Says
    <3>2. CASE s \in Durations
      <4>1. f[s] # Unreadable
        BY <3>1, <3>2 DEF BadFile
      <4>2. f[s].of \in Int
        BY <3>1, <3>2, <4>1 DEF FileIsTyped
      <4>3. QED
        BY <2>1, <3>2, <4>2 DEF FileValue
    <3>3. CASE s \in Counts
      <4>1. s \notin Durations /\ s # "webhook_retry_delays"
        BY <2>1, <3>3, KindsOfSettings DEF Lists
      <4>2. f[s] \in Int
        BY <3>1, <3>3 DEF FileIsTyped
      <4>3. QED
        BY <2>1, <4>1, <4>2 DEF FileValue
    <3>4. QED
      BY <2>1, <3>2, <3>3
  <2>4. Defaults[s] \in Int
    BY DefaultNumbers
  <2>5. QED
    BY <2>1, <2>2, <2>3, <2>4, OverriddenSetting
<1>2. ASSUME NEW s \in Narrow PROVE Overridden(f, env)[s] \in range
  <2>1. s \in Settings \ URLs /\ s \notin Texts /\ s \notin Lists /\ s \in Numbers
    BY KindsOfSettings DEF Numbers
  <2>2. s \notin Retentions /\ s \notin Durations /\ s \notin Counts /\ s \notin Flags /\ s # "port" /\ s # "webhook_retry_delays"
        /\ s \notin {"cors_allowed_origins", "observability_links"}
    BY DEF Narrow, Retentions, Durations, Counts, Flags
  <2>3. ASSUME Applies(env, s) PROVE EnvValue(env, s) \in range
    <3>1. s \in DOMAIN env /\ env[s].form \in {"value", "empty", "spaces", "unreadable"}
      BY <2>3 DEF Applies, EnvIsTyped
    <3>2. ~BadVariable(env, s)
      BY <2>2, <3>1 DEF BadEnv
    <3>3. env[s].form \notin {"empty", "spaces"}
      <4>1. s \notin URLs
        BY <2>1
      <4>2. QED
        BY <2>1, <2>2, <2>3, <4>1 DEF Applies
    <3>4. env[s].form # "unreadable" /\ ~(env[s].form = "value" /\ env[s].of \notin range)
      BY <2>2, <3>2 DEF BadVariable
    <3>5. env[s].form = "value" /\ env[s].of \in range
      BY <3>1, <3>3, <3>4
    <3>6. QED
      BY <3>5 DEF EnvValue
  <2>4. ASSUME Says(f, s) PROVE FileValue(f, s) \in range
    <3>1. s \in DOMAIN f
      BY <2>4 DEF Says
    <3>2. f[s] \in Int
      BY <3>1 DEF FileIsTyped
    <3>3. Wrapped(f[s]) \in range
      BY <3>2, WidthOfAnInteger
    <3>4. FileValue(f, s) = Wrapped(f[s])
      BY DEF FileValue
    <3>5. QED
      BY <3>3, <3>4
  <2>5. Defaults[s] \in range
    <3>1. Defaults[s] \in 0..25
      <4>1. s = "pool_max_conns" \/ s = "pool_min_conns"
        BY DEF Narrow
      <4>2. QED
        BY <4>1, DefaultNumbers
    <3>2. PICK half : half = 2^(Bits - 1)
      OBVIOUS
    <3>3. half \in Nat /\ 25 < half
      BY <3>2, WidthOfAnInteger
    <3>4. Defaults[s] \in -half..(half - 1)
      BY <3>1, <3>3
    <3>5. QED
      BY <3>2, <3>4
  <2>6. QED
    BY <2>1, <2>3, <2>4, <2>5, OverriddenSetting
<1>3. Overridden(f, env)["worker_pool"] \in Int
  <2> DEFINE s == "worker_pool"
  <2>1. s \in Settings \ URLs
    BY KindsOfSettings
  <2>2. s \notin Texts \cup Durations \cup URLs \cup Flags \cup Counts \cup Narrow \cup Retentions \cup Lists
        /\ s # "webhook_retry_delays" /\ s \notin {"cors_allowed_origins", "observability_links"}
    BY DEF Texts, Durations, URLs, Flags, Counts, Narrow, Retentions, Lists
  <2>3. ~Says(f, s)
    BY DEF Says
  <2>4. ASSUME Applies(env, s) PROVE EnvValue(env, s) \in Int
    <3>1. s \in DOMAIN env /\ env[s].form \in {"value", "empty", "spaces", "unreadable"}
      BY <2>4 DEF Applies, EnvIsTyped
    <3>2. env[s].form \notin {"empty", "spaces", "unreadable"}
      BY <2>2, <2>4 DEF Applies
    <3>3. env[s].form = "value"
      BY <3>1, <3>2
    <3>4. QED
      BY <3>1, <3>3 DEF EnvIsTyped, EnvValue
  <2>5. Defaults[s] \in Int
    BY DefaultNumbers
  <2>6. QED
    BY <2>1, <2>3, <2>4, <2>5, OverriddenSetting
<1>4. QED
  BY <1>1, <1>2, <1>3

\* Whichever source they come from, the origins are a list of origins.
LEMMA OriginsAreRead ==
  ASSUME NEW f, FileIsTyped(f), NEW env, EnvIsTyped(env)
  PROVE  IsOrigins(Overridden(f, env)["cors_allowed_origins"])
<1> DEFINE s == "cors_allowed_origins"
<1>1. s \in Settings \ URLs /\ s \notin Texts /\ s \in Lists
  BY DEF Settings, URLs, Texts, Lists
<1>2. s \notin Narrow /\ s \notin Retentions /\ s \notin Durations \cup {"webhook_retry_delays"}
  BY DEF Narrow, Retentions, Durations
<1>3. PICK none : none = <<>>
  OBVIOUS
<1>4. IsOrigins(none)
  BY <1>3 DEF IsOrigins
<1>5. ASSUME Applies(env, s) PROVE IsOrigins(EnvValue(env, s))
  <2>1. s \in DOMAIN env
    BY <1>5 DEF Applies
  <2>2. CASE env[s].form = "value"
    BY <2>1, <2>2 DEF EnvIsTyped, EnvValue
  <2>3. CASE env[s].form # "value"
    <3>1. EnvValue(env, s) = none
      BY <1>1, <1>3, <2>3 DEF EnvValue
    <3>2. QED
      BY <1>4, <3>1
  <2>4. QED
    BY <2>2, <2>3
<1>6. ASSUME Says(f, s) PROVE IsOrigins(FileValue(f, s))
  <2>1. s \in DOMAIN f
    BY <1>6 DEF Says
  <2>2. FileValue(f, s) = f[s]
    BY <1>2 DEF FileValue
  <2>3. QED
    BY <2>1, <2>2 DEF FileIsTyped
<1>7. Defaults[s] = none
  BY <1>3, DefaultNumbers
<1>8. QED
  BY <1>1, <1>4, <1>5, <1>6, <1>7, OverriddenSetting

\* A configuration that is accepted is what its sources say, and as the queues need it.
LEMMA AcceptedIsAsAssumed ==
  ASSUME NEW f, FileIsTyped(f), NEW env, EnvIsTyped(env), Loads(f, env)
  PROVE  AsAssumed(Load(f, env)) /\ Precedence(f, env, Load(f, env))
<1> DEFINE cfg == Overridden(f, env)
           out == Load(f, env)
<1>1. ~BadFile(f) /\ ~BadEnv(env) /\ ~RuntimeFails(cfg)
  BY DEF Loads
<1>2. /\ \A s \in Recoveries \cup Bounds : cfg[s] \in Int
      /\ \A s \in Narrow : cfg[s] \in -(2^(Bits - 1))..(2^(Bits - 1) - 1)
      /\ cfg["worker_pool"] \in Int
  BY <1>1, NumbersAreRead
<1>3. IsOrigins(cfg["cors_allowed_origins"])
  BY OriginsAreRead
<1>4. /\ \A s \in Settings \ {"cors_allowed_origins", "jwt_secret"} : out[s] = cfg[s]
      /\ "cors_allowed_origins" \in Settings => out["cors_allowed_origins"] = NormalOrigins(cfg["cors_allowed_origins"])
      /\ "jwt_secret" \in Settings => out["jwt_secret"] # ""
  BY DEF Load
<1>5. "cors_allowed_origins" \in Settings /\ "jwt_secret" \in Settings /\ "cors_allow_unsafe_wildcard" \in Settings
  BY DEF Settings, Lists, Texts, Flags
<1>6. Recoveries \cup Bounds \cup Narrow \cup {"worker_pool"} \subseteq Settings \ {"cors_allowed_origins", "jwt_secret"}
  <2>1. "cors_allowed_origins" \in Lists /\ "jwt_secret" \in Texts
    BY DEF Lists, Texts
  <2>2. QED
    BY <2>1, KindsOfSettings
<1>7. Precedence(f, env, out)
  <2> SUFFICES ASSUME NEW s \in Settings \ (URLs \cup {"jwt_secret", "cors_allowed_origins"})
               PROVE  IF s \in DOMAIN env /\ env[s].form = "value" THEN out[s] = env[s].of
                      ELSE s \notin DOMAIN f \cup DOMAIN env => out[s] = Defaults[s]
    BY DEF Precedence
  <2>1. out[s] = IF Applies(env, s) THEN EnvValue(env, s) ELSE IF Says(f, s) THEN FileValue(f, s) ELSE Defaults[s]
    BY <1>4, OverriddenSetting
  <2>2. s \in DOMAIN env /\ env[s].form = "value" => Applies(env, s) /\ EnvValue(env, s) = env[s].of
    BY DEF Applies, EnvValue
  <2>3. s \notin DOMAIN f \cup DOMAIN env => ~Applies(env, s) /\ ~Says(f, s)
    BY DEF Applies, Says
  <2>4. QED
    BY <2>1, <2>2, <2>3
<1> HIDE DEF cfg, out
<1>8. \A s \in Bounds : out[s] \in Nat
  <2>1. \A s \in Bounds : cfg[s] \in Int /\ ~(cfg[s] < 0) /\ out[s] = cfg[s]
    BY <1>1, <1>2, <1>4, <1>6 DEF RuntimeFails, Bounds
  <2>2. QED
    BY <2>1
<1>9. ASSUME NEW job \in {"scan", "index", "webhook"}
      PROVE  JobRecoveryEnabled(out, job) \/ 0 \in {Recovery(out, job).stale, Recovery(out, job).interval}
  <2>1. \A field \in {"stale", "attempts", "interval"} : JobSettings[job][field] \in Recoveries
    BY DEF JobSettings, Recoveries
  <2>2. \A field \in {"stale", "attempts", "interval"} :
          Recovery(out, job)[field] = Recovery(cfg, job)[field] /\ Recovery(cfg, job)[field] \in Int
    BY <1>2, <1>4, <1>6, <2>1 DEF Recovery
  <2>3. ~RecoveryFails(cfg, job)
    BY <1>1 DEF RuntimeFails
  <2> DEFINE stale == Recovery(cfg, job).stale
               attempts == Recovery(cfg, job).attempts
               interval == Recovery(cfg, job).interval
  <2>5. /\ stale \in Int /\ attempts \in Int /\ interval \in Int
        /\ Recovery(out, job).stale = stale /\ Recovery(out, job).attempts = attempts /\ Recovery(out, job).interval = interval
    BY <2>2
  <2>6. ~(stale < 0) /\ ~(attempts < 0) /\ ~(interval < 0) /\ (stale # 0 /\ interval # 0 => attempts # 0)
    BY <2>3 DEF RecoveryFails
  <2> HIDE DEF stale, attempts, interval
  <2>7. (Recovery(out, job).stale > 0 /\ Recovery(out, job).attempts > 0 /\ Recovery(out, job).interval > 0)
        \/ 0 \in {Recovery(out, job).stale, Recovery(out, job).interval}
    BY <2>5, <2>6
  <2>8. QED
    BY <2>7 DEF JobRecoveryEnabled
<1>10. WorkerPoolSize(out) \in Nat \ {0}
  <2>1. out["worker_pool"] \in Int
    BY <1>2, <1>4, <1>6
  <2>2. QED
    BY <2>1 DEF WorkerPoolSize
<1>11. out["pool_min_conns"] \in 0..out["pool_max_conns"] /\ out["pool_max_conns"] \in 1..(2^(Bits - 1) - 1)
  <2>1. PICK half : half = 2^(Bits - 1)
    OBVIOUS
  <2>2. /\ half \in Nat /\ cfg["pool_max_conns"] \in -half..(half - 1) /\ cfg["pool_min_conns"] \in -half..(half - 1)
    BY <1>2, <2>1, WidthOfAnInteger, KindsOfSettings
  <2>3. ~PoolFails(cfg)
    BY <1>1 DEF RuntimeFails
  <2>4. ~(cfg["pool_max_conns"] <= 0) /\ ~(cfg["pool_min_conns"] < 0) /\ ~(cfg["pool_min_conns"] > cfg["pool_max_conns"])
    BY <2>3 DEF PoolFails
  <2>5. out["pool_max_conns"] = cfg["pool_max_conns"] /\ out["pool_min_conns"] = cfg["pool_min_conns"]
    BY <1>4, <1>6, KindsOfSettings
  <2>6. out["pool_min_conns"] \in 0..out["pool_max_conns"] /\ out["pool_max_conns"] \in 1..(half - 1)
    BY <2>2, <2>4, <2>5
  <2>7. QED
    BY <2>1, <2>6
<1>12. "*" \in ToSet(out["cors_allowed_origins"]) => out["cors_allow_unsafe_wildcard"]
  <2>1. SUFFICES ASSUME "*" \in ToSet(out["cors_allowed_origins"]) PROVE out["cors_allow_unsafe_wildcard"]
    OBVIOUS
  <2>a. out["cors_allowed_origins"] = NormalOrigins(cfg["cors_allowed_origins"])
    BY <1>4, <1>5
  <2>b. \A o \in ToSet(NormalOrigins(cfg["cors_allowed_origins"])) :
          \E k \in DOMAIN cfg["cors_allowed_origins"] : cfg["cors_allowed_origins"][k][2] = o
    BY <1>3, OriginsStayDistinct
  <2>2. PICK k \in DOMAIN cfg["cors_allowed_origins"] : cfg["cors_allowed_origins"][k][2] = "*"
    BY <2>1, <2>a, <2>b
  <2>3. cfg["cors_allowed_origins"][k][1] = "any"
    BY <1>3, <2>2 DEF IsOrigins
  <2>4. ~BadOrigins(cfg["cors_allowed_origins"], cfg["cors_allow_unsafe_wildcard"])
    BY <1>1 DEF RuntimeFails
  <2>5. cfg["cors_allow_unsafe_wildcard"]
    BY <2>2, <2>3, <2>4 DEF BadOrigins
  <2>6. out["cors_allow_unsafe_wildcard"] = cfg["cors_allow_unsafe_wildcard"]
    BY <1>4, <1>5
  <2>7. QED
    BY <2>5, <2>6
<1>13. IsInjective(out["cors_allowed_origins"]) /\ out["jwt_secret"] # ""
  BY <1>3, <1>4, <1>5, OriginsStayDistinct
<1>14. AsAssumed(out)
  BY <1>8, <1>9, <1>10, <1>11, <1>12, <1>13 DEF AsAssumed, Bounds
<1>15. QED
  BY <1>7, <1>14 DEF out

\* Who runs was started with a configuration that the file and its environment make, and the file is not written.
Configured(r) == r.env \in Environments /\ Loads(file, r.env) /\ r.cfg = Load(file, r.env)
SettingsInv == file \in Files /\ \A p \in Processes : process[p].stage # "down" => Configured(process[p])

LEMMA SettingsStep == SchemaInv /\ SettingsInv /\ [StartNext]_startVars => SettingsInv'
<1> SUFFICES ASSUME SchemaInv, SettingsInv, [StartNext]_startVars PROVE SettingsInv'
  OBVIOUS
<1> DEFINE AsBefore(p) == process'[p].env = process[p].env /\ process'[p].cfg = process[p].cfg /\ process[p].stage # "down"
<1>1. ASSUME NEW p \in Processes, file' = file, \A q \in Processes : q # p => process'[q] = process[q],
             process'[p].stage = "down" \/ AsBefore(p) \/ Configured(process'[p])
      PROVE  SettingsInv'
  BY <1>1 DEF SettingsInv, Configured
<1>2. \A p \in Processes : process[p].stage = process[p].stage /\ Down.stage = "down"
  BY DEF Down
<1>3. ASSUME NEW p \in Processes, NEW stage, To(p, stage)
      PROVE  /\ \A q \in Processes : q # p => process'[q] = process[q]
             /\ process'[p].stage = "down" \/ (process'[p].env = process[p].env /\ process'[p].cfg = process[p].cfg)
  <2>1. process = [q \in Processes |-> process[q]] /\ IsProcess(process[p])
    BY DEF SchemaInv
  <2>2. \A q \in Processes : q # p => process'[q] = process[q]
    BY <1>3, <2>1 DEF To
  <2>3. CASE stage = "down"
    BY <1>2, <1>3, <2>1, <2>3 DEF To
  <2>4. CASE stage # "down"
    <3>1. process'[p] = [process[p] EXCEPT !.stage = stage]
      BY <1>3, <2>1, <2>4 DEF To
    <3>2. process'[p].env = process[p].env /\ process'[p].cfg = process[p].cfg
      BY <3>1
    <3>3. QED
      BY <2>2, <3>2
  <2>5. QED
    BY <2>2, <2>3, <2>4
<1>4. ASSUME NEW p \in Processes, NEW stage, To(p, stage), process[p].stage # "down", file' = file PROVE SettingsInv'
  BY <1>1, <1>3, <1>4
<1>5. ASSUME NEW p \in Processes, NEW env \in Environments, NEW release, Start(p, env, release) PROVE SettingsInv'
  <2>1. process = [q \in Processes |-> process[q]] /\ file' = file
    BY <1>5 DEF SchemaInv, Start
  <2>2. \A q \in Processes : q # p => process'[q] = process[q]
    BY <1>5, <2>1 DEF Start
  <2>3. CASE ~Loads(file, env)
    <3>1. process'[p] = Down
      BY <1>5, <2>1, <2>3 DEF Start
    <3>2. QED
      BY <1>1, <1>2, <2>1, <2>2, <3>1
  <2>4. CASE Loads(file, env)
    <3>1. process'[p] = [stage |-> "loaded", env |-> env, cfg |-> Load(file, env), release |-> release, next |-> 1]
      BY <1>5, <2>1, <2>4 DEF Start
    <3>2. Configured(process'[p])
      BY <2>4, <3>1 DEF Configured
    <3>3. QED
      BY <1>1, <2>1, <2>2, <3>2
  <2>5. QED
    BY <2>3, <2>4
<1>6. ASSUME NEW p \in Processes, MigrationApplied(p) \/ ApplyMigration(p) PROVE SettingsInv'
  <2> DEFINE r == process[p]
             With(stage, next) == [r EXCEPT !.stage = stage, !.next = next]
  <2>1. process = [q \in Processes |-> process[q]] /\ IsProcess(r)
    BY DEF SchemaInv
  <2>2. PICK stage, next : process' = [process EXCEPT ![p].stage = stage, ![p].next = next]
    BY <1>6, Zenon DEF MigrationApplied, ApplyMigration
  <2>3. r.stage # "down" /\ file' = file
    BY <1>6 DEF MigrationApplied, ApplyMigration
  <2>4. \A q \in Processes : q # p => process'[q] = process[q]
    BY <2>1, <2>2
  <2>5. process'[p].env = process[p].env /\ process'[p].cfg = process[p].cfg
    <3>1. process' = [process EXCEPT ![p] = With(stage, next)]
      BY <2>2
    <3>2. With(stage, next) = [stage |-> stage, env |-> r.env, cfg |-> r.cfg, release |-> r.release, next |-> next]
      BY <2>1, NextIsNoted, Zenon
    <3> HIDE DEF With
    <3>3. process'[p] = With(stage, next)
      BY <2>1, <3>1
    <3>4. QED
      BY <3>2, <3>3
  <2>6. QED
    BY <1>1, <2>3, <2>4, <2>5
<1>7. ASSUME NEW p \in Processes, NEW environments, environments \subseteq Environments, ProcessStep(p, environments)
      PROVE  SettingsInv'
  <2>1. ASSUME PrepareDatabase(p) \/ AcquireMigrationLock(p) \/ EnsureSchemaMigrations(p) \/ ReleaseMigrationLock(p)
               \/ VerifyTable(p) \/ VerifyLatest(p) \/ SyncBuiltInProfiles(p) \/ MigratorEnds(p) \/ StartLoops(p)
               \/ GiveUp(p) \/ Stop(p)
        PROVE  file' = file /\ process[p].stage # "down" /\ \E stage : To(p, stage)
    <3>1. CASE PrepareDatabase(p)
      BY <3>1, Zenon DEF PrepareDatabase
    <3>2. CASE AcquireMigrationLock(p) \/ EnsureSchemaMigrations(p) \/ ReleaseMigrationLock(p)
      BY <3>2, Zenon DEF AcquireMigrationLock, EnsureSchemaMigrations, ReleaseMigrationLock
    <3>3. CASE VerifyTable(p) \/ VerifyLatest(p)
      BY <3>3, Zenon DEF VerifyTable, VerifyLatest
    <3>4. CASE SyncBuiltInProfiles(p) \/ MigratorEnds(p) \/ StartLoops(p)
      BY <3>4, Zenon DEF SyncBuiltInProfiles, MigratorEnds, StartLoops
    <3>5. CASE GiveUp(p) \/ Stop(p)
      BY <3>5, Zenon DEF GiveUp, Stop
    <3>6. QED
      BY <2>1, <3>1, <3>2, <3>3, <3>4, <3>5
  <2>2. ASSUME NEW env \in environments, NEW release, Start(p, env, release) PROVE SettingsInv'
    BY <1>5, <1>7, <2>2
  <2>3. QED
    BY <1>4, <1>6, <1>7, <2>1, <2>2 DEF ProcessStep
<1>8. CASE UNCHANGED startVars
  BY <1>8 DEF startVars, SettingsInv, Configured
<1>9. QED
  BY <1>7, <1>8 DEF StartNext

\* Whatever fails and is started again, and whatever the file and the variables hold: the schema has what a serving
\* process needs, and its configuration is what its sources say and what the queues assume of it.
THEOREM ServersAreReady == StartSpec => []ServesReady
<1>1. StartInit => SettingsInv
  BY DEF StartInit, SettingsInv, Down
<1>2. SchemaInv /\ SettingsInv => ServesReady
  <2> SUFFICES ASSUME SchemaInv, SettingsInv PROVE ServesReady
    OBVIOUS
  <2>1. ASSUME NEW p \in Processes, process[p].stage = "serving"
        PROVE  AsAssumed(Config(p)) /\ Precedence(file, process[p].env, Config(p))
    <3>1. file \in Files /\ process[p].env \in Environments /\ Loads(file, process[p].env) /\ Config(p) = Load(file, process[p].env)
      BY <2>1 DEF SettingsInv, Configured, Config
    <3>2. FileIsTyped(file) /\ EnvIsTyped(process[p].env)
      BY <3>1, SourcesAssumption
    <3>3. QED
      BY <3>1, <3>2, AcceptedIsAsAssumed
  <2>2. QED
    BY <2>1, SchemaFollows DEF ServesReady, ServesAsConfigured
<1>3. SchemaInv /\ SettingsInv /\ [StartNext]_startVars => (SchemaInv /\ SettingsInv)'
  BY SchemaStep, SettingsStep
<1>4. QED
  BY <1>1, <1>2, <1>3, SchemaInit, PTL DEF StartSpec

-----------------------------------------------------------------------------
(* Metrics                                                                 *)

\* How many of the first n observations are within a bound.
Within(s, n, bound) == Cardinality({k \in 1..n : s[k] <= bound})

\* A histogram tells of what was observed of it; while an observer holds it, of all but the last.
HistogramSound(h, s, l, by) ==
    /\ h = [count |-> h.count, fill |-> h.fill, holder |-> h.holder]
    /\ h.fill = [b \in DOMAIN Buckets |-> h.fill[b]]
    /\ s \in Seq(Took) /\ h.count = Len(s)
    /\ h.holder \in Observers \cup {"", Collector}
    /\ h.holder \notin Observers => \A b \in DOMAIN Buckets : h.fill[b] = Within(s, h.count, Buckets[b])
    /\ h.holder \in Observers =>
         /\ h.count > 0 /\ by[h.holder].at = "fill" /\ by[h.holder].labels = l /\ s[h.count] = by[h.holder].took
         /\ \A b \in DOMAIN Buckets : h.fill[b] = Within(s, h.count - 1, Buckets[b])

\* What a goroutine is about to do, it does to series that are there.
ObserverSound(o, r, c, d) ==
    \/ r = Resting
    \/ /\ r = [at |-> r.at, labels |-> r.labels, took |-> r.took]
       /\ r.at \in {"count", "time", "fill"} /\ r.took \in Took /\ r.labels \in DOMAIN c
       /\ r.at # "count" => r.labels \in DOMAIN d
       /\ r.at = "fill" => d[r.labels].holder = o

\* The goroutines that have counted a step and not timed it yet.
Waiting(by, l) == {o \in Observers : by[o].at = "time" /\ by[o].labels = l}

SeriesShape ==
    /\ IsFiniteSet(DOMAIN counts)
    /\ counts \in [DOMAIN counts -> Nat]
    /\ durations = [l \in DOMAIN durations |-> durations[l]]
    /\ told = [l \in DOMAIN durations |-> told[l]]
    /\ DOMAIN durations \subseteq DOMAIN counts
    /\ \A l \in DOMAIN counts \ DOMAIN durations : counts[l] = 0

HistogramsSound == \A l \in DOMAIN durations : HistogramSound(durations[l], told[l], l, observer)

ObserversSound ==
    /\ observer = [o \in Observers |-> observer[o]]
    /\ \A o \in Observers : ObserverSound(o, observer[o], counts, durations)

CountsSound == \A l \in DOMAIN durations : counts[l] = Len(told[l]) + Cardinality(Waiting(observer, l))

SeriesSound == SeriesShape /\ HistogramsSound /\ ObserversSound /\ CountsSound

LEMMA WithinIsNumber == \A s, bound : \A n \in Nat : Within(s, n, bound) \in 0..n
<1> SUFFICES ASSUME NEW s, NEW bound, NEW n \in Nat PROVE Within(s, n, bound) \in 0..n
  OBVIOUS
<1>1. IsFiniteSet(1..n) /\ Cardinality(1..n) = n
  BY FS_Interval
<1>2. IsFiniteSet({k \in 1..n : s[k] <= bound}) /\ Cardinality({k \in 1..n : s[k] <= bound}) <= n
  BY <1>1, FS_Subset
<1>3. QED
  BY <1>2, FS_CardinalityType DEF Within

LEMMA WithinNone == \A s, bound : Within(s, 0, bound) = 0
<1>1. \A s, bound : {k \in 1..0 : s[k] <= bound} = {}
  OBVIOUS
<1>2. QED
  BY <1>1, FS_EmptySet DEF Within

LEMMA WithinOneMore ==
  ASSUME NEW s, NEW bound, NEW n \in Nat \ {0}
  PROVE  Within(s, n, bound) = Within(s, n - 1, bound) + IF s[n] <= bound THEN 1 ELSE 0
<1> DEFINE S == {k \in 1..(n - 1) : s[k] <= bound}
           T == {k \in 1..n : s[k] <= bound}
<1>1. IsFiniteSet(S) /\ n \notin S /\ Cardinality(S) \in Nat
  <2>1. IsFiniteSet(1..(n - 1)) /\ n \notin 1..(n - 1) /\ S \subseteq 1..(n - 1)
    BY FS_Interval
  <2>2. QED
    BY <2>1, FS_Subset, FS_CardinalityType
<1>2. T = IF s[n] <= bound THEN S \cup {n} ELSE S
  OBVIOUS
<1> HIDE DEF S, T
<1>3. Cardinality(T) = Cardinality(S) + IF s[n] <= bound THEN 1 ELSE 0
  BY <1>1, <1>2, FS_AddElement
<1>4. QED
  BY <1>3 DEF Within, S, T

LEMMA WithinSame ==
  ASSUME NEW s, NEW t, NEW n, \A k \in 1..n : s[k] = t[k]
  PROVE  \A bound : Within(s, n, bound) = Within(t, n, bound)
<1>1. \A bound : {k \in 1..n : s[k] <= bound} = {k \in 1..n : t[k] <= bound}
  OBVIOUS
<1>2. QED
  BY <1>1 DEF Within

\* Every element of a finite set is in its list.
LEMMA ListIsComplete ==
  ASSUME NEW S, IsFiniteSet(S)
  PROVE  SetToSeq(S) \in Seq(S) /\ \A x \in S : \E k \in 1..Len(SetToSeq(S)) : SetToSeq(S)[k] = x
<1> DEFINE n == Cardinality(S)
           f == SetToSeq(S)
<1>1. n \in Nat /\ ExistsBijection(1..n, S)
  BY FS_CardinalityType
<1>2. \E g \in [1..n -> S] : IsInjective(g)
  BY <1>1 DEF ExistsBijection, Bijection, Injection, IsInjective
<1>3. f \in [1..n -> S] /\ IsInjective(f)
  BY <1>2 DEF SetToSeq
<1>4. f \in Seq(S) /\ Len(f) = n
  BY <1>1, <1>3
<1>5. ASSUME NEW x \in S, \A k \in 1..n : f[k] # x PROVE FALSE
  <2>1. f \in [1..n -> S \ {x}]
    BY <1>3, <1>5
  <2>2. f \in Injection(1..n, S \ {x})
    BY <1>3, <2>1 DEF Injection, IsInjective
  <2>3. IsFiniteSet(S \ {x}) /\ Cardinality(S \ {x}) = n - 1
    BY FS_RemoveElement
  <2>4. Cardinality(1..n) <= Cardinality(S \ {x})
    BY <2>2, <2>3, FS_Injection DEF ExistsInjection
  <2>5. QED
    BY <1>1, <2>3, <2>4, FS_Interval
<1>6. QED
  BY <1>4, <1>5

LEMMA WaitingIsFinite == \A by, l : IsFiniteSet(Waiting(by, l)) /\ Cardinality(Waiting(by, l)) \in 0..Cardinality(Observers)
                                    /\ Cardinality(Observers) \in Nat
<1> SUFFICES ASSUME NEW by, NEW l
             PROVE  IsFiniteSet(Waiting(by, l)) /\ Cardinality(Waiting(by, l)) \in 0..Cardinality(Observers)
                    /\ Cardinality(Observers) \in Nat
  OBVIOUS
<1>1. IsFiniteSet(Waiting(by, l)) /\ Cardinality(Waiting(by, l)) <= Cardinality(Observers)
  <2>1. Waiting(by, l) \subseteq Observers
    BY DEF Waiting
  <2>2. QED
    BY <2>1, TelemetryAssumption, FS_Subset
<1>2. Cardinality(Waiting(by, l)) \in Nat /\ Cardinality(Observers) \in Nat
  BY <1>1, TelemetryAssumption, FS_CardinalityType
<1>3. QED
  BY <1>1, <1>2

\* What a collector has read is nowhere changed: series stay, numbers grow, observations are
\* added at the end, and a histogram that is being collected is left alone.
SeriesGrow ==
    /\ DOMAIN counts \subseteq DOMAIN counts' /\ DOMAIN durations \subseteq DOMAIN durations'
    /\ \A l \in DOMAIN counts : counts[l] \in Nat /\ counts'[l] \in Nat /\ counts[l] <= counts'[l]
    /\ \A l \in DOMAIN durations :
         /\ Len(told[l]) \in Nat /\ Len(told'[l]) \in Nat /\ Len(told[l]) <= Len(told'[l])
         /\ \A k \in 1..Len(told[l]) : told'[l][k] = told[l][k]
         /\ durations[l].holder = Collector => durations'[l] = durations[l]

LEMMA ToldAreLists ==
  ASSUME SeriesSound
  PROVE  \A l \in DOMAIN durations : told[l] \in Seq(Took) /\ Len(told[l]) \in Nat
<1> SUFFICES ASSUME NEW l \in DOMAIN durations PROVE told[l] \in Seq(Took) /\ Len(told[l]) \in Nat
  OBVIOUS
<1>1. HistogramSound(durations[l], told[l], l, observer)
  BY DEF SeriesSound, HistogramsSound
<1>2. told[l] \in Seq(Took)
  BY <1>1 DEF HistogramSound
<1>3. QED
  BY <1>2

LEMMA ObserverNames == "" \notin Observers /\ Collector \notin Observers
BY TelemetryAssumption DEF Collector

LEMMA SeriesAtFirst == TelemetryInit => SeriesSound
<1> SUFFICES ASSUME TelemetryInit PROVE SeriesSound
  OBVIOUS
<1>1. counts = <<>> /\ durations = <<>> /\ told = <<>> /\ DOMAIN <<>> = {} /\ observer = [o \in Observers |-> Resting]
  BY DEF TelemetryInit, NoSeries
<1>2. SeriesShape
  BY <1>1, FS_EmptySet DEF SeriesShape
<1>3. HistogramsSound /\ ObserversSound /\ CountsSound
  BY <1>1 DEF HistogramsSound, ObserversSound, CountsSound, ObserverSound
<1>4. QED
  BY <1>2, <1>3 DEF SeriesSound

LEMMA StepIsBegun ==
  ASSUME SeriesSound, NEW o \in Observers, NEW step, NEW outcome, NEW took \in Took,
         ObserveIngestStep(o, step, outcome, took)
  PROVE  SeriesSound' /\ SeriesGrow
<1> DEFINE at == <<BoundedIngestStep(step), BoundedIngestOutcome(outcome)>>
           r == [at |-> "count", labels |-> at, took |-> took]
<1> HIDE DEF at
<1>1. /\ counts' = WithSeries(counts, at, 0) /\ observer[o] = Resting
      /\ observer' = [observer EXCEPT ![o] = r]
      /\ durations' = durations /\ told' = told
  BY DEF ObserveIngestStep, Goes, at
<1>2. /\ DOMAIN counts' = DOMAIN counts \cup {at} /\ counts' \in [DOMAIN counts' -> Nat]
      /\ \A l \in DOMAIN counts : counts'[l] = counts[l]
      /\ at \notin DOMAIN counts => counts'[at] = 0
  BY <1>1 DEF WithSeries, SeriesSound, SeriesShape
<1>3. SeriesShape'
  <2>1. IsFiniteSet(DOMAIN counts')
    BY <1>2, FS_AddElement DEF SeriesSound, SeriesShape
  <2>2. QED
    BY <1>1, <1>2, <2>1 DEF SeriesSound, SeriesShape
<1>4. /\ observer' = [p \in Observers |-> observer'[p]] /\ observer'[o] = r
      /\ \A p \in Observers \ {o} : observer'[p] = observer[p]
  BY <1>1 DEF SeriesSound, ObserversSound
<1>5. ObserverSound(o, r, counts', durations')
  BY <1>2 DEF ObserverSound
<1>6. \A p \in Observers \ {o} : ObserverSound(p, observer[p], counts', durations')
  BY <1>1, <1>2 DEF SeriesSound, ObserversSound, ObserverSound
<1>7. ObserversSound'
  BY <1>4, <1>5, <1>6 DEF ObserversSound
<1>8. observer[o].at = "rest" /\ observer'[o].at = "count"
  BY <1>1, <1>4 DEF Resting
<1>9. HistogramsSound'
  <2> SUFFICES ASSUME NEW l \in DOMAIN durations PROVE HistogramSound(durations[l], told[l], l, observer')
    BY <1>1 DEF HistogramsSound
  <2>1. HistogramSound(durations[l], told[l], l, observer)
    BY DEF SeriesSound, HistogramsSound
  <2>2. durations[l].holder \in Observers => observer'[durations[l].holder] = observer[durations[l].holder]
    BY <1>4, <1>8, <2>1 DEF HistogramSound
  <2>3. QED
    BY <2>1, <2>2 DEF HistogramSound
<1>10. \A l : Waiting(observer', l) = Waiting(observer, l)
  BY <1>4, <1>8 DEF Waiting
<1>11. CountsSound'
  BY <1>1, <1>2, <1>10 DEF CountsSound, SeriesSound, SeriesShape
<1>12. SeriesGrow
  BY <1>1, <1>2, ToldAreLists DEF SeriesGrow, SeriesSound, SeriesShape
<1>13. QED
  BY <1>3, <1>7, <1>9, <1>11, <1>12 DEF SeriesSound

LEMMA StepIsCounted ==
  ASSUME SeriesSound, NEW o \in Observers, Count(o)
  PROVE  SeriesSound' /\ SeriesGrow
<1> DEFINE at == observer[o].labels
           r == [at |-> "time", labels |-> at, took |-> observer[o].took]
<1>1. /\ observer[o].at = "count" /\ counts' = [counts EXCEPT ![at] = @ + 1]
      /\ durations' = WithSeries(durations, at, NewHistogram) /\ told' = WithSeries(told, at, <<>>)
      /\ observer' = [observer EXCEPT ![o] = [observer[o] EXCEPT !.at = "time"]]
  BY DEF Count, Goes
<1>2. /\ observer[o] = [at |-> "count", labels |-> at, took |-> observer[o].took]
      /\ observer[o].took \in Took /\ at \in DOMAIN counts
  BY <1>1 DEF SeriesSound, ObserversSound, ObserverSound, Resting
<1>3. [observer[o] EXCEPT !.at = "time"] = r
  BY <1>2
<1>4. /\ observer' = [p \in Observers |-> observer'[p]] /\ observer'[o] = r
      /\ \A p \in Observers \ {o} : observer'[p] = observer[p]
  BY <1>1, <1>3 DEF SeriesSound, ObserversSound
<1>5. r.at = "time" /\ r.labels = at /\ r.took \in Took /\ r = [at |-> r.at, labels |-> r.labels, took |-> r.took]
  BY <1>2
<1> HIDE DEF at, r
<1>6. /\ DOMAIN counts' = DOMAIN counts /\ counts' \in [DOMAIN counts -> Nat]
      /\ \A l \in DOMAIN counts : counts'[l] = IF l = at THEN counts[l] + 1 ELSE counts[l]
  BY <1>1, <1>2 DEF SeriesSound, SeriesShape
<1>7. /\ DOMAIN durations' = DOMAIN durations \cup {at}
      /\ durations' = [l \in DOMAIN durations \cup {at} |-> IF l \in DOMAIN durations THEN durations[l] ELSE NewHistogram]
      /\ told' = [l \in DOMAIN durations \cup {at} |-> IF l \in DOMAIN durations THEN told[l] ELSE <<>>]
  BY <1>1 DEF WithSeries, SeriesSound, SeriesShape
<1>8. SeriesShape'
  BY <1>2, <1>6, <1>7 DEF SeriesSound, SeriesShape
<1>9. ObserverSound(o, r, counts', durations')
  BY <1>2, <1>5, <1>6, <1>7 DEF ObserverSound
<1>10. ASSUME NEW p \in Observers \ {o} PROVE ObserverSound(p, observer[p], counts', durations')
  <2>1. ObserverSound(p, observer[p], counts, durations)
    BY DEF SeriesSound, ObserversSound
  <2>2. observer[p] # Resting => observer[p].labels \in DOMAIN counts'
    BY <1>6, <2>1 DEF ObserverSound
  <2>3. \A l \in DOMAIN durations : l \in DOMAIN durations' /\ durations'[l] = durations[l]
    BY <1>7
  <2>4. QED
    BY <2>1, <2>2, <2>3 DEF ObserverSound
<1>11. ObserversSound'
  BY <1>4, <1>9, <1>10 DEF ObserversSound
<1>12. HistogramsSound'
  <2> SUFFICES ASSUME NEW l \in DOMAIN durations' PROVE HistogramSound(durations'[l], told'[l], l, observer')
    BY DEF HistogramsSound
  <2>1. CASE l \in DOMAIN durations
    <3>1. HistogramSound(durations[l], told[l], l, observer)
      BY <2>1 DEF SeriesSound, HistogramsSound
    <3>2. durations[l].holder \in Observers => observer'[durations[l].holder] = observer[durations[l].holder]
      BY <1>1, <1>4, <3>1 DEF HistogramSound
    <3>3. durations'[l] = durations[l] /\ told'[l] = told[l]
      BY <1>7, <2>1
    <3>4. QED
      BY <3>1, <3>2, <3>3 DEF HistogramSound
  <2>2. CASE l \notin DOMAIN durations
    <3>1. durations'[l] = NewHistogram /\ told'[l] = <<>>
      BY <1>7, <2>2
    <3> DEFINE h == NewHistogram
    <3>2. /\ h = [count |-> h.count, fill |-> h.fill, holder |-> h.holder] /\ h.count = 0 /\ h.holder = ""
          /\ h.fill = [b \in DOMAIN Buckets |-> h.fill[b]] /\ \A b \in DOMAIN Buckets : h.fill[b] = 0
      BY DEF NewHistogram
    <3>3. <<>> \in Seq(Took) /\ Len(<<>>) = 0
      OBVIOUS
    <3> HIDE DEF h
    <3>4. HistogramSound(h, <<>>, l, observer')
      BY <3>2, <3>3, WithinNone, ObserverNames DEF HistogramSound
    <3>5. QED
      BY <3>1, <3>4 DEF h
  <2>3. QED
    BY <2>1, <2>2
<1>13. ASSUME NEW l PROVE Waiting(observer', l) = IF l = at THEN Waiting(observer, l) \cup {o} ELSE Waiting(observer, l)
  BY <1>1, <1>4, <1>5 DEF Waiting
<1>14. o \notin Waiting(observer, at)
  BY <1>1 DEF Waiting
<1>15. CountsSound'
  <2> SUFFICES ASSUME NEW l \in DOMAIN durations' PROVE counts'[l] = Len(told'[l]) + Cardinality(Waiting(observer', l))
    BY DEF CountsSound
  <2>1. IsFiniteSet(Waiting(observer, l)) /\ Cardinality(Waiting(observer, l)) \in Nat
    BY WaitingIsFinite
  <2>2. Cardinality(Waiting(observer', l)) = IF l = at THEN Cardinality(Waiting(observer, l)) + 1 ELSE Cardinality(Waiting(observer, l))
    BY <1>13, <1>14, <2>1, FS_AddElement
  <2>3. CASE l \in DOMAIN durations
    <3>1. counts[l] = Len(told[l]) + Cardinality(Waiting(observer, l)) /\ told'[l] = told[l] /\ Len(told[l]) \in Nat
          /\ l \in DOMAIN counts
      BY <1>7, <2>3, ToldAreLists DEF SeriesSound, SeriesShape, CountsSound
    <3>2. QED
      BY <1>6, <2>1, <2>2, <3>1
  <2>4. CASE l \notin DOMAIN durations
    <3>1. l = at /\ told'[l] = <<>> /\ Len(told'[l]) = 0
      BY <1>7, <2>4
    <3>2. counts[l] = 0 /\ counts'[l] = 1
      BY <1>2, <1>6, <2>4, <3>1 DEF SeriesSound, SeriesShape
    <3>3. Waiting(observer, l) = {}
      BY <2>4 DEF Waiting, SeriesSound, ObserversSound, ObserverSound, Resting
    <3>4. QED
      BY <2>2, <3>1, <3>2, <3>3, FS_EmptySet
  <2>5. QED
    BY <2>3, <2>4
<1>16. SeriesGrow
  BY <1>6, <1>7, ToldAreLists DEF SeriesGrow, SeriesSound, SeriesShape
<1>17. QED
  BY <1>8, <1>11, <1>12, <1>15, <1>16 DEF SeriesSound

LEMMA FillingHolds ==
  ASSUME SeriesSound
  PROVE  \A o \in Observers : observer[o].at = "fill" => durations[observer[o].labels].holder = o
<1> SUFFICES ASSUME NEW o \in Observers, observer[o].at = "fill" PROVE durations[observer[o].labels].holder = o
  OBVIOUS
<1>1. ObserverSound(o, observer[o], counts, durations) /\ observer[o] # Resting
  BY DEF SeriesSound, ObserversSound, Resting
<1>2. QED
  BY <1>1 DEF ObserverSound

LEMMA HistogramWritten ==
  /\ \A d, by : d = [count |-> d.count, fill |-> d.fill, holder |-> d.holder]
       => [d EXCEPT !.holder = by] = [count |-> d.count, fill |-> d.fill, holder |-> by]
  /\ \A d, by, fill : d = [count |-> d.count, fill |-> d.fill, holder |-> by]
       => [d EXCEPT !.fill = fill] = [count |-> d.count, fill |-> fill, holder |-> by]
OBVIOUS

\* One histogram is taken by its observer.
LEMMA HistogramIsTaken ==
  ASSUME SeriesSound, NEW o \in Observers, BeginObserve(o)
  PROVE  SeriesSound' /\ SeriesGrow
<1> DEFINE at == observer[o].labels
           took == observer[o].took
           r == [at |-> "fill", labels |-> at, took |-> took]
           n == durations[at].count
           h == [count |-> n + 1, fill |-> durations[at].fill, holder |-> o]
<1>1. /\ observer[o].at = "time" /\ durations[at].holder = ""
      /\ durations' = [durations EXCEPT ![at].holder = o, ![at].count = @ + 1]
      /\ told' = [told EXCEPT ![at] = Append(@, took)] /\ counts' = counts
      /\ observer' = [observer EXCEPT ![o] = [observer[o] EXCEPT !.at = "fill"]]
  BY DEF BeginObserve, Goes, IsFree
<1>2. /\ observer[o] = [at |-> "time", labels |-> at, took |-> took]
      /\ took \in Took /\ at \in DOMAIN durations
  <2>1. ObserverSound(o, observer[o], counts, durations)
    BY DEF SeriesSound, ObserversSound
  <2>2. observer[o].at = "time"
    BY <1>1
  <2>3. QED
    BY <2>1, <2>2 DEF ObserverSound, Resting
<1>3. /\ observer' = [p \in Observers |-> observer'[p]] /\ observer'[o] = r
      /\ \A p \in Observers \ {o} : observer'[p] = observer[p]
  <2>1. [observer[o] EXCEPT !.at = "fill"] = r
    BY <1>2
  <2>2. QED
    BY <1>1, <2>1 DEF SeriesSound, ObserversSound
<1>4. r.at = "fill" /\ r.labels = at /\ r.took = took /\ r = [at |-> r.at, labels |-> r.labels, took |-> r.took]
  OBVIOUS
<1>5. HistogramSound(durations[at], told[at], at, observer)
  BY <1>2 DEF SeriesSound, HistogramsSound
<1>6. durations' = [durations EXCEPT ![at] = h]
  <2>1. durations[at] = [count |-> n, fill |-> durations[at].fill, holder |-> durations[at].holder]
    BY <1>5 DEF HistogramSound
  <2> DEFINE d == durations[at]
             m == n + 1
  <2> HIDE DEF d, m
  <2>2. [[durations[at] EXCEPT !.holder = o] EXCEPT !.count = n + 1] = h
    <3>1. d = [count |-> d.count, fill |-> d.fill, holder |-> d.holder]
      BY <2>1 DEF d
    <3> DEFINE g == [d EXCEPT !.holder = o]
    <3>2. g = [count |-> d.count, fill |-> d.fill, holder |-> o]
      BY <3>1
    <3> HIDE DEF g
    <3>3. [g EXCEPT !.count = m] = [count |-> m, fill |-> d.fill, holder |-> o]
      BY <3>2
    <3>4. QED
      BY <3>3 DEF d, m, g
  <2>3. durations' = [durations EXCEPT ![at] = [[durations[at] EXCEPT !.holder = o] EXCEPT !.count = n + 1]]
    BY <1>1, <1>2, <2>1
  <2>4. QED
    BY <2>2, <2>3
<1>7. h.count = n + 1 /\ h.fill = durations[at].fill /\ h.holder = o
      /\ h = [count |-> h.count, fill |-> h.fill, holder |-> h.holder]
  OBVIOUS
<1> HIDE DEF r, h
<1>8. /\ DOMAIN durations' = DOMAIN durations /\ durations'[at] = h
      /\ durations' = [l \in DOMAIN durations |-> durations'[l]]
      /\ \A l \in DOMAIN durations \ {at} : durations'[l] = durations[l]
  BY <1>2, <1>6 DEF SeriesSound, SeriesShape
<1>9. /\ told' = [l \in DOMAIN durations |-> told'[l]] /\ told'[at] = Append(told[at], took)
      /\ \A l \in DOMAIN durations \ {at} : told'[l] = told[l]
  BY <1>1, <1>2 DEF SeriesSound, SeriesShape
<1>0. observer[o].labels = at
  OBVIOUS
<1> HIDE DEF at, took
<1>10. /\ told[at] \in Seq(Took) /\ Len(told[at]) = n /\ n \in Nat
       /\ told'[at] \in Seq(Took) /\ Len(told'[at]) = n + 1 /\ told'[at][n + 1] = took
       /\ \A k \in 1..n : told'[at][k] = told[at][k]
  <2>1. told[at] \in Seq(Took) /\ Len(told[at]) = n
    BY <1>5 DEF HistogramSound
  <2> HIDE DEF n
  <2>2. QED
    BY <1>2, <1>9, <2>1
<1> HIDE DEF n
<1>11. SeriesShape'
  BY <1>1, <1>8, <1>9 DEF SeriesSound, SeriesShape
<1>12. ObserversSound'
  <2>1. ObserverSound(o, r, counts', durations')
    BY <1>1, <1>2, <1>4, <1>7, <1>8 DEF ObserverSound, SeriesSound, SeriesShape
  <2>2. ASSUME NEW p \in Observers \ {o} PROVE ObserverSound(p, observer[p], counts', durations')
    <3>1. ObserverSound(p, observer[p], counts, durations)
      BY DEF SeriesSound, ObserversSound
    <3>2. observer[p].at = "fill" => observer[p].labels # at
      <4>1. durations[at].holder = ""
        BY <1>1
      <4>2. observer[p].at = "fill" => durations[observer[p].labels].holder = p
        BY FillingHolds
      <4>3. QED
        BY <4>1, <4>2, ObserverNames
    <3>3. QED
      BY <1>1, <1>8, <3>1, <3>2 DEF ObserverSound, Resting
  <2>3. QED
    BY <1>3, <2>1, <2>2 DEF ObserversSound
<1>13. HistogramsSound'
  <2>1. HistogramSound(durations'[at], told'[at], at, observer')
    <3>1. \A b \in DOMAIN Buckets : h.fill[b] = Within(told'[at], n, Buckets[b])
      <4>1. \A b \in DOMAIN Buckets : h.fill[b] = Within(told[at], n, Buckets[b])
        BY <1>1, <1>5, <1>7, TelemetryAssumption DEF HistogramSound, n
      <4>2. \A bound : Within(told'[at], n, bound) = Within(told[at], n, bound)
        BY <1>10, WithinSame
      <4>3. QED
        BY <4>1, <4>2
    <3>2. h.count > 0 /\ h.count - 1 = n
      BY <1>7, <1>10
    <3>3. h.fill = [b \in DOMAIN Buckets |-> h.fill[b]]
      BY <1>5, <1>7 DEF HistogramSound
    <3>4. observer'[o].at = "fill" /\ observer'[o].labels = at /\ observer'[o].took = took
      BY <1>3, <1>4
    <3>5. HistogramSound(h, told'[at], at, observer')
      BY <1>7, <1>10, <3>1, <3>2, <3>3, <3>4 DEF HistogramSound
    <3>6. QED
      BY <1>8, <3>5
  <2>2. ASSUME NEW l \in DOMAIN durations \ {at} PROVE HistogramSound(durations'[l], told'[l], l, observer')
    <3>1. HistogramSound(durations[l], told[l], l, observer)
      BY DEF SeriesSound, HistogramsSound
    <3>2. durations[l].holder \in Observers => observer'[durations[l].holder] = observer[durations[l].holder]
      BY <1>1, <1>3, <3>1 DEF HistogramSound
    <3>3. QED
      BY <1>8, <1>9, <3>1, <3>2 DEF HistogramSound
  <2>3. QED
    BY <1>8, <2>1, <2>2 DEF HistogramsSound
<1>14. CountsSound'
  <2> SUFFICES ASSUME NEW l \in DOMAIN durations PROVE counts[l] = Len(told'[l]) + Cardinality(Waiting(observer', l))
    BY <1>1, <1>8 DEF CountsSound
  <2>1. /\ IsFiniteSet(Waiting(observer, l)) /\ Cardinality(Waiting(observer, l)) \in Nat
        /\ counts[l] = Len(told[l]) + Cardinality(Waiting(observer, l))
    BY WaitingIsFinite DEF SeriesSound, CountsSound
  <2>2. CASE l = at
    <3>1. Waiting(observer', l) = Waiting(observer, l) \ {o} /\ o \in Waiting(observer, l)
      BY <1>1, <1>2, <1>3, <1>4, <2>2 DEF Waiting, at
    <3>2. Cardinality(Waiting(observer', l)) = Cardinality(Waiting(observer, l)) - 1
      BY <2>1, <3>1, FS_RemoveElement
    <3>3. QED
      BY <1>10, <2>1, <2>2, <3>2
  <2>3. CASE l # at
    <3>1. Waiting(observer', l) = Waiting(observer, l)
      BY <1>1, <1>3, <1>4, <1>0, <2>3 DEF Waiting
    <3>2. QED
      BY <1>9, <2>1, <2>3, <3>1
  <2>4. QED
    BY <2>2, <2>3
<1>15. SeriesGrow
  <2>1. ASSUME NEW l \in DOMAIN durations
        PROVE  /\ Len(told[l]) \in Nat /\ Len(told'[l]) \in Nat /\ Len(told[l]) <= Len(told'[l])
               /\ \A k \in 1..Len(told[l]) : told'[l][k] = told[l][k]
    BY <1>9, <1>10, ToldAreLists
  <2>2. \A l \in DOMAIN durations : durations[l].holder = Collector => durations'[l] = durations[l]
    BY <1>1, <1>8 DEF Collector
  <2>3. \A l \in DOMAIN counts : counts[l] \in Nat /\ counts'[l] \in Nat /\ counts[l] <= counts'[l]
    <3>1. counts' = counts /\ \A l \in DOMAIN counts : counts[l] \in Nat
      BY <1>1 DEF SeriesSound, SeriesShape
    <3>2. QED
      BY <3>1
  <2>4. DOMAIN counts \subseteq DOMAIN counts' /\ DOMAIN durations \subseteq DOMAIN durations'
    BY <1>1, <1>8
  <2>5. QED
    BY <2>1, <2>2, <2>3, <2>4 DEF SeriesGrow
<1>16. QED
  BY <1>11, <1>12, <1>13, <1>14, <1>15 DEF SeriesSound

\* It is left with all its buckets filled.
LEMMA HistogramIsLeft ==
  ASSUME SeriesSound, NEW o \in Observers, FillBuckets(o)
  PROVE  SeriesSound' /\ SeriesGrow
<1> DEFINE at == observer[o].labels
           took == observer[o].took
           d == durations[at]
           n == d.count
           fill == [b \in DOMAIN Buckets |-> d.fill[b] + IF took <= Buckets[b] THEN 1 ELSE 0]
           h == [count |-> n, fill |-> fill, holder |-> ""]
<1>1. observer[o].at = "fill" /\ counts' = counts /\ told' = told
  BY DEF FillBuckets
<1>2. observer' = [observer EXCEPT ![o] = Resting]
  BY DEF FillBuckets, Goes
<1>3. durations' = [durations EXCEPT ![at].holder = "", ![at].fill = fill]
  BY DEF FillBuckets
<1>4. at \in DOMAIN durations /\ d.holder = o /\ took \in Took
  <2>1. ObserverSound(o, observer[o], counts, durations)
    BY DEF SeriesSound, ObserversSound
  <2>2. QED
    BY <1>1, <2>1 DEF ObserverSound, Resting
<1>5. /\ observer' = [p \in Observers |-> observer'[p]] /\ observer'[o] = Resting
      /\ \A p \in Observers \ {o} : observer'[p] = observer[p]
  BY <1>2 DEF SeriesSound, ObserversSound
<1>6. HistogramSound(d, told[at], at, observer)
  BY <1>4 DEF SeriesSound, HistogramsSound
<1>7. /\ h.count = n /\ h.fill = fill /\ h.holder = "" /\ h = [count |-> h.count, fill |-> h.fill, holder |-> h.holder]
      /\ fill = [b \in DOMAIN Buckets |-> fill[b]]
      /\ \A b \in DOMAIN Buckets : fill[b] = d.fill[b] + IF took <= Buckets[b] THEN 1 ELSE 0
  OBVIOUS
<1> HIDE DEF fill
<1>8. durations' = [durations EXCEPT ![at] = h]
  <2>1. d = [count |-> n, fill |-> d.fill, holder |-> d.holder]
    BY <1>6 DEF HistogramSound
  <2> DEFINE g == [d EXCEPT !.holder = ""]
  <2>2. durations' = [durations EXCEPT ![at] = [g EXCEPT !.fill = fill]]
    BY <1>3, <1>4
  <2> HIDE DEF d
  <2>3. g = [count |-> d.count, fill |-> d.fill, holder |-> ""]
    <3>1. d = [count |-> d.count, fill |-> d.fill, holder |-> d.holder]
      BY <2>1 DEF d
    <3>2. QED
      BY <3>1, HistogramWritten, Zenon
  <2> HIDE DEF g
  <2>4. g.count = d.count /\ g.fill = d.fill
    BY <2>3
  <2>5. g = [count |-> g.count, fill |-> g.fill, holder |-> ""]
    BY <2>3, <2>4
  <2>6. [g EXCEPT !.fill = fill] = [count |-> g.count, fill |-> fill, holder |-> ""]
    BY <2>5, HistogramWritten, Zenon
  <2>7. QED
    BY <2>2, <2>4, <2>6
<1> HIDE DEF h
<1>9. /\ DOMAIN durations' = DOMAIN durations /\ durations'[at] = h
      /\ durations' = [l \in DOMAIN durations |-> durations'[l]]
      /\ \A l \in DOMAIN durations \ {at} : durations'[l] = durations[l]
  BY <1>4, <1>8 DEF SeriesSound, SeriesShape
<1>10. /\ told[at] \in Seq(Took) /\ Len(told[at]) = n /\ n \in Nat \ {0} /\ told[at][n] = took
       /\ \A b \in DOMAIN Buckets : d.fill[b] = Within(told[at], n - 1, Buckets[b])
  <2>1. told[at] \in Seq(Took) /\ Len(told[at]) = n
    BY <1>6 DEF HistogramSound
  <2>2. n > 0 /\ told[at][n] = took /\ \A b \in DOMAIN Buckets : d.fill[b] = Within(told[at], n - 1, Buckets[b])
    BY <1>4, <1>6 DEF HistogramSound
  <2> HIDE DEF n
  <2>3. n \in Nat
    BY <2>1
  <2>4. QED
    BY <2>1, <2>2, <2>3
<1>11. observer[o].labels = at /\ Resting.at = "rest"
  BY DEF Resting
<1> HIDE DEF at, took, d, n
<1>12. SeriesShape'
  BY <1>1, <1>9 DEF SeriesSound, SeriesShape
<1>13. ObserversSound'
  <2>1. ASSUME NEW p \in Observers \ {o} PROVE ObserverSound(p, observer[p], counts', durations')
    <3>1. ObserverSound(p, observer[p], counts, durations)
      BY DEF SeriesSound, ObserversSound
    <3>2. observer[p].at = "fill" => observer[p].labels # at
      <4>1. observer[p].at = "fill" => durations[observer[p].labels].holder = p
        BY FillingHolds
      <4>2. QED
        BY <1>4, <4>1 DEF d
    <3>3. QED
      BY <1>1, <1>9, <3>1, <3>2 DEF ObserverSound, Resting
  <2>2. ObserverSound(o, Resting, counts', durations')
    BY DEF ObserverSound
  <2>3. QED
    BY <1>5, <2>1, <2>2 DEF ObserversSound
<1>14. HistogramsSound'
  <2>1. HistogramSound(h, told[at], at, observer')
    <3>1. \A b \in DOMAIN Buckets : fill[b] = Within(told[at], n, Buckets[b])
      <4> SUFFICES ASSUME NEW b \in DOMAIN Buckets PROVE fill[b] = Within(told[at], n, Buckets[b])
        OBVIOUS
      <4>1. Within(told[at], n, Buckets[b]) = Within(told[at], n - 1, Buckets[b]) + IF told[at][n] <= Buckets[b] THEN 1 ELSE 0
        BY <1>10, WithinOneMore
      <4>2. QED
        BY <1>7, <1>10, <4>1
    <3>2. QED
      BY <1>7, <1>10, <3>1, ObserverNames DEF HistogramSound
  <2>2. ASSUME NEW l \in DOMAIN durations \ {at} PROVE HistogramSound(durations'[l], told'[l], l, observer')
    <3>1. HistogramSound(durations[l], told[l], l, observer)
      BY DEF SeriesSound, HistogramsSound
    <3>2. durations[l].holder \in Observers => observer[durations[l].holder].labels = l
      BY <3>1 DEF HistogramSound
    <3>3. durations[l].holder \in Observers => observer'[durations[l].holder] = observer[durations[l].holder]
      BY <1>5, <1>11, <3>2
    <3>4. QED
      BY <1>1, <1>9, <3>1, <3>3 DEF HistogramSound
  <2>3. QED
    BY <1>1, <1>9, <2>1, <2>2 DEF HistogramsSound
<1>15. CountsSound'
  <2>1. \A l : Waiting(observer', l) = Waiting(observer, l)
    BY <1>1, <1>5, <1>11 DEF Waiting
  <2>2. QED
    BY <1>1, <1>9, <2>1 DEF SeriesSound, CountsSound
<1>16. SeriesGrow
  <2>1. \A l \in DOMAIN durations : durations[l].holder = Collector => durations'[l] = durations[l]
    BY <1>4, <1>9, ObserverNames DEF d
  <2>2. \A l \in DOMAIN counts : counts[l] \in Nat
    BY DEF SeriesSound, SeriesShape
  <2>3. QED
    BY <1>1, <1>9, <2>1, <2>2, ToldAreLists DEF SeriesGrow
<1>17. QED
  BY <1>12, <1>13, <1>14, <1>15, <1>16 DEF SeriesSound

\* The collector takes and leaves a histogram that no observer holds.
LEMMA CollectorHolds ==
  ASSUME SeriesSound, NEW l \in DOMAIN durations, NEW by \in {"", Collector}, durations[l].holder \in {"", Collector},
         durations' = [durations EXCEPT ![l].holder = by], UNCHANGED <<counts, observer, told>>
  PROVE  /\ SeriesSound'
         /\ DOMAIN durations' = DOMAIN durations
         /\ durations'[l] = [count |-> durations[l].count, fill |-> durations[l].fill, holder |-> by]
         /\ \A k \in DOMAIN durations \ {l} : durations'[k] = durations[k]
<1> DEFINE d == durations[l]
           h == [count |-> d.count, fill |-> d.fill, holder |-> by]
<1>1. HistogramSound(d, told[l], l, observer)
  BY DEF SeriesSound, HistogramsSound
<1>2. d = [count |-> d.count, fill |-> d.fill, holder |-> d.holder]
  BY <1>1 DEF HistogramSound
<1>3. durations' = [durations EXCEPT ![l] = h]
  <2>1. durations' = [durations EXCEPT ![l] = [d EXCEPT !.holder = by]]
    OBVIOUS
  <2> HIDE DEF d
  <2>2. [d EXCEPT !.holder = by] = h
    <3>1. d = [count |-> d.count, fill |-> d.fill, holder |-> d.holder]
      BY <1>2 DEF d
    <3>2. QED
      BY <3>1, HistogramWritten, Zenon
  <2>3. QED
    BY <2>1, <2>2
<1>4. h.count = d.count /\ h.fill = d.fill /\ h.holder = by /\ h = [count |-> h.count, fill |-> h.fill, holder |-> h.holder]
  OBVIOUS
<1> HIDE DEF h
<1>5. /\ DOMAIN durations' = DOMAIN durations /\ durations'[l] = h
      /\ durations' = [k \in DOMAIN durations |-> durations'[k]]
      /\ \A k \in DOMAIN durations \ {l} : durations'[k] = durations[k]
  BY <1>3 DEF SeriesSound, SeriesShape
<1>6. SeriesShape'
  BY <1>5 DEF SeriesSound, SeriesShape
<1>7. HistogramSound(h, told[l], l, observer)
  BY <1>1, <1>4, ObserverNames DEF HistogramSound
<1>8. HistogramsSound'
  BY <1>5, <1>7 DEF SeriesSound, HistogramsSound
<1>9. ASSUME NEW o \in Observers PROVE ObserverSound(o, observer[o], counts, durations')
  <2>1. ObserverSound(o, observer[o], counts, durations)
    BY DEF SeriesSound, ObserversSound
  <2>2. observer[o].at = "fill" => observer[o].labels # l
    <3>1. observer[o].at = "fill" => durations[observer[o].labels].holder = o
      BY FillingHolds
    <3>2. QED
      BY <3>1, ObserverNames
  <2>3. QED
    BY <1>5, <2>1, <2>2 DEF ObserverSound, Resting
<1>10. ObserversSound' /\ CountsSound'
  BY <1>5, <1>9 DEF SeriesSound, ObserversSound, CountsSound
<1>11. QED
  BY <1>5, <1>6, <1>8, <1>10 DEF SeriesSound, h

Includes(todo, l) == \E k \in 1..Len(todo) : todo[k] = l

\* A histogram as it was after some of its observations.
Collected(h, s) == h.count \in 0..Len(s) /\ \A b \in DOMAIN Buckets : h.fill[b] = Within(s, h.count, Buckets[b])

\* What a collection has read, against the series as they are and the counters answered last.
DoingSound(at, todo, sc, sd, c, d, t, last) ==
    /\ at \in {"counters", "histograms", "count"}
    /\ \A l \in DOMAIN sc : l \in DOMAIN c /\ sc[l] \in Nat /\ sc[l] <= c[l]
    /\ at = "counters" => /\ todo \in Seq(DOMAIN c) /\ DOMAIN sd = {}
                          /\ \A l \in DOMAIN last : (l \in DOMAIN sc /\ last[l] <= sc[l]) \/ Includes(todo, l)
    /\ at # "counters" =>
         /\ todo \in Seq(DOMAIN d) /\ DOMAIN sd \subseteq DOMAIN d
         /\ \A l \in DOMAIN last : l \in DOMAIN sc /\ last[l] <= sc[l]
         /\ \A l \in DOMAIN sc : sc[l] > 0 => l \in DOMAIN sd \/ Includes(todo, l)
         /\ \A l \in DOMAIN sd : \/ at = "count" /\ l = Head(todo)
                                 \/ Collected(sd[l], t[l]) /\ (l \in DOMAIN sc => sc[l] <= sd[l].count + Cardinality(Observers))
    /\ at = "count" => /\ todo # <<>> /\ Head(todo) \in DOMAIN sd /\ d[Head(todo)].holder = Collector
                       /\ sd[Head(todo)] = [fill |-> d[Head(todo)].fill, count |-> 0]

Latest(answers) == IF answers = <<>> THEN NoSeries ELSE answers[Len(answers)].counts

ScrapeSound ==
    \/ scrape = NoScrape
    \/ \E at, todo, sc, sd : /\ scrape = Collection(at, todo, sc, sd) /\ Len(scraped) < MaxScrapes
                            /\ DoingSound(at, todo, sc, sd, counts, durations, told, Latest(scraped))

\* An answer tells of series that are still there, and of no more than they have come to since.
AnswerSound(x, c, d, t) ==
    /\ \A l \in DOMAIN x.counts : l \in DOMAIN c /\ x.counts[l] \in Nat /\ x.counts[l] <= c[l]
    /\ \A l \in DOMAIN x.durations : l \in DOMAIN d /\ Collected(x.durations[l], t[l])

AnswersSound ==
    /\ \E S : scraped \in Seq(S)
    /\ Len(scraped) <= MaxScrapes
    /\ \A k \in DOMAIN scraped : AnswerSound(scraped[k], counts, durations, told)
    /\ CountersGrow

TelemetryInv == SeriesSound /\ ScrapeSound /\ AnswersSound

LEMMA CollectedOutlasts ==
  ASSUME NEW h, NEW s, NEW t, Len(s) \in Nat, Len(t) \in Nat, Len(s) <= Len(t), \A k \in 1..Len(s) : t[k] = s[k],
         Collected(h, s)
  PROVE  Collected(h, t)
<1>1. h.count \in 0..Len(s) /\ h.count \in 0..Len(t)
  BY DEF Collected
<1>2. \A bound : Within(t, h.count, bound) = Within(s, h.count, bound)
  BY <1>1, WithinSame
<1>3. QED
  BY <1>1, <1>2 DEF Collected

\* What was read stays true while goroutines observe.
LEMMA ReadingsOutlast ==
  ASSUME SeriesSound, SeriesGrow, ScrapeSound, AnswersSound, UNCHANGED <<scrape, scraped>>
  PROVE  ScrapeSound' /\ AnswersSound'
<1>1. \A h : \A l \in DOMAIN durations : Collected(h, told[l]) => l \in DOMAIN durations' /\ Collected(h, told'[l])
  <2> SUFFICES ASSUME NEW h, NEW l \in DOMAIN durations, Collected(h, told[l])
               PROVE  l \in DOMAIN durations' /\ Collected(h, told'[l])
    OBVIOUS
  <2>1. /\ Len(told[l]) \in Nat /\ Len(told'[l]) \in Nat /\ Len(told[l]) <= Len(told'[l])
        /\ \A k \in 1..Len(told[l]) : told'[l][k] = told[l][k]
    BY DEF SeriesGrow
  <2>2. l \in DOMAIN durations'
    BY DEF SeriesGrow
  <2>3. QED
    BY <2>1, <2>2, CollectedOutlasts
<1>2. \A l \in DOMAIN counts : \A n \in Nat : n <= counts[l] => l \in DOMAIN counts' /\ n <= counts'[l]
  BY DEF SeriesGrow
<1>3. AnswersSound'
  <2>1. \A k \in DOMAIN scraped : AnswerSound(scraped[k], counts', durations', told')
    BY <1>1, <1>2 DEF AnswersSound, AnswerSound
  <2>2. CountersGrow'
    BY DEF AnswersSound, CountersGrow
  <2>3. QED
    BY <2>1, <2>2 DEF AnswersSound
<1>4. ASSUME NEW at, NEW todo, NEW sc, NEW sd, DoingSound(at, todo, sc, sd, counts, durations, told, Latest(scraped))
      PROVE  DoingSound(at, todo, sc, sd, counts', durations', told', Latest(scraped))
  <2>1. \A l \in DOMAIN sc : l \in DOMAIN counts' /\ sc[l] \in Nat /\ sc[l] <= counts'[l]
    BY <1>2, <1>4 DEF DoingSound
  <2>2. todo \in Seq(DOMAIN counts) => todo \in Seq(DOMAIN counts')
    BY DEF SeriesGrow
  <2>3. todo \in Seq(DOMAIN durations) => todo \in Seq(DOMAIN durations')
    BY DEF SeriesGrow
  <2>4. DOMAIN sd \subseteq DOMAIN durations => DOMAIN sd \subseteq DOMAIN durations'
    BY DEF SeriesGrow
  <2>5. at # "counters" => \A l \in DOMAIN sd :
          \/ at = "count" /\ l = Head(todo)
          \/ Collected(sd[l], told'[l]) /\ (l \in DOMAIN sc => sc[l] <= sd[l].count + Cardinality(Observers))
    BY <1>1, <1>4 DEF DoingSound
  <2>6. at = "count" => durations'[Head(todo)] = durations[Head(todo)]
    BY <1>4 DEF DoingSound, SeriesGrow
  <2>7. QED
    BY <1>4, <2>1, <2>2, <2>3, <2>4, <2>5, <2>6 DEF DoingSound
<1>5. ScrapeSound'
  BY <1>4 DEF ScrapeSound
<1>6. QED
  BY <1>3, <1>5

LEMMA ListLosesItsHead ==
  ASSUME NEW S, NEW todo \in Seq(S), todo # <<>>
  PROVE  Tail(todo) \in Seq(S) /\ Head(todo) \in S /\ \A l : Includes(todo, l) => l = Head(todo) \/ Includes(Tail(todo), l)
<1>1. /\ Tail(todo) \in Seq(S) /\ Head(todo) \in S /\ Len(todo) \in Nat \ {0} /\ Len(Tail(todo)) = Len(todo) - 1
      /\ todo[1] = Head(todo) /\ \A k \in 1..(Len(todo) - 1) : Tail(todo)[k] = todo[k + 1]
  OBVIOUS
<1>2. ASSUME NEW l, NEW k \in 1..Len(todo), todo[k] = l, l # Head(todo) PROVE Includes(Tail(todo), l)
  <2>1. k - 1 \in 1..(Len(todo) - 1) /\ (k - 1) + 1 = k
    BY <1>1, <1>2
  <2>2. Tail(todo)[k - 1] = l
    BY <1>1, <1>2, <2>1
  <2>3. QED
    BY <1>1, <2>1, <2>2 DEF Includes
<1>3. QED
  BY <1>1, <1>2 DEF Includes

\* What is being collected, taken apart.
LEMMA CollectionIs ==
  ASSUME ScrapeSound, scrape.at # "rest"
  PROVE  \E todo, sc, sd : /\ scrape = Collection(scrape.at, todo, sc, sd) /\ scrape.todo = todo
                          /\ scrape.counts = sc /\ scrape.durations = sd
                          /\ DoingSound(scrape.at, todo, sc, sd, counts, durations, told, Latest(scraped))
                          /\ Len(scraped) < MaxScrapes
<1>1. scrape # NoScrape
  BY DEF NoScrape
<1>2. PICK at, todo, sc, sd : /\ scrape = Collection(at, todo, sc, sd) /\ Len(scraped) < MaxScrapes
                              /\ DoingSound(at, todo, sc, sd, counts, durations, told, Latest(scraped))
  BY <1>1 DEF ScrapeSound
<1>3. scrape.at = at /\ scrape.todo = todo /\ scrape.counts = sc /\ scrape.durations = sd
  BY <1>2 DEF Collection
<1>4. QED
  BY <1>2, <1>3

LEMMA LatestIsSound ==
  ASSUME AnswersSound
  PROVE  \A l \in DOMAIN Latest(scraped) : l \in DOMAIN counts /\ Latest(scraped)[l] \in Nat /\ Latest(scraped)[l] <= counts[l]
<1>1. CASE scraped = <<>>
  BY <1>1 DEF Latest, NoSeries
<1>2. CASE scraped # <<>>
  <2>1. Len(scraped) \in DOMAIN scraped
    BY <1>2 DEF AnswersSound
  <2>2. AnswerSound(scraped[Len(scraped)], counts, durations, told)
    BY <2>1 DEF AnswersSound
  <2>3. QED
    BY <1>2, <2>2 DEF AnswerSound, Latest
<1>3. QED
  BY <1>1, <1>2

LEMMA CollectionBegins ==
  ASSUME TelemetryInv, Handler
  PROVE  TelemetryInv'
<1> DEFINE todo == SetToSeq(DOMAIN counts)
<1>1. scrape' = Collection("counters", todo, NoSeries, NoSeries) /\ Len(scraped) < MaxScrapes /\ UNCHANGED <<counts, durations, observer, scraped, told>>
  BY DEF Handler
<1>2. todo \in Seq(DOMAIN counts) /\ \A l \in DOMAIN counts : Includes(todo, l)
  BY ListIsComplete DEF TelemetryInv, SeriesSound, SeriesShape, Includes
<1> HIDE DEF todo
<1>3. \A l \in DOMAIN Latest(scraped) : Includes(todo, l)
  BY <1>2, LatestIsSound DEF TelemetryInv
<1>4. DoingSound("counters", todo, NoSeries, NoSeries, counts, durations, told, Latest(scraped))
  BY <1>2, <1>3 DEF DoingSound, NoSeries
<1>5. ScrapeSound'
  BY <1>1, <1>4 DEF ScrapeSound
<1>6. SeriesSound' /\ AnswersSound'
  BY <1>1 DEF TelemetryInv, SeriesSound, SeriesShape, HistogramsSound, ObserversSound, CountsSound, AnswersSound, CountersGrow
<1>7. QED
  BY <1>5, <1>6 DEF TelemetryInv

LEMMA CounterIsRead ==
  ASSUME TelemetryInv, WriteCounter
  PROVE  TelemetryInv'
<1>1. scrape.at = "counters" /\ scrape.todo # <<>> /\ UNCHANGED <<counts, durations, observer, scraped, told>>
  BY DEF WriteCounter
<1>2. PICK todo, sc, sd : /\ scrape = Collection(scrape.at, todo, sc, sd) /\ scrape.todo = todo /\ scrape.counts = sc /\ scrape.durations = sd
                          /\ DoingSound(scrape.at, todo, sc, sd, counts, durations, told, Latest(scraped))
                          /\ Len(scraped) < MaxScrapes
  BY <1>1, CollectionIs DEF TelemetryInv
<1> DEFINE l == Head(todo)
           new == WithValue(sc, l, counts[l])
<1>3. scrape' = Collection("counters", Tail(todo), new, sd)
  BY <1>2 DEF WriteCounter
<1>4. DOMAIN new = DOMAIN sc \cup {l} /\ new[l] = counts[l] /\ \A k \in DOMAIN sc \ {l} : new[k] = sc[k]
  BY DEF WithValue
<1> HIDE DEF new
<1>5. /\ todo \in Seq(DOMAIN counts) /\ todo # <<>> /\ DOMAIN sd = {}
      /\ \A k \in DOMAIN Latest(scraped) : (k \in DOMAIN sc /\ Latest(scraped)[k] <= sc[k]) \/ Includes(todo, k)
      /\ \A k \in DOMAIN sc : k \in DOMAIN counts /\ sc[k] \in Nat /\ sc[k] <= counts[k]
  BY <1>1, <1>2 DEF DoingSound
<1>6. /\ Tail(todo) \in Seq(DOMAIN counts) /\ l \in DOMAIN counts
      /\ \A k : Includes(todo, k) => k = l \/ Includes(Tail(todo), k)
  BY <1>5, ListLosesItsHead
<1>7. counts[l] \in Nat
  BY <1>6 DEF TelemetryInv, SeriesSound, SeriesShape
<1> HIDE DEF l
<1>8. \A k \in DOMAIN new : k \in DOMAIN counts /\ new[k] \in Nat /\ new[k] <= counts[k]
  BY <1>4, <1>5, <1>6, <1>7
<1>9. \A k \in DOMAIN Latest(scraped) : (k \in DOMAIN new /\ Latest(scraped)[k] <= new[k]) \/ Includes(Tail(todo), k)
  BY <1>4, <1>5, <1>6, LatestIsSound DEF TelemetryInv
<1>10. DoingSound("counters", Tail(todo), new, sd, counts, durations, told, Latest(scraped))
  BY <1>5, <1>6, <1>8, <1>9 DEF DoingSound
<1>11. ScrapeSound'
  BY <1>1, <1>2, <1>3, <1>10 DEF ScrapeSound
<1>12. SeriesSound' /\ AnswersSound'
  BY <1>1 DEF TelemetryInv, SeriesSound, SeriesShape, HistogramsSound, ObserversSound, CountsSound, AnswersSound, CountersGrow
<1>13. QED
  BY <1>11, <1>12 DEF TelemetryInv

\* A step that is counted by now has its histogram, which is listed.
LEMMA HistogramsAreListed ==
  ASSUME TelemetryInv, ListHistograms
  PROVE  TelemetryInv'
<1> DEFINE hs == SetToSeq(DOMAIN durations)
<1>1. scrape.at = "counters" /\ scrape.todo = <<>> /\ UNCHANGED <<counts, durations, observer, scraped, told>>
  BY DEF ListHistograms
<1>2. PICK todo, sc, sd : /\ scrape = Collection(scrape.at, todo, sc, sd) /\ scrape.todo = todo /\ scrape.counts = sc /\ scrape.durations = sd
                          /\ DoingSound(scrape.at, todo, sc, sd, counts, durations, told, Latest(scraped))
                          /\ Len(scraped) < MaxScrapes
  BY <1>1, CollectionIs DEF TelemetryInv
<1>3. scrape' = Collection("histograms", hs, sc, sd)
  BY <1>2 DEF ListHistograms
<1>4. hs \in Seq(DOMAIN durations) /\ \A l \in DOMAIN durations : Includes(hs, l)
  <2>1. IsFiniteSet(DOMAIN durations)
    BY FS_Subset DEF TelemetryInv, SeriesSound, SeriesShape
  <2>2. QED
    BY <2>1, ListIsComplete DEF Includes
<1> HIDE DEF hs
<1>5. /\ todo = <<>> /\ DOMAIN sd = {}
      /\ \A k \in DOMAIN Latest(scraped) : (k \in DOMAIN sc /\ Latest(scraped)[k] <= sc[k]) \/ Includes(todo, k)
      /\ \A k \in DOMAIN sc : k \in DOMAIN counts /\ sc[k] \in Nat /\ sc[k] <= counts[k]
  BY <1>1, <1>2 DEF DoingSound
<1>6. \A k : ~Includes(todo, k)
  BY <1>5 DEF Includes
<1>7. \A k \in DOMAIN sc : sc[k] > 0 => Includes(hs, k)
  BY <1>4, <1>5 DEF TelemetryInv, SeriesSound, SeriesShape
<1>8. DoingSound("histograms", hs, sc, sd, counts, durations, told, Latest(scraped))
  BY <1>4, <1>5, <1>6, <1>7 DEF DoingSound
<1>9. ScrapeSound'
  BY <1>1, <1>2, <1>3, <1>8 DEF ScrapeSound
<1>10. SeriesSound' /\ AnswersSound'
  BY <1>1 DEF TelemetryInv, SeriesSound, SeriesShape, HistogramsSound, ObserversSound, CountsSound, AnswersSound, CountersGrow
<1>11. QED
  BY <1>9, <1>10 DEF TelemetryInv

\* A histogram is read under its lock, buckets first.
LEMMA BucketsAreRead ==
  ASSUME TelemetryInv, WriteBuckets
  PROVE  TelemetryInv'
<1> DEFINE l == Head(scrape.todo)
           row == [fill |-> durations[l].fill, count |-> 0]
<1>1. /\ scrape.at = "histograms" /\ scrape.todo # <<>> /\ durations[l].holder = ""
      /\ durations' = [durations EXCEPT ![l].holder = Collector] /\ UNCHANGED <<counts, observer, scraped, told>>
  BY DEF WriteBuckets, IsFree
<1>2. PICK todo, sc, sd : /\ scrape = Collection(scrape.at, todo, sc, sd) /\ scrape.todo = todo /\ scrape.counts = sc /\ scrape.durations = sd
                          /\ DoingSound(scrape.at, todo, sc, sd, counts, durations, told, Latest(scraped))
                          /\ Len(scraped) < MaxScrapes
  BY <1>1, CollectionIs DEF TelemetryInv
<1> DEFINE new == WithValue(sd, l, row)
<1>3. scrape' = Collection("count", todo, sc, new)
  BY <1>2 DEF WriteBuckets
<1>4. /\ todo \in Seq(DOMAIN durations) /\ todo # <<>> /\ l = Head(todo) /\ l \in DOMAIN durations /\ DOMAIN sd \subseteq DOMAIN durations
      /\ \A k \in DOMAIN Latest(scraped) : k \in DOMAIN sc /\ Latest(scraped)[k] <= sc[k]
      /\ \A k \in DOMAIN sc : sc[k] > 0 => k \in DOMAIN sd \/ Includes(todo, k)
      /\ \A k \in DOMAIN sd : Collected(sd[k], told[k]) /\ (k \in DOMAIN sc => sc[k] <= sd[k].count + Cardinality(Observers))
      /\ \A k \in DOMAIN sc : k \in DOMAIN counts /\ sc[k] \in Nat /\ sc[k] <= counts[k]
  <2>1. /\ todo \in Seq(DOMAIN durations) /\ DOMAIN sd \subseteq DOMAIN durations
        /\ \A k \in DOMAIN Latest(scraped) : k \in DOMAIN sc /\ Latest(scraped)[k] <= sc[k]
        /\ \A k \in DOMAIN sc : sc[k] > 0 => k \in DOMAIN sd \/ Includes(todo, k)
        /\ \A k \in DOMAIN sc : k \in DOMAIN counts /\ sc[k] \in Nat /\ sc[k] <= counts[k]
    BY <1>1, <1>2 DEF DoingSound
  <2>2. \A k \in DOMAIN sd : Collected(sd[k], told[k]) /\ (k \in DOMAIN sc => sc[k] <= sd[k].count + Cardinality(Observers))
    BY <1>1, <1>2 DEF DoingSound
  <2>3. todo # <<>> /\ l = Head(todo)
    BY <1>1, <1>2
  <2>4. l \in DOMAIN durations
    BY <2>1, <2>3, ListLosesItsHead
  <2>5. QED
    BY <2>1, <2>2, <2>3, <2>4
<1>5. /\ SeriesSound' /\ DOMAIN durations' = DOMAIN durations /\ durations'[l].holder = Collector
      /\ durations'[l].fill = durations[l].fill
  <2>1. /\ SeriesSound' /\ DOMAIN durations' = DOMAIN durations
        /\ durations'[l] = [count |-> durations[l].count, fill |-> durations[l].fill, holder |-> Collector]
    BY <1>1, <1>4, CollectorHolds DEF TelemetryInv
  <2>2. QED
    BY <2>1
<1>6. DOMAIN new = DOMAIN sd \cup {l} /\ new[l] = row /\ \A k \in DOMAIN sd \ {l} : new[k] = sd[k]
  BY DEF WithValue
<1>7. row = [fill |-> durations'[l].fill, count |-> 0]
  BY <1>5
<1> HIDE DEF l, row, new
<1>8. DoingSound("count", todo, sc, new, counts', durations', told', Latest(scraped))
  BY <1>1, <1>4, <1>5, <1>6, <1>7 DEF DoingSound
<1>9. ScrapeSound'
  BY <1>1, <1>2, <1>3, <1>8 DEF ScrapeSound
<1>10. AnswersSound'
  BY <1>1, <1>5 DEF TelemetryInv, AnswersSound, AnswerSound, CountersGrow
<1>11. QED
  BY <1>5, <1>9, <1>10 DEF TelemetryInv

LEMMA CountIsRead ==
  ASSUME TelemetryInv, WriteCount
  PROVE  TelemetryInv'
<1> DEFINE l == Head(scrape.todo)
           row == [fill |-> scrape.durations[l].fill, count |-> durations[l].count]
<1>1. /\ scrape.at = "count"
      /\ durations' = [durations EXCEPT ![l].holder = ""] /\ UNCHANGED <<counts, observer, scraped, told>>
  BY DEF WriteCount
<1>2. PICK todo, sc, sd : /\ scrape = Collection(scrape.at, todo, sc, sd) /\ scrape.todo = todo /\ scrape.counts = sc /\ scrape.durations = sd
                          /\ DoingSound(scrape.at, todo, sc, sd, counts, durations, told, Latest(scraped))
                          /\ Len(scraped) < MaxScrapes
  BY <1>1, CollectionIs DEF TelemetryInv
<1> DEFINE new == WithValue(sd, l, row)
<1>3. scrape' = Collection("histograms", Tail(todo), sc, new)
  BY <1>2 DEF WriteCount
<1>4. /\ todo \in Seq(DOMAIN durations) /\ todo # <<>> /\ l = Head(todo) /\ l \in DOMAIN sd /\ DOMAIN sd \subseteq DOMAIN durations
      /\ \A k \in DOMAIN Latest(scraped) : k \in DOMAIN sc /\ Latest(scraped)[k] <= sc[k]
      /\ \A k \in DOMAIN sc : sc[k] > 0 => k \in DOMAIN sd \/ Includes(todo, k)
      /\ \A k \in DOMAIN sd \ {l} : Collected(sd[k], told[k]) /\ (k \in DOMAIN sc => sc[k] <= sd[k].count + Cardinality(Observers))
      /\ \A k \in DOMAIN sc : k \in DOMAIN counts /\ sc[k] \in Nat /\ sc[k] <= counts[k]
      /\ durations[l].holder = Collector /\ sd[l] = [fill |-> durations[l].fill, count |-> 0]
  BY <1>1, <1>2 DEF DoingSound
<1>5. l \in DOMAIN durations
  BY <1>4
<1>6. SeriesSound' /\ DOMAIN durations' = DOMAIN durations
  BY <1>1, <1>4, <1>5, CollectorHolds DEF TelemetryInv
<1>7. row.fill = durations[l].fill /\ row.count = durations[l].count
  BY <1>2, <1>4
<1>8. DOMAIN new = DOMAIN sd \cup {l} /\ new[l] = row /\ \A k \in DOMAIN sd \ {l} : new[k] = sd[k]
  BY DEF WithValue
<1>9. Tail(todo) \in Seq(DOMAIN durations) /\ \A k : Includes(todo, k) => k = l \/ Includes(Tail(todo), k)
  BY <1>4, ListLosesItsHead
<1> HIDE DEF l, row, new
<1>10. Collected(row, told[l]) /\ row.count = Len(told[l]) /\ Len(told[l]) \in Nat
  <2>1. HistogramSound(durations[l], told[l], l, observer)
    BY <1>5 DEF TelemetryInv, SeriesSound, HistogramsSound
  <2>2. durations[l].count = Len(told[l]) /\ \A b \in DOMAIN Buckets : durations[l].fill[b] = Within(told[l], durations[l].count, Buckets[b])
    BY <1>4, <2>1, ObserverNames DEF HistogramSound
  <2>3. Len(told[l]) \in Nat
    BY <1>5, ToldAreLists DEF TelemetryInv
  <2>4. QED
    BY <1>7, <2>2, <2>3 DEF Collected
<1>11. l \in DOMAIN sc => sc[l] <= row.count + Cardinality(Observers)
  <2>1. counts[l] = Len(told[l]) + Cardinality(Waiting(observer, l)) /\ counts[l] \in Nat
    BY <1>5 DEF TelemetryInv, SeriesSound, SeriesShape, CountsSound
  <2>2. Cardinality(Waiting(observer, l)) \in 0..Cardinality(Observers) /\ Cardinality(Observers) \in Nat
    BY WaitingIsFinite
  <2>3. l \in DOMAIN sc => sc[l] \in Nat /\ sc[l] <= counts[l]
    BY <1>4
  <2>4. QED
    BY <1>10, <2>1, <2>2, <2>3
<1>12. \A k \in DOMAIN new : Collected(new[k], told[k]) /\ (k \in DOMAIN sc => sc[k] <= new[k].count + Cardinality(Observers))
  BY <1>4, <1>8, <1>10, <1>11
<1>13. DoingSound("histograms", Tail(todo), sc, new, counts', durations', told', Latest(scraped))
  BY <1>1, <1>4, <1>6, <1>8, <1>9, <1>12 DEF DoingSound
<1>14. ScrapeSound'
  BY <1>1, <1>2, <1>3, <1>13 DEF ScrapeSound
<1>15. AnswersSound'
  BY <1>1, <1>6 DEF TelemetryInv, AnswersSound, AnswerSound, CountersGrow
<1>16. QED
  BY <1>6, <1>14, <1>15 DEF TelemetryInv

LEMMA CollectionIsAnswered ==
  ASSUME TelemetryInv, Answer
  PROVE  TelemetryInv'
<1>1. /\ scrape.at = "histograms" /\ scrape.todo = <<>> /\ UNCHANGED <<counts, durations, observer, told>>
      /\ scrape' = NoScrape
  BY DEF Answer
<1>2. PICK todo, sc, sd : /\ scrape = Collection(scrape.at, todo, sc, sd) /\ scrape.todo = todo /\ scrape.counts = sc /\ scrape.durations = sd
                          /\ DoingSound(scrape.at, todo, sc, sd, counts, durations, told, Latest(scraped))
                          /\ Len(scraped) < MaxScrapes
  BY <1>1, CollectionIs DEF TelemetryInv
<1> DEFINE x == [counts |-> sc, durations |-> sd]
           n == Len(scraped)
<1>3. scraped' = Append(scraped, x)
  BY <1>2 DEF Answer
<1>4. /\ DOMAIN sd \subseteq DOMAIN durations
      /\ \A k \in DOMAIN Latest(scraped) : k \in DOMAIN sc /\ Latest(scraped)[k] <= sc[k]
      /\ \A k \in DOMAIN sc : sc[k] > 0 => k \in DOMAIN sd
      /\ \A k \in DOMAIN sd : Collected(sd[k], told[k]) /\ (k \in DOMAIN sc => sc[k] <= sd[k].count + Cardinality(Observers))
      /\ \A k \in DOMAIN sc : k \in DOMAIN counts /\ sc[k] \in Nat /\ sc[k] <= counts[k]
  BY <1>1, <1>2 DEF DoingSound, Includes
<1>5. x.counts = sc /\ x.durations = sd
  OBVIOUS
<1>6. AnswerSound(x, counts, durations, told)
  BY <1>4, <1>5 DEF AnswerSound
<1> HIDE DEF x
<1>7. PICK S : scraped \in Seq(S)
  BY DEF TelemetryInv, AnswersSound
<1>8. /\ n \in Nat /\ scraped' \in Seq(S \cup {x}) /\ Len(scraped') = n + 1 /\ DOMAIN scraped = 1..n /\ DOMAIN scraped' = 1..(n + 1)
      /\ scraped'[n + 1] = x /\ \A k \in 1..n : scraped'[k] = scraped[k]
  <2>1. scraped \in Seq(S \cup {x}) /\ x \in S \cup {x}
    BY <1>7
  <2>2. QED
    BY <1>3, <2>1
<1>9. n > 0 => Latest(scraped) = scraped[n].counts
  BY <1>7 DEF Latest
<1> HIDE DEF n
<1>10. \A k \in 1..(n + 1) : AnswerSound(scraped'[k], counts, durations, told)
  BY <1>6, <1>8 DEF TelemetryInv, AnswersSound
<1>11. CountersGrow'
  <2> SUFFICES ASSUME NEW k \in 1..(n + 1)
               PROVE  /\ k > 1 => \A l \in DOMAIN scraped'[k - 1].counts :
                            l \in DOMAIN scraped'[k].counts /\ scraped'[k - 1].counts[l] <= scraped'[k].counts[l]
                      /\ \A l \in DOMAIN scraped'[k].counts : scraped'[k].counts[l] > 0 =>
                            /\ l \in DOMAIN scraped'[k].durations
                            /\ scraped'[k].counts[l] <= scraped'[k].durations[l].count + Cardinality(Observers)
    BY <1>8 DEF CountersGrow
  <2>1. CASE k \in 1..n
    <3>1. scraped'[k] = scraped[k] /\ (k > 1 => k - 1 \in 1..n /\ scraped'[k - 1] = scraped[k - 1])
      BY <1>8, <2>1
    <3>2. QED
      BY <1>8, <2>1, <3>1 DEF TelemetryInv, AnswersSound, CountersGrow
  <2>2. CASE k = n + 1
    <3>1. scraped'[k] = x /\ (k > 1 => n > 0 /\ k - 1 = n /\ scraped'[k - 1] = scraped[n])
      BY <1>8, <2>2
    <3>2. QED
      BY <1>4, <1>5, <1>9, <3>1
  <2>3. QED
    BY <1>8, <2>1, <2>2
<1>12. AnswersSound'
  <2>1. Len(scraped') <= MaxScrapes
    <3>1. n < MaxScrapes /\ MaxScrapes \in Nat
      BY <1>2, TelemetryAssumption DEF n
    <3>2. QED
      BY <1>8, <3>1
  <2>2. QED
    BY <1>1, <1>8, <1>10, <1>11, <2>1 DEF AnswersSound
<1>13. SeriesSound'
  BY <1>1 DEF TelemetryInv, SeriesSound, SeriesShape, HistogramsSound, ObserversSound, CountsSound
<1>14. QED
  BY <1>1, <1>12, <1>13 DEF TelemetryInv, ScrapeSound

LEMMA TelemetryStep == TelemetryInv /\ [TelemetryNext]_telemetryVars => TelemetryInv'
<1> SUFFICES ASSUME TelemetryInv, [TelemetryNext]_telemetryVars PROVE TelemetryInv'
  OBVIOUS
<1>1. ASSUME SeriesSound', SeriesGrow, UNCHANGED <<scrape, scraped>> PROVE TelemetryInv'
  BY <1>1, ReadingsOutlast DEF TelemetryInv
<1>2. ASSUME UNCHANGED <<counts, durations, observer, scrape, scraped, told>> PROVE TelemetryInv'
  BY <1>2 DEF TelemetryInv, SeriesSound, SeriesShape, HistogramsSound, ObserversSound, CountsSound,
              ScrapeSound, AnswersSound, CountersGrow
<1>3. ASSUME NEW o \in Observers, NEW step \in StepNames, NEW outcome \in Outcomes, NEW took \in Took,
             ObserveIngestStep(o, step, outcome, took)
      PROVE  TelemetryInv'
  <2>1. UNCHANGED <<scrape, scraped>>
    BY <1>3 DEF ObserveIngestStep
  <2>2. QED
    BY <1>1, <1>3, <2>1, StepIsBegun DEF TelemetryInv
<1>4. ASSUME NEW o \in Observers, Count(o) PROVE TelemetryInv'
  <2>1. UNCHANGED <<scrape, scraped>>
    BY <1>4 DEF Count
  <2>2. QED
    BY <1>1, <1>4, <2>1, StepIsCounted DEF TelemetryInv
<1>5. ASSUME NEW o \in Observers, BeginObserve(o) PROVE TelemetryInv'
  <2>1. UNCHANGED <<scrape, scraped>>
    BY <1>5 DEF BeginObserve
  <2>2. QED
    BY <1>1, <1>5, <2>1, HistogramIsTaken DEF TelemetryInv
<1>6. ASSUME NEW o \in Observers, FillBuckets(o) PROVE TelemetryInv'
  <2>1. UNCHANGED <<scrape, scraped>>
    BY <1>6 DEF FillBuckets
  <2>2. QED
    BY <1>1, <1>6, <2>1, HistogramIsLeft DEF TelemetryInv
<1>7. ASSUME NEW name, NEW v, SetGauge(name, v) PROVE TelemetryInv'
  BY <1>2, <1>7 DEF SetGauge
<1>8. CASE UNCHANGED telemetryVars
  BY <1>2, <1>8 DEF telemetryVars
<1>9. QED
  BY <1>3, <1>4, <1>5, <1>6, <1>7, <1>8, CollectionBegins, CounterIsRead, HistogramsAreListed, BucketsAreRead, CountIsRead,
     CollectionIsAnswered DEF TelemetryNext

\* However many goroutines observe while the metrics are collected, nothing they count is
\* lost, counters never fall from one answer to the next, and each histogram that is
\* answered tells, in its buckets and its count, of the same observations.
THEOREM CollectionsAreTrue == TelemetrySpec => []CollectedIsTrue
<1>1. TelemetryInit => TelemetryInv
  <2> SUFFICES ASSUME TelemetryInit PROVE TelemetryInv
    OBVIOUS
  <2>1. scrape = NoScrape /\ scraped = <<>> /\ DOMAIN <<>> = {} /\ Len(<<>>) = 0 /\ <<>> \in Seq({})
    BY DEF TelemetryInit
  <2>2. AnswersSound
    <3>1. scraped \in Seq({}) /\ Len(scraped) <= MaxScrapes
      <4>1. MaxScrapes \in Nat
        BY TelemetryAssumption
      <4>2. QED
        BY <2>1, <4>1
    <3>2. DOMAIN scraped = {}
      BY <2>1
    <3>3. QED
      BY <3>1, <3>2 DEF AnswersSound, CountersGrow
  <2>3. QED
    BY <2>1, <2>2, SeriesAtFirst DEF TelemetryInv, ScrapeSound
<1>2. TelemetryInv => CollectedIsTrue
  <2> SUFFICES ASSUME TelemetryInv PROVE CollectedIsTrue
    OBVIOUS
  <2>1. TelemetryTypeOK
    BY DEF TelemetryInv, SeriesSound, SeriesShape, AnswersSound, TelemetryTypeOK
  <2>2. HistogramsAreWhole
    <3> SUFFICES ASSUME NEW k \in DOMAIN scraped, NEW l \in DOMAIN scraped[k].durations
                 PROVE  LET h == scraped[k].durations[l]
                        IN  h.count <= Len(told[l]) /\ \A b \in DOMAIN Buckets : h.fill[b] = Upto(l, h.count, Buckets[b])
      BY DEF HistogramsAreWhole
    <3>1. Collected(scraped[k].durations[l], told[l]) /\ l \in DOMAIN durations
      BY DEF TelemetryInv, AnswersSound, AnswerSound
    <3>2. Len(told[l]) \in Nat
      BY <3>1, ToldAreLists DEF TelemetryInv
    <3>3. \A n, bound : Upto(l, n, bound) = Within(told[l], n, bound)
      BY DEF Upto, Within
    <3>4. QED
      BY <3>1, <3>2, <3>3 DEF Collected
  <2>3. CountersGrow
    BY DEF TelemetryInv, AnswersSound
  <2>4. NothingIsLost
    BY DEF TelemetryInv, SeriesSound, CountsSound, NothingIsLost, Waiting
  <2>5. QED
    BY <2>1, <2>2, <2>3, <2>4 DEF CollectedIsTrue
<1>3. QED
  BY <1>1, <1>2, TelemetryStep, PTL DEF TelemetrySpec

-----------------------------------------------------------------------------
(* Background tasks                                                        *)

Ended == {"completed", "failed", "cancelled"}
TimeFields == {"status", "created", "started", "completed"}

\* A row that is there tells when it was created, started and completed, as far as it got.
TellsTime(row, now) ==
    /\ TimeFields \subseteq DOMAIN row
    /\ row.status \in {"accepted", "running"} \cup Ended
    /\ row.created \in 0..now
    /\ row.started \in {Never} \cup row.created..now
    /\ row.completed \in {Never} \cup 0..now
    /\ row.status = "running" => row.started # Never
    /\ row.status \in Ended => row.completed # Never

\* A request that is about to change a row, or to read it again, has seen that it is there.
RequestSeen(r) == r.kind \in {"action", "again"} => r.task \in Tasks /\ tasks[r.task] # NoRow

RowsSeen ==
    /\ tasks = [k \in Tasks |-> tasks[k]] /\ held = [k \in Tasks |-> held[k]]
    /\ \A k \in Tasks : tasks[k] = NoRow \/ TellsTime(tasks[k], clock)
    /\ \A k \in Tasks : held[k] \in Nat /\ (held[k] > 0 => tasks[k] # NoRow)
    /\ asks = [c \in TaskClients |-> asks[c]] /\ shown = [c \in TaskClients |-> shown[c]]
    /\ \A c \in TaskClients : RequestSeen(asks[c])

Codes == {0, 200, 202, 400, 404, 409, 500}
TasksInv ==
    /\ clock \in 0..MaxClock /\ moves \in 0..MaxMoves
    /\ RowsSeen
    /\ \A c \in TaskClients : shown[c].code \in Codes

LEMMA NoRowIsNone == NoRow.status = "none" /\ \A row, now : TellsTime(row, now) => row # NoRow /\ row.status # "none"
BY DEF NoRow, TellsTime, Ended

\* What the statements change keeps a row telling time.
LEMMA ChangesTellTime ==
  ASSUME NEW now \in Nat, NEW row, TellsTime(row, now)
  PROVE  /\ \A w, s : s \in row.created..now =>
              TellsTime(Rewritten(row, [status |-> "running", worker |-> w, started |-> s]), now)
         /\ \A status \in {"completed", "failed"} : \A scan :
              TellsTime(Rewritten(row, [status |-> status, completed |-> now, scan |-> scan]), now)
         /\ \A next : TellsTime(Rewritten(row, [status |-> "accepted", next |-> next]), now)
         /\ \A w, next : TellsTime(Rewritten(row, [status |-> "accepted", worker |-> w, started |-> Never, next |-> next]), now)
         /\ TellsTime(Rewritten(row, [status |-> "failed", completed |-> now]), now)
         /\ \A w, next : TellsTime(Rewritten(row, [status |-> "accepted", worker |-> w, started |-> Never, completed |-> Never, next |-> next]), now)
         /\ \A w : TellsTime(Rewritten(row, [status |-> "cancelled", completed |-> now, worker |-> w]), now)
<1> DEFINE After(changes) == Rewritten(row, changes)
<1>1. \A changes : /\ TimeFields \subseteq DOMAIN After(changes)
                   /\ \A f \in TimeFields : After(changes)[f] = IF f \in DOMAIN changes THEN changes[f] ELSE row[f]
  BY DEF TellsTime, Rewritten
<1> HIDE DEF After
<1>2. ASSUME NEW changes,
             LET Now(f) == IF f \in DOMAIN changes THEN changes[f] ELSE row[f]
             IN  /\ Now("status") \in {"accepted", "running"} \cup Ended
                 /\ Now("created") = row.created
                 /\ Now("started") \in {Never} \cup row.created..now
                 /\ Now("completed") \in {Never} \cup 0..now
                 /\ Now("status") = "running" => Now("started") # Never
                 /\ Now("status") \in Ended => Now("completed") # Never
      PROVE  TellsTime(After(changes), now)
  <2>1. /\ TimeFields \subseteq DOMAIN After(changes)
        /\ \A f \in TimeFields : After(changes)[f] = IF f \in DOMAIN changes THEN changes[f] ELSE row[f]
    BY <1>1
  <2>2. \A f \in TimeFields : f \in {"status", "created", "started", "completed"}
    BY DEF TimeFields
  <2>3. {"status", "created", "started", "completed"} \subseteq TimeFields
    BY DEF TimeFields
  <2>4. QED
    BY <1>2, <2>1, <2>3 DEF TellsTime
<1>3. ASSUME NEW w, NEW s \in row.created..now
      PROVE  TellsTime(After([status |-> "running", worker |-> w, started |-> s]), now)
  BY <1>2, <1>3 DEF TellsTime, Ended, Never
<1>4. ASSUME NEW status \in {"completed", "failed"}, NEW scan
      PROVE  TellsTime(After([status |-> status, completed |-> now, scan |-> scan]), now)
  BY <1>2 DEF TellsTime, Ended, Never
<1>5. ASSUME NEW next PROVE TellsTime(After([status |-> "accepted", next |-> next]), now)
  BY <1>2 DEF TellsTime, Ended, Never
<1>6. ASSUME NEW w, NEW next
      PROVE  TellsTime(After([status |-> "accepted", worker |-> w, started |-> Never, next |-> next]), now)
  BY <1>2 DEF TellsTime, Ended, Never
<1>7. TellsTime(After([status |-> "failed", completed |-> now]), now)
  BY <1>2 DEF TellsTime, Ended, Never
<1>8. ASSUME NEW w, NEW next
      PROVE  TellsTime(After([status |-> "accepted", worker |-> w, started |-> Never, completed |-> Never, next |-> next]), now)
  BY <1>2 DEF TellsTime, Ended, Never
<1>9. ASSUME NEW w PROVE TellsTime(After([status |-> "cancelled", completed |-> now, worker |-> w]), now)
  BY <1>2 DEF TellsTime, Ended, Never
<1>10. QED
  BY <1>3, <1>4, <1>5, <1>6, <1>7, <1>8, <1>9 DEF After

\* A step that writes a row, or none, and leaves the requests alone.
LEMMA RowWritten ==
  ASSUME TasksInv, NEW k \in Tasks, NEW row, TellsTime(row, clock), tasks' = [tasks EXCEPT ![k] = row],
         held' = held \/ \E n \in Int : Holds(k, n) /\ held[k] + n \in Nat, Moves, UNCHANGED <<clock, asks, shown>>
  PROVE  TasksInv'
<1>1. /\ tasks' = [j \in Tasks |-> tasks'[j]] /\ \A j \in Tasks : tasks'[j] = IF j = k THEN row ELSE tasks[j]
      /\ row # NoRow
  BY NoRowIsNone DEF TasksInv, RowsSeen
<1>2. held' = [j \in Tasks |-> held'[j]] /\ \A j \in Tasks : held'[j] \in Nat /\ (held'[j] > 0 => held[j] > 0 \/ j = k)
  BY DEF TasksInv, RowsSeen, Holds
<1>3. \A j \in Tasks : tasks[j] # NoRow => tasks'[j] # NoRow
  BY <1>1
<1>4. \A c \in TaskClients : RequestSeen(asks[c])'
  BY <1>3 DEF TasksInv, RowsSeen, RequestSeen
<1>5. \A j \in Tasks : tasks'[j] = NoRow \/ TellsTime(tasks'[j], clock)
  BY <1>1 DEF TasksInv, RowsSeen
<1>6. \A j \in Tasks : held'[j] > 0 => tasks'[j] # NoRow
  BY <1>1, <1>2, <1>3 DEF TasksInv, RowsSeen
<1>7. moves' \in 0..MaxMoves
  BY TaskAssumption DEF TasksInv, Moves
<1>8. RowsSeen'
  BY <1>1, <1>2, <1>4, <1>5, <1>6 DEF TasksInv, RowsSeen
<1>9. QED
  BY <1>7, <1>8 DEF TasksInv

\* A step of a request that writes no row.
LEMMA RequestMoves ==
  ASSUME TasksInv, NEW c \in TaskClients, NEW r, Asks(c, r), RequestSeen(r),
         shown' = shown \/ \E answer : shown' = [shown EXCEPT ![c] = answer] /\ answer.code \in Codes,
         moves' = moves \/ Moves, UNCHANGED <<tasks, held, clock>>
  PROVE  TasksInv'
<1>1. asks' = [d \in TaskClients |-> asks'[d]] /\ \A d \in TaskClients : asks'[d] = IF d = c THEN r ELSE asks[d]
  BY DEF TasksInv, RowsSeen, Asks
<1>2. \A d \in TaskClients : RequestSeen(asks[d])'
  BY <1>1 DEF TasksInv, RowsSeen, RequestSeen
<1>3. shown' = [d \in TaskClients |-> shown'[d]] /\ \A d \in TaskClients : shown'[d].code \in Codes
  BY DEF TasksInv, RowsSeen
<1>4. moves' \in 0..MaxMoves
  BY TaskAssumption DEF TasksInv, Moves
<1>5. RowsSeen'
  BY <1>1, <1>2, <1>3 DEF TasksInv, RowsSeen
<1>6. QED
  BY <1>3, <1>4, <1>5 DEF TasksInv

LEMMA AnswerGiven ==
  ASSUME TasksInv, NEW c \in TaskClients, NEW answer, Answers(c, answer), answer.code \in Codes,
         moves' = moves \/ Moves, UNCHANGED <<tasks, held, clock>>
  PROVE  TasksInv'
<1>1. RequestSeen(NoRequest)
  BY DEF RequestSeen, NoRequest
<1>2. QED
  BY <1>1, RequestMoves DEF Answers

LEMMA JobsStep == ASSUME TasksInv, JobsMove PROVE TasksInv'
<1>1. clock \in Nat /\ \A k \in Tasks : held[k] \in Nat
  BY TaskAssumption DEF TasksInv, RowsSeen
<1>2. \A k \in Tasks : Status(k) # "none" => TellsTime(tasks[k], clock)
  BY NoRowIsNone DEF TasksInv, RowsSeen, Status
<1>3. \A k \in Tasks : held[k] > 0 => TellsTime(tasks[k], clock)
  BY DEF TasksInv, RowsSeen
<1>4. ASSUME Tick PROVE TasksInv'
  <2>1. \A now \in Nat : \A row : TellsTime(row, now) => TellsTime(row, now + 1)
    BY DEF TellsTime, Never
  <2>2. clock' = clock + 1 /\ clock' \in 0..MaxClock
    BY <1>1, <1>4, TaskAssumption DEF Tick
  <2>3. \A k \in Tasks : tasks[k] = NoRow \/ TellsTime(tasks[k], clock')
    BY <1>1, <2>1, <2>2 DEF TasksInv, RowsSeen
  <2>4. UNCHANGED <<tasks, held, moves, asks, shown>>
    BY <1>4 DEF Tick
  <2>5. \A c \in TaskClients : RequestSeen(asks[c])'
    BY <2>4 DEF TasksInv, RowsSeen, RequestSeen
  <2>6. RowsSeen'
    BY <2>3, <2>4, <2>5 DEF TasksInv, RowsSeen
  <2>7. QED
    BY <2>2, <2>4, <2>6 DEF TasksInv
<1>5. ASSUME NEW k \in Tasks, NEW project, NEW scan, NEW params, Enqueue(k, project, scan, params) PROVE TasksInv'
  <2> DEFINE row == Enqueued(k, project, scan, params)
  <2>1. TellsTime(row, clock)
    BY <1>1 DEF TellsTime, TimeFields, Ended, Enqueued, Never
  <2>2. tasks' = [tasks EXCEPT ![k] = row] /\ held' = held /\ Moves /\ UNCHANGED <<clock, asks, shown>>
    BY <1>5 DEF Enqueue
  <2> HIDE DEF row
  <2>3. QED
    BY <2>1, <2>2, RowWritten
<1>6. ASSUME NEW k \in Tasks, NEW changes, Becomes(k, changes), TellsTime(Rewritten(tasks[k], changes), clock),
             NEW n \in Int, Holds(k, n), held[k] + n \in Nat, Moves, UNCHANGED <<clock, asks, shown>>
      PROVE  TasksInv'
  <2> DEFINE row == Rewritten(tasks[k], changes)
  <2>1. tasks' = [tasks EXCEPT ![k] = row]
    BY <1>6 DEF Becomes
  <2> HIDE DEF row
  <2>2. QED
    BY <1>6, <2>1, RowWritten DEF row
<1>7. ASSUME NEW k \in Tasks, Claim(k) PROVE TasksInv'
  <2> DEFINE start == IF tasks[k].started = Never THEN clock ELSE tasks[k].started
  <2>1. /\ Status(k) = "accepted" /\ Moves /\ Holds(k, 1) /\ UNCHANGED <<clock, asks, shown>>
        /\ Becomes(k, [status |-> "running", worker |-> "w", started |-> start])
    BY <1>7 DEF Claim
  <2>2. TellsTime(tasks[k], clock)
    BY <1>2, <2>1
  <2>3. start \in tasks[k].created..clock
    BY <1>1, <2>2 DEF TellsTime
  <2> HIDE DEF start
  <2>4. TellsTime(Rewritten(tasks[k], [status |-> "running", worker |-> "w", started |-> start]), clock)
    BY <1>1, <2>2, <2>3, ChangesTellTime
  <2>5. held[k] + 1 \in Nat
    BY <1>1
  <2>6. QED
    BY <1>6, <2>1, <2>4, <2>5
<1>8. ASSUME NEW k \in Tasks, NEW status \in {"completed", "failed"}, NEW scan, Settle(k, status, scan) PROVE TasksInv'
  <2> DEFINE about == IF k[1] = "scan" /\ status = "completed" THEN scan ELSE tasks[k].scan
  <2>1. /\ held[k] > 0 /\ Moves /\ Holds(k, -1) /\ UNCHANGED <<clock, asks, shown>>
        /\ Becomes(k, [status |-> status, completed |-> clock, scan |-> about])
    BY <1>8 DEF Settle
  <2> HIDE DEF about
  <2>2. TellsTime(Rewritten(tasks[k], [status |-> status, completed |-> clock, scan |-> about]), clock)
    BY <1>1, <1>3, <2>1, ChangesTellTime
  <2>3. held[k] + (-1) \in Nat
    BY <1>1, <2>1
  <2>4. QED
    BY <1>6, <2>1, <2>2, <2>3
<1>9. ASSUME NEW k \in Tasks, Reschedule(k) PROVE TasksInv'
  <2> DEFINE changes == [status |-> "accepted", next |-> clock + 1]
  <2>1. held[k] > 0 /\ Moves /\ Holds(k, -1) /\ UNCHANGED <<clock, asks, shown>> /\ Becomes(k, changes)
    BY <1>9 DEF Reschedule
  <2>2. TellsTime(Rewritten(tasks[k], changes), clock)
    BY <1>1, <1>3, <2>1, ChangesTellTime
  <2>3. held[k] + (-1) \in Nat
    BY <1>1, <2>1
  <2> HIDE DEF changes
  <2>4. QED
    BY <1>6, <2>1, <2>2, <2>3
<1>10. ASSUME NEW k \in Tasks, WorkerCrash(k) PROVE TasksInv'
  <2>1. tasks' = [tasks EXCEPT ![k] = tasks[k]]
    BY <1>10 DEF WorkerCrash, TasksInv, RowsSeen
  <2>2. held[k] > 0 /\ Moves /\ Holds(k, -1) /\ UNCHANGED <<clock, asks, shown>>
    BY <1>10 DEF WorkerCrash
  <2>3. -1 \in Int /\ held[k] + (-1) \in Nat /\ TellsTime(tasks[k], clock)
    BY <1>1, <1>3, <2>2
  <2>4. QED
    BY <2>1, <2>2, <2>3, RowWritten
<1>11. ASSUME NEW k \in Tasks, RecoverTask(k) PROVE TasksInv'
  <2> DEFINE again(next) == [status |-> "accepted", worker |-> "", started |-> Never, next |-> next]
             failed == [status |-> "failed", completed |-> clock]
  <2>1. /\ Status(k) = "running" /\ Moves /\ held' = held /\ UNCHANGED <<clock, asks, shown>>
        /\ (\E next : Becomes(k, again(next))) \/ Becomes(k, failed)
    BY <1>11 DEF RecoverTask
  <2>2. TellsTime(tasks[k], clock)
    BY <1>2, <2>1
  <2>3. /\ \A next : TellsTime(Rewritten(tasks[k], again(next)), clock)
        /\ TellsTime(Rewritten(tasks[k], failed), clock)
    BY <1>1, <2>2, ChangesTellTime
  <2> HIDE DEF again, failed
  <2>4. \E changes : Becomes(k, changes) /\ TellsTime(Rewritten(tasks[k], changes), clock)
    BY <2>1, <2>3
  <2>5. \E row : tasks' = [tasks EXCEPT ![k] = row] /\ TellsTime(row, clock)
    BY <2>4 DEF Becomes
  <2>6. QED
    BY <2>1, <2>5, RowWritten
<1>12. QED
  BY <1>4, <1>5, <1>7, <1>8, <1>9, <1>10, <1>11 DEF JobsMove

LEMMA RequestsStep ==
  ASSUME TasksInv, NEW c \in TaskClients,
         \/ \E filter, kind : kind # "action" /\ kind # "again" /\ AskForTasks(c, kind, filter)
         \/ LoadTasks(c) \/ StatementFails(c) \/ List(c) \/ Summary(c)
         \/ (\E k : Detail(c, k) \/ \E action : CheckAction(c, k, action))
         \/ ApplyAction(c) \/ ApplyFails(c) \/ ReadAgain(c)
  PROVE  TasksInv'
<1>1. RequestSeen(NoRequest)
  BY DEF RequestSeen, NoRequest
<1>2. ASSUME NEW filter, NEW kind, kind # "action", kind # "again", AskForTasks(c, kind, filter) PROVE TasksInv'
  <2> DEFINE r == [kind |-> kind, filter |-> filter, now |-> clock, read |-> <<>>, loaded |-> {}, todo |-> TablesOf(filter)]
  <2>1. Asks(c, r) /\ Moves /\ shown' = shown /\ UNCHANGED <<tasks, held, clock>>
    BY <1>2 DEF AskForTasks
  <2>2. r.kind = kind
    OBVIOUS
  <2> HIDE DEF r
  <2>3. RequestSeen(r)
    BY <1>2, <2>2 DEF RequestSeen
  <2>4. QED
    BY <2>1, <2>3, RequestMoves
<1>3. ASSUME LoadTasks(c) PROVE TasksInv'
  <2>1. PICK filter, now, read, loaded, todo :
          Asks(c, [kind |-> asks[c].kind, filter |-> filter, now |-> now, read |-> read, loaded |-> loaded, todo |-> todo])
    BY <1>3, Zenon DEF LoadTasks
  <2> DEFINE r == [kind |-> asks[c].kind, filter |-> filter, now |-> now, read |-> read, loaded |-> loaded, todo |-> todo]
  <2>2. asks[c].kind \in {"list", "summary", "metrics"} /\ shown' = shown /\ moves' = moves /\ UNCHANGED <<tasks, held, clock>>
    BY <1>3 DEF LoadTasks
  <2>3. r.kind = asks[c].kind
    OBVIOUS
  <2> HIDE DEF r
  <2>4. RequestSeen(r)
    BY <2>2, <2>3 DEF RequestSeen
  <2>5. QED
    BY <2>1, <2>2, <2>4, RequestMoves DEF r
<1>4. ASSUME StatementFails(c) PROVE TasksInv'
  <2>1. Asks(c, NoRequest) /\ moves' = moves /\ UNCHANGED <<tasks, held, clock>>
    BY <1>4 DEF StatementFails, Answers
  <2>2. shown' = shown \/ shown' = [shown EXCEPT ![c] = [code |-> 500]]
    BY <1>4 DEF StatementFails, Answers
  <2>3. [code |-> 500].code \in Codes
    BY DEF Codes
  <2>4. shown' = shown \/ \E answer : shown' = [shown EXCEPT ![c] = answer] /\ answer.code \in Codes
    BY <2>2, <2>3
  <2>5. QED
    BY <1>1, <2>1, <2>4, RequestMoves
<1>5. ASSUME List(c) PROVE TasksInv'
  <2>1. PICK filter, items, read, now, page :
          Answers(c, [code |-> 200, kind |-> "list", filter |-> filter, items |-> items, read |-> read, now |-> now, page |-> page])
    BY <1>5, Zenon DEF List
  <2>2. moves' = moves /\ UNCHANGED <<tasks, held, clock>>
    BY <1>5 DEF List
  <2>3. QED
    BY <2>1, <2>2, AnswerGiven DEF Codes
<1>6. ASSUME Summary(c) PROVE TasksInv'
  <2>1. \/ Asks(c, NoRequest) /\ shown' = shown
        \/ \E filter, items, read, now, all, byType :
             Answers(c, [code |-> 200, kind |-> "summary", filter |-> filter, items |-> items, read |-> read, now |-> now,
                         counts |-> all, byType |-> byType])
    BY <1>6, Zenon DEF Summary
  <2>2. moves' = moves /\ UNCHANGED <<tasks, held, clock>>
    BY <1>6 DEF Summary
  <2>3. ASSUME NEW filter, NEW items, NEW read, NEW now, NEW all, NEW byType,
               Answers(c, [code |-> 200, kind |-> "summary", filter |-> filter, items |-> items, read |-> read, now |-> now,
                           counts |-> all, byType |-> byType])
        PROVE  TasksInv'
    BY <2>2, <2>3, AnswerGiven DEF Codes
  <2>4. QED
    BY <1>1, <2>1, <2>2, <2>3, RequestMoves
<1>7. ASSUME NEW k, Detail(c, k) PROVE TasksInv'
  <2>1. \/ Answers(c, [code |-> 400]) \/ Answers(c, [code |-> 404])
        \/ \E task : Answers(c, [code |-> 200, kind |-> "detail", task |-> task])
    BY <1>7, Zenon DEF Detail
  <2>2. Moves /\ UNCHANGED <<tasks, held, clock>>
    BY <1>7 DEF Detail
  <2>3. QED
    BY <2>1, <2>2, AnswerGiven DEF Codes
<1>8. ASSUME NEW k, NEW action, CheckAction(c, k, action) PROVE TasksInv'
  <2> DEFINE r == [kind |-> "action", action |-> action, task |-> k]
  <2>1. \/ Found(k) /\ Asks(c, r) /\ shown' = shown
        \/ Answers(c, [code |-> 400]) \/ Answers(c, [code |-> 404]) \/ Answers(c, [code |-> 409])
    BY <1>8, Zenon DEF CheckAction
  <2>2. Moves /\ UNCHANGED <<tasks, held, clock>>
    BY <1>8 DEF CheckAction
  <2>3. Found(k) => RequestSeen(r)
    BY NoRowIsNone DEF Found, Status, RequestSeen
  <2> HIDE DEF r
  <2>4. QED
    BY <2>1, <2>2, <2>3, AnswerGiven, RequestMoves DEF Codes
<1>9. ASSUME ApplyFails(c) PROVE TasksInv'
  BY <1>9, AnswerGiven DEF ApplyFails, Codes
<1>10. ASSUME ReadAgain(c) PROVE TasksInv'
  <2>1. \/ \E task : Answers(c, [code |-> 202, kind |-> "task", task |-> task])
        \/ Answers(c, [code |-> 202, kind |-> "queued"])
    BY <1>10, Zenon DEF ReadAgain
  <2>2. moves' = moves /\ UNCHANGED <<tasks, held, clock>>
    BY <1>10 DEF ReadAgain
  <2>3. QED
    BY <2>1, <2>2, AnswerGiven DEF Codes
<1>11. ASSUME ApplyAction(c) PROVE TasksInv'
  <2> DEFINE k == asks[c].task
             r == [kind |-> "again", task |-> k]
  <2>1. k \in Tasks /\ tasks[k] # NoRow /\ asks[c].kind = "action" /\ UNCHANGED <<held, clock, moves>>
    BY <1>11 DEF ApplyAction, TasksInv, RowsSeen, RequestSeen
  <2>2. TellsTime(tasks[k], clock) /\ clock \in Nat
    BY <2>1, TaskAssumption DEF TasksInv, RowsSeen
  <2>3. CASE Answers(c, [code |-> 409]) /\ UNCHANGED tasks
    BY <2>1, <2>3, AnswerGiven DEF Codes
  <2>4. CASE (Becomes(k, Cancelled(k)) \/ Becomes(k, Retried(k))) /\ Asks(c, r) /\ shown' = shown
    <3>1. TellsTime(Rewritten(tasks[k], Cancelled(k)), clock) /\ TellsTime(Rewritten(tasks[k], Retried(k)), clock)
      BY <2>2, ChangesTellTime DEF Cancelled, Retried
    <3>2. PICK row : tasks' = [tasks EXCEPT ![k] = row] /\ TellsTime(row, clock)
      BY <2>4, <3>1 DEF Becomes
    <3> HIDE DEF k
    <3>3. /\ tasks' = [j \in Tasks |-> tasks'[j]] /\ \A j \in Tasks : tasks'[j] = IF j = k THEN row ELSE tasks[j]
          /\ row # NoRow
      BY <2>1, <3>2, NoRowIsNone DEF TasksInv, RowsSeen
    <3>4. asks' = [d \in TaskClients |-> asks'[d]] /\ \A d \in TaskClients : asks'[d] = IF d = c THEN r ELSE asks[d]
      BY <2>4 DEF TasksInv, RowsSeen, Asks
    <3>5. \A d \in TaskClients : RequestSeen(asks[d])'
      BY <2>1, <3>3, <3>4 DEF TasksInv, RowsSeen, RequestSeen
    <3>6. \A j \in Tasks : tasks'[j] = NoRow \/ TellsTime(tasks'[j], clock)
      BY <3>2, <3>3 DEF TasksInv, RowsSeen
    <3>7. \A j \in Tasks : held[j] > 0 => tasks'[j] # NoRow
      BY <3>3 DEF TasksInv, RowsSeen
    <3>8. RowsSeen'
      BY <2>1, <2>4, <3>3, <3>4, <3>5, <3>6, <3>7 DEF TasksInv, RowsSeen
    <3>9. QED
      BY <2>1, <2>4, <3>8 DEF TasksInv
  <2>5. QED
    BY <1>11, <2>3, <2>4 DEF ApplyAction
<1>12. QED
  BY <1>2, <1>3, <1>4, <1>5, <1>6, <1>7, <1>8, <1>9, <1>10, <1>11

LEMMA TasksStep == TasksInv /\ [TasksNext]_taskVars => TasksInv'
<1> SUFFICES ASSUME TasksInv, [TasksNext]_taskVars PROVE TasksInv'
  OBVIOUS
<1>1. CASE JobsMove
  BY <1>1, JobsStep
<1>2. CASE UNCHANGED taskVars
  <2>1. \A c \in TaskClients : RequestSeen(asks[c])'
    BY <1>2 DEF taskVars, TasksInv, RowsSeen, RequestSeen
  <2>2. QED
    BY <1>2, <2>1 DEF taskVars, TasksInv, RowsSeen
<1> DEFINE RequestsOf(c) ==
      \/ \E filter, kind : kind # "action" /\ kind # "again" /\ AskForTasks(c, kind, filter)
      \/ LoadTasks(c) \/ StatementFails(c) \/ List(c) \/ Summary(c)
      \/ (\E k : Detail(c, k) \/ \E action : CheckAction(c, k, action))
      \/ ApplyAction(c) \/ ApplyFails(c) \/ ReadAgain(c)
<1>3. ASSUME NEW c \in TaskClients, RequestsOf(c) PROVE TasksInv'
  BY <1>3, RequestsStep
<1>4. \A kind \in {"list", "summary", "metrics"} : kind # "action" /\ kind # "again"
  OBVIOUS
<1>5. TasksNext => JobsMove \/ \E c \in TaskClients : RequestsOf(c)
  BY <1>4 DEF TasksNext
<1> HIDE DEF RequestsOf
<1>6. QED
  BY <1>1, <1>2, <1>3, <1>5

LEMMA RowsAreTimed == TasksInv => TasksTypeOK /\ RowsTellTime
<1> SUFFICES ASSUME TasksInv PROVE TasksTypeOK /\ RowsTellTime
  OBVIOUS
<1>1. \A k \in Tasks : Status(k) # "none" => TellsTime(tasks[k], clock)
  BY NoRowIsNone DEF TasksInv, RowsSeen, Status
<1>2. RowsTellTime
  BY <1>1 DEF RowsTellTime, TellsTime, Ended, Status
<1>3. \A k \in Tasks : Status(k) \in {"none", "accepted", "running", "completed", "failed", "cancelled"}
  BY <1>1 DEF TellsTime, Ended, Status
<1>4. QED
  BY <1>2, <1>3 DEF TasksInv, TasksTypeOK, Codes

\* Whatever jobs, workers and administrators do, and however long it takes, a job that runs has the
\* start its staleness is told by and one that ended has the end it is counted by.
THEOREM TasksTellTime == TasksSpec => [](TasksTypeOK /\ RowsTellTime)
<1>1. TasksInit => TasksInv
  BY TaskAssumption DEF TasksInit, TasksInv, RowsSeen, RequestSeen, NoRequest, Codes
<1>2. TasksInv => TasksTypeOK /\ RowsTellTime
  BY RowsAreTimed
<1>3. QED
  BY <1>1, <1>2, TasksStep, PTL DEF TasksSpec

\* A task that can be put in order: of a table, with a number and a time.
TypeNames == {"scan", "index", "webhook"}
Orderly(t) == t.id \in TypeNames \X Nat /\ t.created \in Int

LEMMA TasksPrecede ==
  /\ \A t : Orderly(t) => ~Precedes(t, t)
  /\ \A t, u, v : Orderly(t) /\ Orderly(u) /\ Orderly(v) /\ Precedes(t, u) /\ Precedes(u, v) => Precedes(t, v)
  /\ \A t, u : Orderly(t) /\ Orderly(u) /\ t.id # u.id => Precedes(t, u) \/ Precedes(u, t)
<1>1. \A t : Orderly(t) => t.id[1] \in TypeNames /\ t.id[2] \in Nat /\ t.created \in Int /\ TypeRank[t.id[1]] \in Int
             /\ t.id = <<t.id[1], t.id[2]>>
  BY DEF Orderly, TypeNames, TypeRank
<1>2. \A x, y \in TypeNames : TypeRank[x] = TypeRank[y] => x = y
  BY DEF TypeNames, TypeRank
<1>3. \A t : Orderly(t) => ~Precedes(t, t)
  BY <1>1 DEF Precedes
<1>4. ASSUME NEW t, NEW u, NEW v, Orderly(t), Orderly(u), Orderly(v), Precedes(t, u), Precedes(u, v) PROVE Precedes(t, v)
  BY <1>1, <1>4 DEF Precedes
<1>5. ASSUME NEW t, NEW u, Orderly(t), Orderly(u), t.id # u.id PROVE Precedes(t, u) \/ Precedes(u, t)
  <2>1. t.id[1] # u.id[1] \/ t.id[2] # u.id[2]
    BY <1>1, <1>5
  <2>2. t.id[1] # u.id[1] => TypeRank[t.id[1]] # TypeRank[u.id[1]]
    BY <1>1, <1>2, <1>5
  <2>3. QED
    BY <1>1, <1>5, <2>1, <2>2 DEF Precedes
<1>6. QED
  BY <1>3, <1>4, <1>5

\* What is put in order is all there, newest first.
LEMMA ItemsInOrder ==
  ASSUME NEW S, IsFiniteSet(S), \A t \in S : Orderly(t), \A t, u \in S : t.id = u.id => t = u
  PROVE  /\ ToSet(InOrder(S)) = S
         /\ \A i, j \in DOMAIN InOrder(S) : i < j => Precedes(InOrder(S)[i], InOrder(S)[j])
<1> DEFINE n == Cardinality(S)
           before == [t \in S |-> {u \in S : Precedes(u, t)}]
           place == [t \in S |-> Cardinality(before[t])]
           items == InOrder(S)
<1>1. /\ place \in Bijection(S, 0..(n - 1))
      /\ \A x, y \in S : place[x] < place[y] <=> x \in before[y]
  <2>1. before \in [S -> SUBSET S]
    OBVIOUS
  <2>2. \A x \in S : x \notin before[x]
    BY TasksPrecede
  <2>3. \A x, y \in S : y \in before[x] => before[y] \subseteq before[x]
    BY TasksPrecede
  <2>4. \A x, y \in S : x # y => y \in before[x] \/ x \in before[y]
    BY TasksPrecede
  <2> HIDE DEF before
  <2>5. QED
    BY <2>1, <2>2, <2>3, <2>4, PlacesInOrder
<1>2. n \in Nat
  BY FS_CardinalityType
<1>3. \A t \in S : Cardinality({u \in S : Precedes(u, t)}) = place[t]
  OBVIOUS
<1>4. items = [k \in 1..n |-> CHOOSE t \in S : Cardinality({u \in S : Precedes(u, t)}) = k - 1]
  BY DEF InOrder
<1>5. \A x, y \in S : x \in before[y] => Precedes(x, y)
  OBVIOUS
<1> HIDE DEF n, before, place, items
<1>6. /\ \A p \in 0..(n - 1) : \E t \in S : place[t] = p
      /\ \A t \in S : place[t] \in 0..(n - 1)
      /\ \A t, u \in S : place[t] = place[u] => t = u
  BY <1>1 DEF Bijection, Injection, Surjection, IsInjective
<1>7. \A k \in 1..n : items[k] \in S /\ place[items[k]] = k - 1
  <2> SUFFICES ASSUME NEW k \in 1..n PROVE items[k] \in S /\ place[items[k]] = k - 1
    OBVIOUS
  <2>1. items[k] = CHOOSE t \in S : Cardinality({u \in S : Precedes(u, t)}) = k - 1
    BY <1>4
  <2>2. k - 1 \in 0..(n - 1)
    BY <1>2
  <2>3. \E t \in S : Cardinality({u \in S : Precedes(u, t)}) = k - 1
    BY <1>3, <1>6, <2>2
  <2>4. items[k] \in S /\ Cardinality({u \in S : Precedes(u, items[k])}) = k - 1
    BY <2>1, <2>3
  <2>5. QED
    BY <1>3, <2>4
<1>8. DOMAIN items = 1..n
  BY <1>4
<1>9. ASSUME NEW t \in S PROVE \E k \in 1..n : items[k] = t
  <2>1. place[t] + 1 \in 1..n /\ (place[t] + 1) - 1 = place[t]
    BY <1>2, <1>6
  <2>2. items[place[t] + 1] \in S /\ place[items[place[t] + 1]] = place[t]
    BY <1>7, <2>1
  <2>3. QED
    BY <1>6, <2>1, <2>2
<1>10. ASSUME NEW i \in 1..n, NEW j \in 1..n, i < j PROVE Precedes(items[i], items[j])
  <2>1. place[items[i]] < place[items[j]]
    BY <1>2, <1>7, <1>10
  <2>2. QED
    BY <1>1, <1>5, <1>7, <2>1
<1>11. ToSet(items) = S
  BY <1>7, <1>8, <1>9 DEF ToSet
<1>12. QED
  BY <1>8, <1>10, <1>11 DEF items

LEMMA DisjointSizes ==
  ASSUME NEW A, NEW B, IsFiniteSet(A), IsFiniteSet(B), A \cap B = {}
  PROVE  IsFiniteSet(A \cup B) /\ Cardinality(A \cup B) = Cardinality(A) + Cardinality(B)
         /\ Cardinality(A) \in Nat /\ Cardinality(B) \in Nat
<1>1. Cardinality(A) \in Nat /\ Cardinality(B) \in Nat
  BY FS_CardinalityType
<1>2. Cardinality(A \cap B) = 0
  BY FS_EmptySet
<1>3. IsFiniteSet(A \cup B) /\ Cardinality(A \cup B) = Cardinality(A) + Cardinality(B) - Cardinality(A \cap B)
  BY FS_Union
<1>4. QED
  BY <1>1, <1>2, <1>3

\* The tasks of the three tables make up the whole.
LEMMA TypesAddUp ==
  ASSUME NEW S, IsFiniteSet(S), \A t \in S : t.id[1] \in TypeNames
  PROVE  Cardinality(S) = Cardinality(OfType(S, "scan")) + Cardinality(OfType(S, "index")) + Cardinality(OfType(S, "webhook"))
<1> DEFINE A == OfType(S, "scan")
           B == OfType(S, "index")
           C == OfType(S, "webhook")
<1>1. A \subseteq S /\ B \subseteq S /\ C \subseteq S
  BY DEF OfType
<1>2. S = (A \cup B) \cup C /\ A \cap B = {} /\ (A \cup B) \cap C = {}
  BY DEF OfType, TypeNames
<1> HIDE DEF A, B, C
<1>3. IsFiniteSet(A) /\ IsFiniteSet(B) /\ IsFiniteSet(C)
  BY <1>1, FS_Subset
<1>4. IsFiniteSet(A \cup B) /\ Cardinality(A \cup B) = Cardinality(A) + Cardinality(B)
  BY <1>2, <1>3, DisjointSizes
<1>5. Cardinality((A \cup B) \cup C) = Cardinality(A \cup B) + Cardinality(C)
  BY <1>2, <1>3, <1>4, DisjointSizes
<1>6. QED
  BY <1>2, <1>4, <1>5 DEF A, B, C

\* The tasks a field of the summary counts.
Counted(items, field, now) ==
    IF field = "total" THEN items
    ELSE IF field = "recent" THEN {t \in items : t.status = "completed" /\ now - t.completed <= RecentAge}
    ELSE {t \in items : t.status = field}
LEMMA SummaryCounts ==
  ASSUME NEW items, NEW now, NEW field \in CountFields \cup {"total", "recent"}
  PROVE  Summarize(items, now)[field] = Cardinality(Counted(items, field, now))
<1>1. field \in CountFields \cup {"total", "recent", "oldest"} /\ field # "oldest"
  BY DEF CountFields
<1>2. QED
  BY <1>1 DEF Summarize, Counted

LEMMA SummaryIsWhole ==
  ASSUME NEW items, IsFiniteSet(items), \A t \in items : t.id[1] \in TypeNames, NEW now, NEW answer,
         answer.counts = Summarize(items, now),
         answer.byType = [type \in PresentTypes(items) |-> Summarize(OfType(items, type), now)]
  PROVE  SummaryAddsUp(answer)
<1> DEFINE Of(field) == Counted(items, field, now)
           Fields == CountFields \cup {"total", "recent"}
<1>1. ASSUME NEW field \in Fields
      PROVE  /\ IsFiniteSet(Of(field)) /\ Of(field) \subseteq items /\ Cardinality(Of(field)) \in Nat
             /\ answer.counts[field] = Cardinality(Of(field))
  <2>1. Of(field) \subseteq items
    BY DEF Counted
  <2> HIDE DEF Of
  <2>2. IsFiniteSet(Of(field))
    BY <2>1, FS_Subset
  <2>3. Cardinality(Of(field)) \in Nat
    BY <2>2, FS_CardinalityType
  <2>4. answer.counts[field] = Cardinality(Of(field))
    BY SummaryCounts DEF Of
  <2>5. QED
    BY <2>1, <2>2, <2>3, <2>4
<1>2. ASSUME NEW field \in Fields, NEW type \in TypeNames
      PROVE  (IF type \in DOMAIN answer.byType THEN answer.byType[type][field] ELSE 0) = Cardinality(OfType(Of(field), type))
  <2>1. Counted(OfType(items, type), field, now) = OfType(Of(field), type)
    BY DEF Counted, OfType
  <2>2. CASE type \in PresentTypes(items)
    <3>1. Summarize(OfType(items, type), now)[field] = Cardinality(Counted(OfType(items, type), field, now))
      BY SummaryCounts
    <3>2. type \in DOMAIN answer.byType /\ answer.byType[type] = Summarize(OfType(items, type), now)
      BY <2>2
    <3>3. QED
      BY <2>1, <3>1, <3>2
  <2>3. CASE type \notin PresentTypes(items)
    <3>1. OfType(items, type) = {}
      BY <2>3 DEF OfType, PresentTypes
    <3>2. OfType(Of(field), type) = {}
      BY <1>1, <3>1 DEF OfType
    <3>3. Cardinality(OfType(Of(field), type)) = 0
      BY <3>2, FS_EmptySet
    <3>4. type \notin DOMAIN answer.byType
      BY <2>3
    <3>5. QED
      BY <3>3, <3>4
  <2>4. QED
    BY <2>2, <2>3
<1>3. ASSUME NEW field \in Fields PROVE answer.counts[field] = OverTypes(answer, field)
  <2>1. \A t \in Of(field) : t.id[1] \in TypeNames
    BY <1>1
  <2> HIDE DEF Of
  <2>2. Cardinality(Of(field)) = Cardinality(OfType(Of(field), "scan")) + Cardinality(OfType(Of(field), "index"))
                                 + Cardinality(OfType(Of(field), "webhook"))
    BY <1>1, <2>1, TypesAddUp
  <2>3. "scan" \in TypeNames /\ "index" \in TypeNames /\ "webhook" \in TypeNames
    BY DEF TypeNames
  <2>4. OverTypes(answer, field) = Cardinality(OfType(Of(field), "scan")) + Cardinality(OfType(Of(field), "index"))
                                 + Cardinality(OfType(Of(field), "webhook"))
    BY <1>2, <2>3 DEF OverTypes
  <2>5. QED
    BY <1>1, <2>2, <2>4
<1>4. LET c == answer.counts
      IN  c.queued + c.running + c.failed + c.stale + c.retrying + c.recent <= c.total
  <2> DEFINE Q == Of("queued")
             R == Of("running")
             F == Of("failed")
             S == Of("stale")
             T == Of("retrying")
             D == Of("recent")
  <2>1. {"queued", "running", "failed", "stale", "retrying", "recent", "total"} \subseteq Fields
    BY DEF CountFields
  <2>2. Of("total") = items
    BY DEF Counted
  <2>3. /\ Q \cap R = {} /\ (Q \cup R) \cap F = {} /\ ((Q \cup R) \cup F) \cap S = {}
        /\ (((Q \cup R) \cup F) \cup S) \cap T = {} /\ ((((Q \cup R) \cup F) \cup S) \cup T) \cap D = {}
    BY DEF Counted
  <2>4. /\ IsFiniteSet(Q) /\ IsFiniteSet(R) /\ IsFiniteSet(F) /\ IsFiniteSet(S) /\ IsFiniteSet(T) /\ IsFiniteSet(D)
        /\ Q \subseteq items /\ R \subseteq items /\ F \subseteq items /\ S \subseteq items /\ T \subseteq items /\ D \subseteq items
    BY <1>1, <2>1
  <2>5. LET c == answer.counts
        IN  /\ c.queued = Cardinality(Q) /\ c.running = Cardinality(R) /\ c.failed = Cardinality(F)
            /\ c.stale = Cardinality(S) /\ c.retrying = Cardinality(T) /\ c.recent = Cardinality(D)
            /\ c.total = Cardinality(items)
    BY <1>1, <2>1, <2>2
  <2> HIDE DEF Q, R, F, S, T, D
  <2>6. IsFiniteSet(Q \cup R) /\ Cardinality(Q \cup R) = Cardinality(Q) + Cardinality(R)
    BY <2>3, <2>4, DisjointSizes
  <2>7. /\ IsFiniteSet((Q \cup R) \cup F)
        /\ Cardinality((Q \cup R) \cup F) = Cardinality(Q \cup R) + Cardinality(F)
    BY <2>3, <2>4, <2>6, DisjointSizes
  <2>8. /\ IsFiniteSet(((Q \cup R) \cup F) \cup S)
        /\ Cardinality(((Q \cup R) \cup F) \cup S) = Cardinality((Q \cup R) \cup F) + Cardinality(S)
    BY <2>3, <2>4, <2>7, DisjointSizes
  <2>9. /\ IsFiniteSet((((Q \cup R) \cup F) \cup S) \cup T)
        /\ Cardinality((((Q \cup R) \cup F) \cup S) \cup T) = Cardinality(((Q \cup R) \cup F) \cup S) + Cardinality(T)
    BY <2>3, <2>4, <2>8, DisjointSizes
  <2> DEFINE U == (((Q \cup R) \cup F) \cup S) \cup T
  <2>10. /\ IsFiniteSet(U \cup D) /\ U \cap D = {} /\ Cardinality(U \cup D) = Cardinality(U) + Cardinality(D)
    BY <2>3, <2>4, <2>9, DisjointSizes
  <2>11. Cardinality(U \cup D) <= Cardinality(items)
    <3>1. U \cup D \subseteq items
      BY <2>4
    <3> HIDE DEF U
    <3>2. QED
      BY <3>1, FS_Subset
  <2>12. Cardinality(U) = Cardinality(Q) + Cardinality(R) + Cardinality(F) + Cardinality(S) + Cardinality(T)
    BY <2>6, <2>7, <2>8, <2>9
  <2>13. QED
    BY <2>5, <2>10, <2>11, <2>12
<1>5. QED
  BY <1>3, <1>4 DEF SummaryAddsUp

\* The tables that are still to be read, one after the other.
Turns == {<<"scan", "index", "webhook">>, <<"index", "webhook">>, <<"webhook">>, <<"scan">>, <<"index">>, <<>>}
LEMMA TablesInTurn ==
  /\ \A filter : TablesOf(filter) \in Turns /\ \A type \in ToSet(TablesOf(filter)) : filter.type \in {"", type}
  /\ \A todo \in Turns : todo # <<>> =>
        /\ Head(todo) \in TypeNames /\ Tail(todo) \in Turns
        /\ Head(todo) \in ToSet(todo) /\ ToSet(Tail(todo)) = ToSet(todo) \ {Head(todo)}
<1>1. \A a, b, c : /\ Head(<<a, b, c>>) = a /\ Tail(<<a, b, c>>) = <<b, c>> /\ ToSet(<<a, b, c>>) = {a, b, c}
                   /\ Head(<<b, c>>) = b /\ Tail(<<b, c>>) = <<c>> /\ ToSet(<<b, c>>) = {b, c}
  BY DEF ToSet
<1>2. PICK none : none = <<>>
  OBVIOUS
<1>3. ToSet(none) = {}
  BY <1>2 DEF ToSet
<1>4. \A c : Head(<<c>>) = c /\ Tail(<<c>>) = none /\ ToSet(<<c>>) = {c}
  BY <1>2 DEF ToSet
<1>5. ASSUME NEW todo \in Turns, todo # <<>>
      PROVE  /\ Head(todo) \in TypeNames /\ Tail(todo) \in Turns
             /\ Head(todo) \in ToSet(todo) /\ ToSet(Tail(todo)) = ToSet(todo) \ {Head(todo)}
  <2>1. CASE todo = <<"scan", "index", "webhook">>
    BY <1>1, <2>1 DEF Turns, TypeNames
  <2>2. CASE todo = <<"index", "webhook">>
    BY <1>1, <1>4, <2>2 DEF Turns, TypeNames
  <2>3. CASE todo = <<"webhook">>
    BY <1>2, <1>3, <1>4, <2>3 DEF Turns, TypeNames
  <2>4. CASE todo = <<"scan">>
    BY <1>2, <1>3, <1>4, <2>4 DEF Turns, TypeNames
  <2>5. CASE todo = <<"index">>
    BY <1>2, <1>3, <1>4, <2>5 DEF Turns, TypeNames
  <2>6. QED
    BY <1>5, <2>1, <2>2, <2>3, <2>4, <2>5 DEF Turns
<1>6. ASSUME NEW filter
      PROVE  TablesOf(filter) \in Turns /\ \A type \in ToSet(TablesOf(filter)) : filter.type \in {"", type}
  <2>1. ToSet(Types) = TypeNames
    BY <1>1 DEF Types, TypeNames
  <2>2. CASE filter.type = ""
    BY <2>2 DEF TablesOf, Types, Turns
  <2>3. CASE filter.type # "" /\ filter.type \in TypeNames
    <3>1. TablesOf(filter) = <<filter.type>>
      BY <2>1, <2>3 DEF TablesOf
    <3>2. ToSet(<<filter.type>>) = {filter.type}
      BY <1>4
    <3>3. \A type \in TypeNames : <<type>> \in Turns
      BY DEF Turns, TypeNames
    <3>4. QED
      BY <2>3, <3>1, <3>2, <3>3
  <2>4. CASE filter.type # "" /\ filter.type \notin TypeNames
    <3>1. TablesOf(filter) = none
      BY <1>2, <2>1, <2>4 DEF TablesOf
    <3>2. QED
      BY <1>2, <1>3, <3>1 DEF Turns
  <2>5. QED
    BY <2>2, <2>3, <2>4
<1>7. QED
  BY <1>5, <1>6

\* The conditions that ListIsTrue sets on a row: the filter is about it.
Meets(k, row, filter) ==
    /\ filter.project \in {"", row.project} /\ filter.worker \in {"", row.worker}
    /\ filter.after <= row.created /\ (filter.before # Never => row.created <= filter.before)
    /\ filter.scan \in {0} \cup (IF k[1] = "webhook" THEN {} ELSE {row.scan})

\* A row whose task the filter wants has the status the tables are asked for.
LEMMA StatusIsAskedFor ==
  ASSUME NEW k, NEW row, NEW now, NEW filter, row.status \in {"accepted", "running"} \cup Ended,
         MatchesFilter(NewTask(k, row, now), filter)
  PROVE  InternalStatus(filter) \in {"", row.status}
<1> DEFINE shows == NormalizeStatus(k, row, now)
<1>1. NewTask(k, row, now).status = shows
  BY DEF NewTask
<1>2. /\ RequestedStatus(filter) \in {"", shows}
      /\ filter.stale => shows = "stale"
  BY <1>1 DEF MatchesFilter
<1>3. /\ row.status = "accepted" => shows \in {"retrying", "queued"}
      /\ row.status = "running" => shows \in {"stale", "running"}
      /\ row.status \in Ended => shows = row.status
  BY DEF NormalizeStatus, Ended
<1> HIDE DEF shows
<1>4. CASE filter.stale
  BY <1>2, <1>3, <1>4 DEF InternalStatus, Ended
<1>5. CASE ~filter.stale
  <2>1. filter.status = "accepted" => shows = "queued"
    BY <1>2 DEF RequestedStatus
  <2>2. filter.status # "accepted" => filter.status \in {"", shows}
    BY <1>2 DEF RequestedStatus
  <2>3. InternalStatus(filter) =
          CASE filter.status \in {"queued", "accepted", "retrying"} -> "accepted"
            [] filter.status = "stale" -> "running"
            [] filter.status \in {"running", "completed", "failed", "cancelled"} -> filter.status
            [] OTHER -> ""
    BY <1>5 DEF InternalStatus
  <2>4. QED
    BY <1>3, <2>1, <2>2, <2>3 DEF Ended
<1>6. QED
  BY <1>4, <1>5

RowsOf(type) == {j \in Tasks : j[1] = type /\ tasks[j] # NoRow}
LEMMA RowsAreThere ==
  ASSUME NEW type, NEW filter
  PROVE  {k \in Tasks : k[1] = type /\ JobWhere(k, filter)} \subseteq RowsOf(type)
<1>1. NoRow.status = "none"
  BY DEF NoRow
<1>2. \A k : JobWhere(k, filter) => tasks[k].status # "none"
  BY DEF JobWhere, Status
<1>3. QED
  BY <1>1, <1>2 DEF RowsOf

\* A list has every row of a table that the filter wants, as long as the table fits the limit of the statement.
LEMMA RowIsListed ==
  ASSUME clock \in Nat, NEW type, IsFiniteSet(RowsOf(type)), NEW filter \in TaskFilters, NEW now,
         NEW k \in RowsOf(type), TellsTime(tasks[k], clock), Cardinality(RowsOf(type)) <= RowLimit,
         Meets(k, tasks[k], filter), MatchesFilter(NewTask(k, tasks[k], now), filter)
  PROVE  ListedTask(k, now) \in ListJobs(type, filter, now)
<1> DEFINE rows == {j \in Tasks : j[1] = type /\ JobWhere(j, filter)}
           newer == {i \in rows : Newer(i, k)}
<1>1. k \in Tasks /\ k[1] = type /\ k[2] \in Nat /\ tasks[k].created \in Nat
  <2>1. k \in {"scan", "index", "webhook"} \X Nat
    BY TaskAssumption DEF RowsOf
  <2>2. QED
    BY <2>1 DEF RowsOf, TellsTime
<1>2. tasks[k].status \in {"accepted", "running"} \cup Ended /\ tasks[k].status # "none"
  BY DEF TellsTime, Ended
<1>3. JobWhere(k, filter)
  <2>1. InternalStatus(filter) \in {"", tasks[k].status}
    BY <1>2, StatusIsAskedFor
  <2>2. filter.scan # 0 => k[1] # "webhook" /\ tasks[k].scan = filter.scan
    BY DEF Meets
  <2>3. filter.after \in Int
    BY TaskAssumption
  <2>4. /\ filter.after # Never => tasks[k].created >= filter.after
        /\ filter.before # Never => tasks[k].created <= filter.before
    BY <1>1, <2>3 DEF Meets
  <2>5. filter.project \in {"", tasks[k].project} /\ filter.worker \in {"", tasks[k].worker}
    BY DEF Meets
  <2>6. QED
    BY <1>2, <2>1, <2>2, <2>4, <2>5 DEF JobWhere, Status
<1>4. rows \subseteq RowsOf(type)
  BY RowsAreThere
<1>5. k \in rows /\ k \notin newer
  BY <1>1, <1>3 DEF Newer
<1>6. newer \subseteq RowsOf(type) \ {k}
  BY <1>4, <1>5
<1>7. ListJobs(type, filter, now) = {ListedTask(j, now) : j \in {j \in rows : Cardinality({i \in rows : Newer(i, j)}) < RowLimit}}
  BY DEF ListJobs
<1>8. k \in {j \in rows : Cardinality({i \in rows : Newer(i, j)}) < RowLimit} <=> Cardinality(newer) < RowLimit
  BY <1>5
<1> HIDE DEF newer
<1>9. IsFiniteSet(RowsOf(type) \ {k}) /\ Cardinality(RowsOf(type) \ {k}) = Cardinality(RowsOf(type)) - 1
  BY FS_RemoveElement
<1>10. IsFiniteSet(newer) /\ Cardinality(newer) <= Cardinality(RowsOf(type) \ {k})
  BY <1>6, <1>9, FS_Subset
<1>11. Cardinality(newer) \in Nat /\ Cardinality(RowsOf(type)) \in Nat
  BY <1>10, FS_CardinalityType
<1>12. Cardinality(newer) < RowLimit
  BY <1>9, <1>10, <1>11, TaskAssumption
<1> HIDE DEF rows
<1>13. QED
  BY <1>7, <1>8, <1>12

\* What a list has: tasks of rows of the table, one each.
LEMMA ListedRows ==
  ASSUME clock \in Nat, NEW type, IsFiniteSet(RowsOf(type)), NEW filter, NEW now
  PROVE  /\ IsFiniteSet(ListJobs(type, filter, now))
         /\ \A t \in ListJobs(type, filter, now) : t.id \in RowsOf(type) /\ t = ListedTask(t.id, now)
         /\ \A k : LET t == ListedTask(k, now)
                   IN  t.id = k /\ t.created = tasks[k].created /\ t.status = NewTask(k, tasks[k], now).status
<1>1. ASSUME NEW k
      PROVE  LET t == ListedTask(k, now)
             IN  t.id = k /\ t.created = tasks[k].created /\ t.status = NewTask(k, tasks[k], now).status
  <2> DEFINE new == NewTask(k, tasks[k], now)
  <2>1. new.id = k /\ new.created = tasks[k].created /\ "params" \in DOMAIN new
    BY DEF NewTask
  <2>2. ListedTask(k, now) = [new EXCEPT !.params = ScannerParameters(k, tasks[k])]
    BY DEF ListedTask
  <2>3. DOMAIN new = {"id", "status", "created", "completed", "age", "duration", "actions", "params"}
    BY DEF NewTask
  <2> HIDE DEF new
  <2>4. QED
    BY <2>1, <2>2, <2>3 DEF new
<1> DEFINE rows == {j \in Tasks : j[1] = type /\ JobWhere(j, filter)}
           newest == {j \in rows : Cardinality({i \in rows : Newer(i, j)}) < RowLimit}
           named == {ListedTask(k, now) : k \in newest}
           showing == [k \in newest |-> ListedTask(k, now)]
<1>2. ListJobs(type, filter, now) = named
  BY DEF ListJobs
<1>3. newest \subseteq RowsOf(type)
  BY RowsAreThere
<1> HIDE DEF newest
<1>4. IsFiniteSet(newest)
  BY <1>3, FS_Subset
<1>5. showing \in Surjection(newest, named)
  BY DEF Surjection
<1>6. IsFiniteSet(named)
  <2> HIDE DEF showing, named
  <2>1. QED
    BY <1>4, <1>5, FS_Surjection
<1>7. \A t \in named : t.id \in RowsOf(type) /\ t = ListedTask(t.id, now)
  BY <1>1, <1>3
<1>8. QED
  BY <1>1, <1>2, <1>6, <1>7

\* What a request has read so far: tasks of tables that are behind it, one per row, and no row is missing
\* that the filter wants, where the table fits the limit.
Few(read, k) == Cardinality({j \in DOMAIN read : j[1] = k[1] /\ read[j] # NoRow}) <= RowLimit
Missed(r, k) ==
    /\ r.read[k] # NoRow /\ Few(r.read, k) /\ Meets(k, r.read[k], r.filter)
    /\ MatchesFilter(NewTask(k, r.read[k], r.now), r.filter)
    /\ \A t \in r.loaded : t.id # k \/ t.status # NewTask(k, r.read[k], r.now).status
ReadTrue(r) ==
    /\ r.filter \in TaskFilters /\ r.todo \in Turns
    /\ \A type \in ToSet(r.todo) : r.filter.type \in {"", type}
    /\ IsFiniteSet(r.loaded)
    /\ \A t \in r.loaded : Orderly(t) /\ t.id[1] \notin ToSet(r.todo) /\ r.filter.type \in {"", t.id[1]}
    /\ \A t, u \in r.loaded : t.id = u.id => t = u
    /\ DOMAIN r.read \subseteq Tasks /\ \A k \in DOMAIN r.read : ~Missed(r, k)
Reading(r) == r.kind \in {"list", "summary", "metrics"}
RequestTrue(r) ==
    Reading(r) =>
      /\ r = [kind |-> r.kind, filter |-> r.filter, now |-> r.now, read |-> r.read, loaded |-> r.loaded, todo |-> r.todo]
      /\ ReadTrue(r)
AnswerTrue(answer) ==
    answer.code = 200 =>
        /\ answer.kind = "list" => ListIsTrue(answer)
        /\ answer.kind = "summary" => ListIsTrue(answer) /\ SummaryAddsUp(answer)

\* What has been read is listed as it should be.
LEMMA AnswerIsTrue ==
  ASSUME NEW r, ReadTrue(r), NEW answer, answer.filter = r.filter, answer.read = r.read, answer.now = r.now,
         answer.items = InOrder(Matching(r.loaded, r.filter))
  PROVE  /\ ListIsTrue(answer)
         /\ IsFiniteSet(Matching(r.loaded, r.filter)) /\ \A t \in Matching(r.loaded, r.filter) : t.id[1] \in TypeNames
<1> DEFINE S == Matching(r.loaded, r.filter)
<1>1. S \subseteq r.loaded /\ \A t \in r.loaded : t \in S <=> MatchesFilter(t, r.filter)
  BY DEF Matching
<1>2. IsFiniteSet(r.loaded)
  BY DEF ReadTrue
<1> HIDE DEF S
<1>3. IsFiniteSet(S)
  BY <1>1, <1>2, FS_Subset
<1>4. \A t \in S : Orderly(t) /\ r.filter.type \in {"", t.id[1]}
  BY <1>1 DEF ReadTrue
<1>5. \A t, u \in S : t.id = u.id => t = u
  BY <1>1 DEF ReadTrue
<1>6. /\ ToSet(answer.items) = S
      /\ \A i, j \in DOMAIN answer.items : i < j => Precedes(answer.items[i], answer.items[j])
  <2>1. answer.items = InOrder(S)
    BY DEF S
  <2>2. QED
    BY <1>3, <1>4, <1>5, <2>1, ItemsInOrder
<1>7. \A t \in ToSet(answer.items) : Wanted(t, answer)
  BY <1>1, <1>4, <1>6 DEF Wanted
<1>8. ASSUME NEW k \in DOMAIN answer.read, answer.read[k] # NoRow, Few(answer.read, k),
             Meets(k, answer.read[k], answer.filter), MatchesFilter(NewTask(k, answer.read[k], answer.now), answer.filter)
      PROVE  \E t \in ToSet(answer.items) : t.id = k
  <2> DEFINE new == NewTask(k, answer.read[k], answer.now)
  <2>1. ~Missed(r, k)
    BY DEF ReadTrue
  <2>2. PICK t \in r.loaded : t.id = k /\ t.status = new.status
    BY <1>8, <2>1 DEF Missed
  <2>3. MatchesFilter(new, r.filter)
    BY <1>8
  <2> HIDE DEF new
  <2>4. MatchesFilter(t, r.filter)
    BY <2>2, <2>3 DEF MatchesFilter
  <2>5. QED
    BY <1>1, <1>6, <2>2, <2>4
<1>9. ListIsTrue(answer)
  <2>1. \A k \in DOMAIN answer.read :
          /\ answer.read[k] # NoRow
          /\ Cardinality({j \in DOMAIN answer.read : j[1] = k[1] /\ answer.read[j] # NoRow}) <= RowLimit
          /\ answer.filter.project \in {"", answer.read[k].project} /\ answer.filter.worker \in {"", answer.read[k].worker}
          /\ answer.filter.after <= answer.read[k].created
          /\ (answer.filter.before # Never => answer.read[k].created <= answer.filter.before)
          /\ answer.filter.scan \in {0} \cup (IF k[1] = "webhook" THEN {} ELSE {answer.read[k].scan})
          /\ Wanted(NewTask(k, answer.read[k], answer.now), answer)
          => \E t \in ToSet(answer.items) : t.id = k
    <3> SUFFICES ASSUME NEW k \in DOMAIN answer.read,
          /\ answer.read[k] # NoRow
          /\ Cardinality({j \in DOMAIN answer.read : j[1] = k[1] /\ answer.read[j] # NoRow}) <= RowLimit
          /\ answer.filter.project \in {"", answer.read[k].project} /\ answer.filter.worker \in {"", answer.read[k].worker}
          /\ answer.filter.after <= answer.read[k].created
          /\ (answer.filter.before # Never => answer.read[k].created <= answer.filter.before)
          /\ answer.filter.scan \in {0} \cup (IF k[1] = "webhook" THEN {} ELSE {answer.read[k].scan})
          /\ Wanted(NewTask(k, answer.read[k], answer.now), answer)
          PROVE \E t \in ToSet(answer.items) : t.id = k
      OBVIOUS
    <3>1. Few(answer.read, k)
      BY DEF Few
    <3>2. Meets(k, answer.read[k], answer.filter)
      BY Zenon DEF Meets
    <3>3. MatchesFilter(NewTask(k, answer.read[k], answer.now), answer.filter)
      BY Zenon DEF Wanted
    <3>4. QED
      BY <1>8, <3>1, <3>2, <3>3
  <2>2. QED
    BY <1>6, <1>7, <2>1, Zenon DEF ListIsTrue
<1>10. QED
  BY <1>3, <1>4, <1>9 DEF S, Orderly

\* The steps of the jobs add a row at most, and the statements of a request none.
Rows == {k \in Tasks : tasks[k] # NoRow}
ViewInv ==
    /\ IsFiniteSet(Rows)
    /\ \A c \in TaskClients : RequestTrue(asks[c]) /\ AnswerTrue(shown[c])

LEMMA RowsStayFinite ==
  ASSUME TasksInv, IsFiniteSet(Rows), NEW k \in Tasks, NEW row, tasks' = [tasks EXCEPT ![k] = row]
  PROVE  IsFiniteSet(Rows')
<1>1. Rows' \subseteq Rows \cup {k}
  BY DEF Rows, TasksInv, RowsSeen
<1>2. IsFiniteSet(Rows \cup {k})
  BY FS_AddElement
<1>3. QED
  BY <1>1, <1>2, FS_Subset

LEMMA JobsKeepView == ASSUME TasksInv, ViewInv, JobsMove PROVE ViewInv'
<1>1. UNCHANGED <<asks, shown>> /\ (tasks' = tasks \/ \E k \in Tasks : \E row : tasks' = [tasks EXCEPT ![k] = row])
  <2>1. CASE Tick
    BY <2>1 DEF Tick
  <2>2. ASSUME NEW k \in Tasks, NEW project, NEW scan, NEW params, Enqueue(k, project, scan, params)
        PROVE  UNCHANGED <<asks, shown>> /\ \E row : tasks' = [tasks EXCEPT ![k] = row]
    BY <2>2 DEF Enqueue
  <2>3. ASSUME NEW k \in Tasks, Claim(k) \/ Reschedule(k) \/ RecoverTask(k) \/ \E status : \E scan : Settle(k, status, scan)
        PROVE  UNCHANGED <<asks, shown>> /\ \E row : tasks' = [tasks EXCEPT ![k] = row]
    <3>1. UNCHANGED <<asks, shown>> /\ \E changes : Becomes(k, changes)
      BY <2>3, Zenon DEF Claim, Reschedule, RecoverTask, Settle
    <3>2. QED
      BY <3>1 DEF Becomes
  <2>4. ASSUME NEW k \in Tasks, WorkerCrash(k) PROVE UNCHANGED <<asks, shown>> /\ tasks' = tasks
    BY <2>4 DEF WorkerCrash
  <2>5. QED
    BY <2>1, <2>2, <2>3, <2>4 DEF JobsMove
<1>2. IsFiniteSet(Rows')
  <2>1. CASE tasks' = tasks
    BY <2>1 DEF ViewInv, Rows
  <2>2. QED
    BY <1>1, <2>1, RowsStayFinite DEF ViewInv
<1>3. QED
  BY <1>1, <1>2 DEF ViewInv

LEMMA RequestKeepsView ==
  ASSUME TasksInv, ViewInv, NEW c \in TaskClients, NEW r, Asks(c, r), RequestTrue(r),
         shown' = shown \/ \E answer : shown' = [shown EXCEPT ![c] = answer] /\ AnswerTrue(answer),
         IsFiniteSet(Rows')
  PROVE  ViewInv'
<1>1. \A d \in TaskClients : asks'[d] = IF d = c THEN r ELSE asks[d]
  BY DEF TasksInv, RowsSeen, Asks
<1>2. \A d \in TaskClients : AnswerTrue(shown'[d])
  BY DEF TasksInv, RowsSeen, ViewInv
<1>3. QED
  BY <1>1, <1>2 DEF ViewInv

LEMMA AnswerKeepsView ==
  ASSUME TasksInv, ViewInv, NEW c \in TaskClients, NEW answer, Answers(c, answer), AnswerTrue(answer), IsFiniteSet(Rows')
  PROVE  ViewInv'
<1>1. RequestTrue(NoRequest)
  BY DEF RequestTrue, Reading, NoRequest
<1>2. QED
  BY <1>1, RequestKeepsView DEF Answers

LEMMA OtherAnswersAreTrue ==
  /\ \A n : n # 200 => AnswerTrue([code |-> n])
  /\ \A task : AnswerTrue([code |-> 200, kind |-> "detail", task |-> task])
  /\ \A task : AnswerTrue([code |-> 202, kind |-> "task", task |-> task])
  /\ AnswerTrue([code |-> 202, kind |-> "queued"])
BY DEF AnswerTrue

LEMMA AskingKeepsView ==
  ASSUME NEW kind, NEW filter \in TaskFilters, NEW now
  PROVE  RequestTrue([kind |-> kind, filter |-> filter, now |-> now, read |-> <<>>, loaded |-> {}, todo |-> TablesOf(filter)])
<1>1. PICK none : none = <<>> /\ DOMAIN none = {}
  OBVIOUS
<1> DEFINE r == [kind |-> kind, filter |-> filter, now |-> now, read |-> none, loaded |-> {}, todo |-> TablesOf(filter)]
<1>2. /\ r.filter = filter /\ r.todo = TablesOf(filter) /\ r.loaded = {} /\ r.read = none
      /\ r = [kind |-> r.kind, filter |-> r.filter, now |-> r.now, read |-> r.read, loaded |-> r.loaded, todo |-> r.todo]
  OBVIOUS
<1> HIDE DEF r
<1>3. IsFiniteSet(r.loaded)
  BY <1>2, FS_EmptySet
<1>4. ReadTrue(r)
  BY <1>1, <1>2, <1>3, TablesInTurn DEF ReadTrue
<1>5. RequestTrue(r)
  BY <1>2, <1>4 DEF RequestTrue
<1>6. QED
  BY <1>1, <1>5 DEF r

LEMMA LoadingKeepsView ==
  ASSUME TasksInv, ViewInv, NEW c \in TaskClients, LoadTasks(c)
  PROVE  ViewInv'
<1> DEFINE r == asks[c]
           type == Head(r.todo)
           relation == {k \in Tasks : k[1] = type}
           more == ListJobs(type, r.filter, r.now)
           q == [kind |-> r.kind, filter |-> r.filter, now |-> r.now,
                 read |-> [k \in relation \cup DOMAIN r.read |-> IF k \in relation THEN tasks[k] ELSE r.read[k]],
                 loaded |-> r.loaded \cup more, todo |-> Tail(r.todo)]
<1>1. Reading(r) /\ r.todo # <<>> /\ UNCHANGED <<tasks, shown>>
  BY DEF LoadTasks, Reading
<1>2. /\ r = [kind |-> r.kind, filter |-> r.filter, now |-> r.now, read |-> r.read, loaded |-> r.loaded, todo |-> r.todo]
      /\ ReadTrue(r)
  BY <1>1 DEF ViewInv, RequestTrue
<1>3. Asks(c, q)
  BY Zenon DEF LoadTasks
<1>4. /\ type \in TypeNames /\ Tail(r.todo) \in Turns /\ type \in ToSet(r.todo)
      /\ ToSet(Tail(r.todo)) = ToSet(r.todo) \ {type} /\ r.filter.type \in {"", type} /\ r.filter \in TaskFilters
  BY <1>1, <1>2, TablesInTurn DEF ReadTrue
<1>5. IsFiniteSet(RowsOf(type)) /\ RowsOf(type) \subseteq Rows /\ RowsOf(type) \subseteq Tasks /\ clock \in Nat
  <2>1. RowsOf(type) \subseteq Rows /\ RowsOf(type) \subseteq Tasks
    BY DEF RowsOf, Rows
  <2>2. IsFiniteSet(Rows)
    BY DEF ViewInv
  <2>3. QED
    BY <2>1, <2>2, TaskAssumption, FS_Subset DEF TasksInv
<1>6. \A k \in RowsOf(type) : TellsTime(tasks[k], clock) /\ k[1] = type /\ tasks[k].created \in Int /\ k \in TypeNames \X Nat
  <2> SUFFICES ASSUME NEW k \in RowsOf(type)
               PROVE  TellsTime(tasks[k], clock) /\ k[1] = type /\ tasks[k].created \in Int /\ k \in TypeNames \X Nat
    OBVIOUS
  <2>1. TellsTime(tasks[k], clock) /\ k[1] = type /\ k \in Tasks
    BY DEF RowsOf, TasksInv, RowsSeen
  <2>2. k \in TypeNames \X Nat
    BY <2>1, TaskAssumption DEF TypeNames
  <2>3. QED
    BY <1>5, <2>1, <2>2 DEF TellsTime
<1>7. /\ IsFiniteSet(more)
      /\ \A t \in more : t.id \in RowsOf(type) /\ t = ListedTask(t.id, r.now)
      /\ \A k : LET t == ListedTask(k, r.now)
                IN  t.id = k /\ t.created = tasks[k].created /\ t.status = NewTask(k, tasks[k], r.now).status
  BY <1>5, ListedRows
<1>8. /\ q.filter = r.filter /\ q.now = r.now /\ q.kind = r.kind /\ q.todo = Tail(r.todo) /\ q.loaded = r.loaded \cup more
      /\ DOMAIN q.read = relation \cup DOMAIN r.read
      /\ \A k \in DOMAIN q.read : q.read[k] = IF k[1] = type /\ k \in Tasks THEN tasks[k] ELSE r.read[k]
      /\ q = [kind |-> q.kind, filter |-> q.filter, now |-> q.now, read |-> q.read, loaded |-> q.loaded, todo |-> q.todo]
  OBVIOUS
<1>9. \A k : k \in relation <=> k \in Tasks /\ k[1] = type
  OBVIOUS
<1>10. RowsOf(type) = {k \in relation : tasks[k] # NoRow}
  BY DEF RowsOf
<1> HIDE DEF r, type, relation, more, q
<1>11. \A t \in more : Orderly(t) /\ t.id[1] = type
  <2> SUFFICES ASSUME NEW t \in more PROVE Orderly(t) /\ t.id[1] = type
    OBVIOUS
  <2>1. t.id \in RowsOf(type) /\ t = ListedTask(t.id, r.now)
    BY <1>7
  <2>2. t.created = tasks[t.id].created
    BY <1>7, <2>1
  <2>3. QED
    BY <1>6, <2>1, <2>2 DEF Orderly
<1>12. \A t, u \in more : t.id = u.id => t = u
  BY <1>7
<1>13. IsFiniteSet(q.loaded)
  <2>1. IsFiniteSet(r.loaded)
    BY <1>2 DEF ReadTrue
  <2>2. IsFiniteSet(r.loaded \cup more)
    BY <1>7, <2>1, FS_Union
  <2>3. QED
    BY <1>8, <2>2
<1>14. \A t \in q.loaded : Orderly(t) /\ t.id[1] \notin ToSet(q.todo) /\ q.filter.type \in {"", t.id[1]}
  <2> SUFFICES ASSUME NEW t \in q.loaded PROVE Orderly(t) /\ t.id[1] \notin ToSet(q.todo) /\ q.filter.type \in {"", t.id[1]}
    OBVIOUS
  <2>1. CASE t \in r.loaded
    BY <1>2, <1>4, <1>8, <2>1 DEF ReadTrue
  <2>2. CASE t \in more
    BY <1>4, <1>8, <1>11, <2>2
  <2>3. QED
    BY <1>8, <2>1, <2>2
<1>15. \A t, u \in q.loaded : t.id = u.id => t = u
  <2>1. \A t \in r.loaded : t.id[1] # type
    BY <1>2, <1>4 DEF ReadTrue
  <2>2. \A t, u \in r.loaded : t.id = u.id => t = u
    BY <1>2 DEF ReadTrue
  <2>3. QED
    BY <1>8, <1>11, <1>12, <2>1, <2>2
<1>16. DOMAIN q.read \subseteq Tasks
  BY <1>2, <1>8, <1>9 DEF ReadTrue
<1>17. ASSUME NEW k \in DOMAIN q.read, Missed(q, k) PROVE FALSE
  <2>1. CASE k \in relation
    <3>1. q.read[k] = tasks[k] /\ k \in Tasks /\ k[1] = type
      BY <1>8, <1>9, <2>1
    <3>2. {j \in DOMAIN q.read : j[1] = k[1] /\ q.read[j] # NoRow} = RowsOf(type)
      <4>1. \A j \in DOMAIN q.read : j[1] = type => j \in relation /\ q.read[j] = tasks[j]
        BY <1>8, <1>9, <1>16
      <4>2. \A j \in relation : j \in DOMAIN q.read /\ j[1] = type
        BY <1>8, <1>9
      <4>3. QED
        BY <1>10, <3>1, <4>1, <4>2
    <3>3. Cardinality(RowsOf(type)) <= RowLimit
      BY <1>17, <3>2 DEF Missed, Few
    <3>4. k \in RowsOf(type) /\ TellsTime(tasks[k], clock)
      BY <1>6, <1>10, <1>17, <2>1, <3>1 DEF Missed
    <3>5. Meets(k, tasks[k], r.filter) /\ MatchesFilter(NewTask(k, tasks[k], r.now), r.filter)
      BY <1>8, <1>17, <3>1 DEF Missed
    <3>6. ListedTask(k, r.now) \in ListJobs(type, r.filter, r.now)
      BY <1>4, <1>5, <3>3, <3>4, <3>5, RowIsListed
    <3>7. ListedTask(k, r.now) \in q.loaded
      BY <1>8, <3>6 DEF more
    <3>8. ListedTask(k, r.now).id = k /\ ListedTask(k, r.now).status = NewTask(k, tasks[k], r.now).status
      BY <1>7
    <3>9. QED
      BY <1>8, <1>17, <3>1, <3>7, <3>8 DEF Missed
  <2>2. CASE k \notin relation
    <3>1. k \in DOMAIN r.read /\ q.read[k] = r.read[k] /\ k \in Tasks /\ k[1] # type
      BY <1>8, <1>9, <1>16, <2>2
    <3>2. {j \in DOMAIN q.read : j[1] = k[1] /\ q.read[j] # NoRow} = {j \in DOMAIN r.read : j[1] = k[1] /\ r.read[j] # NoRow}
      <4>1. \A j \in DOMAIN q.read : j[1] = k[1] => j \in DOMAIN r.read /\ q.read[j] = r.read[j]
        BY <1>8, <1>9, <3>1
      <4>2. DOMAIN r.read \subseteq DOMAIN q.read
        BY <1>8
      <4>3. QED
        BY <4>1, <4>2
    <3>3. Few(r.read, k)
      BY <1>17, <3>2 DEF Missed, Few
    <3>4. Missed(r, k)
      BY <1>8, <1>17, <3>1, <3>3 DEF Missed
    <3>5. QED
      BY <1>2, <3>1, <3>4 DEF ReadTrue
  <2>3. QED
    BY <2>1, <2>2
<1>18. ReadTrue(q)
  <2>1. \A ty \in ToSet(q.todo) : q.filter.type \in {"", ty}
    BY <1>2, <1>4, <1>8 DEF ReadTrue
  <2>2. q.filter \in TaskFilters /\ q.todo \in Turns
    BY <1>4, <1>8
  <2>3. QED
    BY <1>13, <1>14, <1>15, <1>16, <1>17, <2>1, <2>2 DEF ReadTrue
<1>19. RequestTrue(q)
  BY <1>8, <1>18 DEF RequestTrue
<1>20. IsFiniteSet(Rows')
  BY <1>1 DEF ViewInv, Rows
<1>21. QED
  BY <1>1, <1>3, <1>19, <1>20, RequestKeepsView

LEMMA RequestsKeepView ==
  ASSUME TasksInv, ViewInv, NEW c \in TaskClients,
         \/ \E filter \in TaskFilters : \E kind : AskForTasks(c, kind, filter)
         \/ LoadTasks(c) \/ StatementFails(c) \/ List(c) \/ Summary(c)
         \/ (\E k : Detail(c, k) \/ \E action : CheckAction(c, k, action))
         \/ ApplyAction(c) \/ ApplyFails(c) \/ ReadAgain(c)
  PROVE  ViewInv'
<1>1. RequestTrue(NoRequest)
  BY DEF RequestTrue, Reading, NoRequest
<1>2. tasks' = tasks => IsFiniteSet(Rows')
  BY DEF ViewInv, Rows
<1>3. ASSUME NEW filter \in TaskFilters, NEW kind, AskForTasks(c, kind, filter) PROVE ViewInv'
  <2> DEFINE r == [kind |-> kind, filter |-> filter, now |-> clock, read |-> <<>>, loaded |-> {}, todo |-> TablesOf(filter)]
  <2>1. Asks(c, r) /\ shown' = shown /\ tasks' = tasks
    BY <1>3 DEF AskForTasks
  <2>2. RequestTrue(r)
    BY AskingKeepsView
  <2> HIDE DEF r
  <2>3. QED
    BY <1>2, <2>1, <2>2, RequestKeepsView
<1>4. ASSUME StatementFails(c) PROVE ViewInv'
  <2>1. Asks(c, NoRequest) /\ tasks' = tasks
    BY <1>4 DEF StatementFails, Answers
  <2>2. shown' = shown \/ shown' = [shown EXCEPT ![c] = [code |-> 500]]
    BY <1>4 DEF StatementFails, Answers
  <2>3. AnswerTrue([code |-> 500])
    BY OtherAnswersAreTrue
  <2>4. QED
    BY <1>1, <1>2, <2>1, <2>2, <2>3, RequestKeepsView
<1>5. ASSUME List(c) PROVE ViewInv'
  <2> DEFINE r == asks[c]
             items == InOrder(Matching(r.loaded, r.filter))
  <2>1. r.kind = "list" /\ tasks' = tasks
    BY <1>5 DEF List
  <2>2. ReadTrue(r)
    BY <2>1 DEF ViewInv, RequestTrue, Reading
  <2>3. PICK page : Answers(c, [code |-> 200, kind |-> "list", filter |-> r.filter, items |-> items, read |-> r.read,
                                now |-> r.now, page |-> page])
    BY <1>5, Zenon DEF List
  <2> HIDE DEF r, items
  <2>4. PICK answer : answer = [code |-> 200, kind |-> "list", filter |-> r.filter, items |-> items, read |-> r.read,
                                now |-> r.now, page |-> page]
    OBVIOUS
  <2>5. /\ answer.kind = "list" /\ answer.filter = r.filter /\ answer.read = r.read /\ answer.now = r.now
        /\ answer.items = InOrder(Matching(r.loaded, r.filter))
    BY <2>4 DEF items
  <2>6. ListIsTrue(answer)
    BY ONLY <2>2, <2>5, AnswerIsTrue
  <2>7. AnswerTrue(answer)
    BY <2>5, <2>6 DEF AnswerTrue
  <2>8. QED
    BY <1>2, <2>1, <2>3, <2>4, <2>7, AnswerKeepsView
<1>6. ASSUME Summary(c) PROVE ViewInv'
  <2> DEFINE r == asks[c]
             items == Matching(r.loaded, r.filter)
             full == [code |-> 200, kind |-> "summary", filter |-> r.filter, items |-> InOrder(items), read |-> r.read,
                      now |-> r.now, counts |-> Summarize(items, clock),
                      byType |-> [type \in PresentTypes(items) |-> Summarize(OfType(items, type), clock)]]
  <2>1. Reading(r) /\ tasks' = tasks
    BY <1>6 DEF Summary, Reading
  <2>2. ReadTrue(r)
    BY <2>1 DEF ViewInv, RequestTrue
  <2>3. (Asks(c, NoRequest) /\ shown' = shown) \/ Answers(c, full)
    BY <1>6, Zenon DEF Summary
  <2>4. PICK answer : answer = full
    OBVIOUS
  <2> HIDE DEF r
  <2>5. /\ answer.kind = "summary" /\ answer.filter = r.filter /\ answer.read = r.read /\ answer.now = r.now
        /\ answer.items = InOrder(Matching(r.loaded, r.filter))
        /\ answer.counts = Summarize(items, clock)
        /\ answer.byType = [type \in PresentTypes(items) |-> Summarize(OfType(items, type), clock)]
    BY <2>4
  <2>6. ListIsTrue(answer) /\ IsFiniteSet(items) /\ \A t \in items : t.id[1] \in TypeNames
    BY ONLY <2>2, <2>5, AnswerIsTrue
  <2> HIDE DEF items, full
  <2>7. SummaryAddsUp(answer)
    BY ONLY <2>5, <2>6, SummaryIsWhole
  <2>8. AnswerTrue(answer)
    BY <2>5, <2>6, <2>7 DEF AnswerTrue
  <2>9. CASE Asks(c, NoRequest) /\ shown' = shown
    BY <1>1, <1>2, <2>1, <2>9, RequestKeepsView
  <2>10. QED
    BY <1>2, <2>1, <2>3, <2>4, <2>8, <2>9, AnswerKeepsView
<1>7. ASSUME NEW k, Detail(c, k) PROVE ViewInv'
  <2>1. \/ Answers(c, [code |-> 400]) \/ Answers(c, [code |-> 404])
        \/ \E task : Answers(c, [code |-> 200, kind |-> "detail", task |-> task])
    BY <1>7, Zenon DEF Detail
  <2>2. tasks' = tasks
    BY <1>7 DEF Detail
  <2>3. PICK answer : Answers(c, answer) /\ AnswerTrue(answer)
    <3>1. ASSUME NEW task, Answers(c, [code |-> 200, kind |-> "detail", task |-> task])
          PROVE  \E answer : Answers(c, answer) /\ AnswerTrue(answer)
      BY <3>1, OtherAnswersAreTrue
    <3>2. AnswerTrue([code |-> 400]) /\ AnswerTrue([code |-> 404])
      BY OtherAnswersAreTrue
    <3>3. CASE Answers(c, [code |-> 400])
      BY <3>2, <3>3
    <3>4. CASE Answers(c, [code |-> 404])
      BY <3>2, <3>4
    <3>5. QED
      BY <2>1, <3>1, <3>3, <3>4, Zenon
  <2>4. QED
    BY <1>2, <2>2, <2>3, AnswerKeepsView
<1>8. ASSUME NEW k, NEW action, CheckAction(c, k, action) PROVE ViewInv'
  <2> DEFINE r == [kind |-> "action", action |-> action, task |-> k]
  <2>1. \/ Asks(c, r) /\ shown' = shown
        \/ Answers(c, [code |-> 400]) \/ Answers(c, [code |-> 404]) \/ Answers(c, [code |-> 409])
    BY <1>8, Zenon DEF CheckAction
  <2>2. tasks' = tasks
    BY <1>8 DEF CheckAction
  <2>3. RequestTrue(r)
    BY DEF RequestTrue, Reading
  <2> HIDE DEF r
  <2>4. QED
    BY <1>2, <2>1, <2>2, <2>3, AnswerKeepsView, RequestKeepsView, OtherAnswersAreTrue
<1>9. ASSUME ApplyFails(c) PROVE ViewInv'
  <2>1. Answers(c, [code |-> 500]) /\ tasks' = tasks
    BY <1>9 DEF ApplyFails
  <2>2. QED
    BY <1>2, <2>1, AnswerKeepsView, OtherAnswersAreTrue
<1>10. ASSUME ReadAgain(c) PROVE ViewInv'
  <2>1. \/ \E task : Answers(c, [code |-> 202, kind |-> "task", task |-> task])
        \/ Answers(c, [code |-> 202, kind |-> "queued"])
    BY <1>10, Zenon DEF ReadAgain
  <2>2. tasks' = tasks
    BY <1>10 DEF ReadAgain
  <2>3. PICK answer : Answers(c, answer) /\ AnswerTrue(answer)
    <3>1. ASSUME NEW task, Answers(c, [code |-> 202, kind |-> "task", task |-> task])
          PROVE  \E answer : Answers(c, answer) /\ AnswerTrue(answer)
      BY <3>1, OtherAnswersAreTrue
    <3>2. QED
      BY <2>1, <3>1, OtherAnswersAreTrue
  <2>4. QED
    BY <1>2, <2>2, <2>3, AnswerKeepsView
<1>11. ASSUME ApplyAction(c) PROVE ViewInv'
  <2> DEFINE k == asks[c].task
             r == [kind |-> "again", task |-> k]
  <2>1. k \in Tasks
    BY <1>11 DEF ApplyAction, TasksInv, RowsSeen, RequestSeen
  <2>2. CASE Answers(c, [code |-> 409]) /\ UNCHANGED tasks
    BY <1>2, <2>2, AnswerKeepsView, OtherAnswersAreTrue
  <2>3. CASE (Becomes(k, Cancelled(k)) \/ Becomes(k, Retried(k))) /\ Asks(c, r) /\ shown' = shown
    <3>1. PICK row : tasks' = [tasks EXCEPT ![k] = row]
      BY <2>3 DEF Becomes
    <3>2. RequestTrue(r)
      BY DEF RequestTrue, Reading
    <3> HIDE DEF k, r
    <3>3. IsFiniteSet(Rows')
      BY <2>1, <3>1, RowsStayFinite DEF ViewInv
    <3>4. QED
      BY <2>3, <3>2, <3>3, RequestKeepsView
  <2>4. QED
    BY <1>11, <2>2, <2>3 DEF ApplyAction
<1>12. QED
  BY <1>3, <1>4, <1>5, <1>6, <1>7, <1>8, <1>9, <1>10, <1>11, LoadingKeepsView

\* Whatever jobs, workers and administrators do meanwhile, what a list shows is of the kind that was asked for,
\* newest first and each task once, no row of a table that fits the limit is missing that the filter wants, and
\* the counts of a summary add up over the types and to no more than its total.
THEOREM TasksAreAsShown == TasksSpec => []TasksAreShown
<1>1. TasksInit => TasksInv /\ ViewInv
  <2>1. TasksInit => TasksInv
    BY TaskAssumption DEF TasksInit, TasksInv, RowsSeen, RequestSeen, NoRequest, Codes
  <2>2. ASSUME TasksInit PROVE ViewInv
    <3>1. Rows = {}
      BY <2>2 DEF TasksInit, Rows
    <3>2. IsFiniteSet(Rows)
      BY <3>1, FS_EmptySet
    <3>3. \A c \in TaskClients : RequestTrue(asks[c])
      BY <2>2 DEF TasksInit, RequestTrue, Reading, NoRequest
    <3>4. \A c \in TaskClients : AnswerTrue(shown[c])
      BY <2>2 DEF TasksInit, AnswerTrue
    <3>5. QED
      BY <3>2, <3>3, <3>4 DEF ViewInv
  <2>3. QED
    BY <2>1, <2>2
<1>2. ASSUME TasksInv, ViewInv, [TasksNext]_taskVars PROVE ViewInv'
  <2> DEFINE RequestsOf(c) ==
        \/ \E filter \in TaskFilters : \E kind : AskForTasks(c, kind, filter)
        \/ LoadTasks(c) \/ StatementFails(c) \/ List(c) \/ Summary(c)
        \/ (\E k : Detail(c, k) \/ \E action : CheckAction(c, k, action))
        \/ ApplyAction(c) \/ ApplyFails(c) \/ ReadAgain(c)
  <2>1. CASE JobsMove
    BY <1>2, <2>1, JobsKeepView
  <2>2. CASE UNCHANGED taskVars
    BY <1>2, <2>2 DEF taskVars, ViewInv, Rows
  <2>3. ASSUME NEW c \in TaskClients, RequestsOf(c) PROVE ViewInv'
    BY <1>2, <2>3, RequestsKeepView
  <2>4. TasksNext => JobsMove \/ \E c \in TaskClients : RequestsOf(c)
    BY DEF TasksNext
  <2> HIDE DEF RequestsOf
  <2>5. QED
    BY <1>2, <2>1, <2>2, <2>3, <2>4
<1>3. ViewInv => \A c \in TaskClients : shown[c].code = 200 =>
         CASE shown[c].kind = "list" -> ListIsTrue(shown[c])
           [] shown[c].kind = "summary" -> ListIsTrue(shown[c]) /\ SummaryAddsUp(shown[c])
           [] OTHER -> TRUE
  BY DEF ViewInv, AnswerTrue
<1>4. TasksInv => TasksTypeOK /\ RowsTellTime
  BY RowsAreTimed
<1>5. TasksInv /\ ViewInv => TasksAreShown
  BY <1>3, <1>4 DEF TasksAreShown
<1>6. TasksInv /\ ViewInv /\ [TasksNext]_taskVars => (TasksInv /\ ViewInv)'
  BY <1>2, TasksStep
<1>7. QED
  BY <1>1, <1>5, <1>6, PTL DEF TasksSpec

-----------------------------------------------------------------------------
(* Projects and search                                                     *)

\* What a page of ids in descending order holds: each id has as many above it as its place says.
LEMMA PlacesAreNumbers ==
  ASSUME NEW ids, ids \subseteq Int, IsFiniteSet(ids)
  PROVE  /\ \A i \in ids : Cardinality({j \in ids : j > i}) \in 0..(Cardinality(ids) - 1)
         /\ \A i, k \in ids : i < k => Cardinality({j \in ids : j > k}) < Cardinality({j \in ids : j > i})
<1>1. ASSUME NEW i \in ids
      PROVE  /\ IsFiniteSet({j \in ids : j > i}) /\ Cardinality({j \in ids : j > i}) \in Nat
             /\ Cardinality({j \in ids : j > i}) < Cardinality(ids)
  <2> DEFINE above == {j \in ids : j > i}
  <2>1. IsFiniteSet(ids \ {i}) /\ Cardinality(ids \ {i}) = Cardinality(ids) - 1
    BY FS_RemoveElement
  <2>2. above \subseteq ids \ {i}
    OBVIOUS
  <2> HIDE DEF above
  <2>3. IsFiniteSet(above) /\ Cardinality(above) <= Cardinality(ids \ {i})
    BY <2>1, <2>2, FS_Subset
  <2>4. Cardinality(above) \in Nat /\ Cardinality(ids) \in Nat
    BY <2>3, FS_CardinalityType
  <2>5. Cardinality(above) < Cardinality(ids)
    BY <2>1, <2>3, <2>4
  <2>6. QED
    BY <2>3, <2>4, <2>5 DEF above
<1>2. ASSUME NEW i \in ids, NEW k \in ids, i < k
      PROVE  Cardinality({j \in ids : j > k}) < Cardinality({j \in ids : j > i})
  <2> DEFINE above == {j \in ids : j > i}
             over == {j \in ids : j > k}
  <2>1. over \subseteq above \ {k} /\ k \in above
    <3>1. i \in Int /\ k \in Int /\ k \in above
      BY <1>2
    <3>2. ASSUME NEW j \in over PROVE j \in above \ {k}
      <4>1. j \in ids /\ j \in Int /\ j > k
        OBVIOUS
      <4>2. j > i /\ j # k
        BY <1>2, <3>1, <4>1
      <4>3. QED
        BY <4>1, <4>2
    <3>3. QED
      BY <3>1, <3>2
  <2>2. IsFiniteSet(above) /\ Cardinality(above) \in Nat /\ Cardinality(over) \in Nat
    BY <1>1
  <2> HIDE DEF above, over
  <2>3. IsFiniteSet(above \ {k}) /\ Cardinality(above \ {k}) = Cardinality(above) - 1
    BY <2>1, <2>2, FS_RemoveElement
  <2>4. Cardinality(over) <= Cardinality(above \ {k})
    BY <2>1, <2>3, FS_Subset
  <2>5. QED
    BY <2>2, <2>3, <2>4 DEF above, over
<1>3. Cardinality(ids) \in Nat
  BY FS_CardinalityType
<1>4. ASSUME NEW i \in ids PROVE Cardinality({j \in ids : j > i}) \in 0..(Cardinality(ids) - 1)
  <2> DEFINE c == Cardinality({j \in ids : j > i})
  <2>1. c \in Nat /\ c < Cardinality(ids)
    BY <1>1
  <2> HIDE DEF c
  <2>2. c \in 0..(Cardinality(ids) - 1)
    BY <2>1, <1>3
  <2>3. QED
    BY <2>2 DEF c
<1>5. QED
  BY <1>2, <1>4

\* The two-sided limit of a page, as a number.
LEMMA SliceIsNumber ==
  ASSUME NEW n \in Nat, NEW l \in Nat, NEW o \in Nat
  PROVE  Max({0, Min({l, n - o})}) = IF n <= o THEN 0 ELSE IF n - o <= l THEN n - o ELSE l
<1> DEFINE m == IF n - o <= l THEN n - o ELSE l
<1>1. Min({l, n - o}) = m
  <2>1. m \in {l, n - o} /\ \A y \in {l, n - o} : m <= y
    OBVIOUS
  <2>2. \A x \in {l, n - o} : (\A y \in {l, n - o} : x <= y) => x = m
    OBVIOUS
  <2> HIDE DEF m
  <2>3. QED
    BY <2>1, <2>2 DEF Min
<1>2. m \in Int
  OBVIOUS
<1> DEFINE x == IF m <= 0 THEN 0 ELSE m
<1>3. x = IF n <= o THEN 0 ELSE IF n - o <= l THEN n - o ELSE l
  OBVIOUS
<1> HIDE DEF m
<1>4. Max({0, m}) = x
  <2>1. x \in {0, m} /\ \A y \in {0, m} : x >= y
    BY <1>2
  <2>2. \A z \in {0, m} : (\A y \in {0, m} : z >= y) => z = x
    BY <1>2
  <2> HIDE DEF x
  <2>3. QED
    BY <2>1, <2>2 DEF Max
<1>5. QED
  BY <1>1, <1>3, <1>4

\* A page has as many ids as are left from its offset, up to its limit.
LEMMA PageSize ==
  ASSUME NEW r, r.limit \in Nat \ {0}, r.offset \in Nat, NEW ids, ids \subseteq Int, IsFiniteSet(ids)
  PROVE  /\ PageOf(r, ids) \subseteq ids /\ IsFiniteSet(PageOf(r, ids))
         /\ Cardinality(PageOf(r, ids)) = Max({0, Min({r.limit, Cardinality(ids) - r.offset})})
         /\ Cardinality(PageOf(r, ids)) <= r.limit
<1> DEFINE n == Cardinality(ids)
           place == [i \in ids |-> Cardinality({j \in ids : j > i})]
           page == PageOf(r, ids)
           l == r.limit
           o == r.offset
           last == IF n - o <= l THEN n - 1 ELSE o + l - 1
           cut == [i \in page |-> place[i]]
<1>1. n \in Nat /\ l \in Nat \ {0} /\ o \in Nat
  BY FS_CardinalityType
<1>2. place \in [ids -> 0..(n - 1)] /\ \A i, k \in ids : i < k => place[k] < place[i]
  BY PlacesAreNumbers
<1>3. page = {i \in ids : place[i] \in o..(o + l - 1)}
  BY DEF PageOf
<1> HIDE DEF n, place, page, l, o
<1>4. place \in Injection(ids, 0..(n - 1))
  <2>1. ASSUME NEW i \in ids, NEW k \in ids, place[i] = place[k] PROVE i = k
    <3>1. place[i] \in 0..(n - 1) /\ place[k] \in 0..(n - 1)
      BY <1>2
    <3>2. ~(i < k) /\ ~(k < i)
      BY <1>1, <1>2, <2>1, <3>1
    <3>3. QED
      BY <3>2
  <2>2. QED
    BY <1>2, <2>1 DEF Injection, IsInjective
<1>5. place \in Surjection(ids, 0..(n - 1))
  <2>1. IsFiniteSet(0..(n - 1)) /\ Cardinality(0..(n - 1)) = n
    <3>1. 0 \in Int /\ n - 1 \in Int /\ (0 > n - 1 <=> n = 0) /\ (n - 1) - 0 + 1 = n
      BY <1>1
    <3>2. QED
      BY <3>1, FS_Interval
  <2>2. QED
    BY <1>4, <2>1, FS_Injection DEF n
<1>6. page \subseteq ids /\ IsFiniteSet(page)
  <2>1. page \subseteq ids
    BY <1>3
  <2>2. QED
    BY <2>1, FS_Subset
<1>7. cut \in Bijection(page, o..last)
  <2>1. ASSUME NEW i \in page PROVE cut[i] \in o..last
    <3>1. cut[i] = place[i] /\ place[i] \in o..(o + l - 1) /\ place[i] \in 0..(n - 1)
      BY <1>2, <1>3
    <3>2. QED
      BY <1>1, <3>1
  <2>2. \A i, k \in page : cut[i] = cut[k] => i = k
    BY <1>4, <1>6 DEF Injection, IsInjective
  <2>3. ASSUME NEW p \in o..last PROVE \E i \in page : cut[i] = p
    <3>1. p \in 0..(n - 1) /\ p \in o..(o + l - 1)
      BY <1>1
    <3>2. PICK i \in ids : place[i] = p
      BY <1>5, <3>1 DEF Surjection
    <3>3. QED
      BY <1>3, <3>1, <3>2
  <2> HIDE DEF cut, last
  <2>4. DOMAIN cut = page /\ cut = [i \in page |-> cut[i]]
    BY DEF cut
  <2>5. cut \in [page -> o..last]
    BY <2>1, <2>4
  <2>6. QED
    BY <2>2, <2>3, <2>4, <2>5 DEF Bijection, Injection, Surjection, IsInjective
<1>8. Cardinality(page) = Cardinality(o..last)
  <2> HIDE DEF cut, last
  <2>1. QED
    BY <1>6, <1>7, FS_Bijection DEF ExistsBijection
<1>9. Cardinality(page) = IF n <= o THEN 0 ELSE IF n - o <= l THEN n - o ELSE l
  <2>1. last \in Int
    BY <1>1
  <2>2. o \in Int
    BY <1>1
  <2>3. Cardinality(o..last) = IF o > last THEN 0 ELSE last - o + 1
    <3> HIDE DEF last
    <3>1. QED
      BY <2>1, <2>2, FS_Interval
  <2>4. (IF o > last THEN 0 ELSE last - o + 1) = IF n <= o THEN 0 ELSE IF n - o <= l THEN n - o ELSE l
    BY <1>1
  <2> HIDE DEF last
  <2>5. QED
    BY <1>8, <2>3, <2>4
<1>10. Cardinality(page) = Max({0, Min({l, n - o})})
  BY <1>1, <1>9, SliceIsNumber
<1>11. Cardinality(page) <= l
  BY <1>1, <1>9
<1>12. QED
  BY <1>6, <1>10, <1>11 DEF page, n, l, o

\* The greatest of some ids and the last one handed out.
LEMMA LastId ==
  ASSUME NEW n \in Nat, NEW ids, ids \subseteq 1..(n + 1)
  PROVE  /\ Max({n} \cup ids) \in n..(n + 1)
         /\ ids \subseteq 1..Max({n} \cup ids)
<1> DEFINE m == IF n + 1 \in ids THEN n + 1 ELSE n
           S == {n} \cup ids
<1>1. m \in S /\ \A y \in S : m >= y
  OBVIOUS
<1>2. \A x \in S : (\A y \in S : x >= y) => x = m
  OBVIOUS
<1>3. m \in n..(n + 1) /\ ids \subseteq 1..m
  OBVIOUS
<1> HIDE DEF m
<1>4. Max(S) = m
  <2> HIDE DEF S
  <2>1. QED
    BY <1>1, <1>2 DEF Max
<1>5. QED
  BY <1>3, <1>4

ProjectRows == [key : ProjectKeys, name : Names, branch : MainNames \cup {""}]
Changes == [name : Names] \cup [branch : MainNames]
ReportedIssues == UNION {{a[i] : i \in DOMAIN a} : a \in Analyses}
IssueRows == [scan : Nat, project : Nat, rule : {x.rule : x \in ReportedIssues},
              severity : {x.severity : x \in ReportedIssues}, status : {"open", "closed"}]
AnalysedRows == [project : Nat, job : {"accepted", "running", "completed"}]
AskedFields == [name : Names \cup {""}, branch : MainNames \cup {""}, there : BOOLEAN]

\* Each project has one row, with an id that was handed out.
ProjectsInv ==
    /\ handedOut \in [projects : Nat, scans : Nat, issues : Nat]
    /\ DOMAIN listed \subseteq 1..handedOut.projects
    /\ \A p \in DOMAIN listed : listed[p] \in ProjectRows
    /\ \A p, q \in DOMAIN listed : listed[p].key = listed[q].key => p = q

\* Scans belong to projects, issues to scans, and what an issue is has been noted.
RowsInv ==
    /\ DOMAIN analysed \subseteq 1..handedOut.scans
    /\ \A s \in DOMAIN analysed : analysed[s] \in AnalysedRows /\ analysed[s].project \in DOMAIN listed
    /\ DOMAIN stored \subseteq 1..handedOut.issues
    /\ \A i \in DOMAIN stored :
          stored[i] \in IssueRows /\ stored[i].scan \in DOMAIN analysed /\ <<i, stored[i]>> \in everStored
    /\ \A e \in everStored : e[1] \in 1..handedOut.issues

\* The page in the indexer's hands is complete, and a completed scan has its documents.
IndexInv ==
    /\ \A i \in DOMAIN documents : <<i, documents[i]>> \in everStored
    /\ \A i \in DOMAIN indexing.rows : <<i, indexing.rows[i]>> \in everStored
    /\ indexing # NoPage =>
          /\ indexing.scan \in 1..handedOut.scans
          /\ \A i \in DOMAIN stored : stored[i].scan = indexing.scan => i \in DOMAIN indexing.rows
    /\ backend = "zincsearch" =>
          \A i \in DOMAIN stored : analysed[stored[i].scan].job = "completed" => i \in DOMAIN documents

\* An update that nobody overtook holds a row as it is; a deletion, an id with its key.
IsUpdate(x) ==
    /\ x \in [pc : {"update"}, project : ProjectRows, change : Changes, stale : BOOLEAN]
    /\ ~x.stale => \E p \in DOMAIN listed : listed[p] = x.project
IsDelete(x) ==
    /\ x \in [pc : {"delete"}, id : 1..handedOut.projects, key : ProjectKeys]
    /\ x.id \in DOMAIN listed => listed[x.id].key = x.key
EditsInv ==
    /\ asked \in [ProjectKeys -> AskedFields]
    /\ DOMAIN editor = Editors /\ \A e \in Editors : editor[e] = Idle \/ IsUpdate(editor[e]) \/ IsDelete(editor[e])
    /\ EditsAreKept

LEMMA UpsertedRow ==
  ASSUME ProjectsInv, NEW project \in ProjectRows, listed' = Upsert(project)
  PROVE  \E id \in 1..(handedOut.projects + 1) :
            /\ id \in DOMAIN listed => listed[id].key = project.key
            /\ id \in DOMAIN listed \/ id = handedOut.projects + 1
            /\ DOMAIN listed' = DOMAIN listed \cup {id} /\ listed'[id] = project
            /\ \A p \in DOMAIN listed \ {id} : listed'[p] = listed[p] /\ listed[p].key # project.key
<1> DEFINE id == IF IdsOf(project.key) # {} THEN GetByKey(project.key) ELSE handedOut.projects + 1
<1>1. CASE IdsOf(project.key) # {}
  <2>1. GetByKey(project.key) \in IdsOf(project.key)
    BY <1>1 DEF GetByKey
  <2>2. id \in DOMAIN listed /\ listed[id].key = project.key
    BY <1>1, <2>1 DEF IdsOf
  <2> HIDE DEF id
  <2>3. listed' = [p \in DOMAIN listed \cup {id} |-> IF p = id THEN project ELSE listed[p]]
    BY DEF Upsert, id
  <2>4. \A p \in DOMAIN listed \ {id} : listed[p].key # project.key
    BY <2>2 DEF ProjectsInv
  <2>5. id \in 1..(handedOut.projects + 1)
    <3>1. id \in 1..handedOut.projects /\ handedOut.projects \in Nat
      BY <2>2 DEF ProjectsInv
    <3>2. QED
      BY <3>1
  <2>6. QED
    BY <2>2, <2>3, <2>4, <2>5
<1>2. CASE IdsOf(project.key) = {}
  <2>1. id = handedOut.projects + 1 /\ handedOut.projects \in Nat
    BY <1>2 DEF ProjectsInv
  <2> HIDE DEF id
  <2>2. listed' = [p \in DOMAIN listed \cup {id} |-> IF p = id THEN project ELSE listed[p]]
    BY DEF Upsert, id
  <2>3. \A p \in DOMAIN listed : listed[p].key # project.key
    BY <1>2 DEF IdsOf
  <2>4. id \notin DOMAIN listed
    BY <2>1 DEF ProjectsInv
  <2>5. QED
    BY <2>1, <2>2, <2>3, <2>4
<1>3. QED
  BY <1>1, <1>2

LEMMA IdsHandedOut ==
  ASSUME ProjectsInv, NEW project \in ProjectRows, listed' = Upsert(project)
  PROVE  /\ IdAfterUpsert \in [projects : handedOut.projects..(handedOut.projects + 1), scans : Nat, issues : Nat]
         /\ IdAfterUpsert.scans = handedOut.scans /\ IdAfterUpsert.issues = handedOut.issues
         /\ DOMAIN listed' \subseteq 1..IdAfterUpsert.projects
<1>1. PICK id \in 1..(handedOut.projects + 1) : DOMAIN listed' = DOMAIN listed \cup {id}
  BY UpsertedRow
<1>2. handedOut.projects \in Nat /\ DOMAIN listed \subseteq 1..handedOut.projects
  BY DEF ProjectsInv
<1>3. DOMAIN listed' \subseteq 1..(handedOut.projects + 1)
  BY <1>1, <1>2
<1> DEFINE n == handedOut.projects
           ids == DOMAIN listed'
           m == Max({n} \cup ids)
<1>4. m \in n..(n + 1) /\ ids \subseteq 1..m
  <2> HIDE DEF n, ids
  <2>1. n \in Nat /\ ids \subseteq 1..(n + 1)
    BY <1>2, <1>3 DEF n, ids
  <2>2. QED
    BY <2>1, LastId
<1>5. IdAfterUpsert = [handedOut EXCEPT !.projects = m]
  BY DEF IdAfterUpsert
<1> HIDE DEF m
<1>6. handedOut \in [projects : Nat, scans : Nat, issues : Nat]
  BY DEF ProjectsInv
<1>7. IdAfterUpsert.projects = m /\ IdAfterUpsert.scans = handedOut.scans /\ IdAfterUpsert.issues = handedOut.issues
  BY <1>5, <1>6
<1>8. IdAfterUpsert \in [projects : n..(n + 1), scans : Nat, issues : Nat]
  <2> HIDE DEF n
  <2>1. QED
    BY <1>4, <1>5, <1>6
<1>9. QED
  BY <1>4, <1>7, <1>8

\* Writing a project keeps the table of projects.
LEMMA ProjectsWritten ==
  ASSUME ProjectsInv, NEW project \in ProjectRows, listed' = Upsert(project), handedOut' \in [projects : Nat, scans : Nat, issues : Nat],
         handedOut'.projects = IdAfterUpsert.projects
  PROVE  ProjectsInv'
<1>1. PICK id \in 1..(handedOut.projects + 1) :
            /\ DOMAIN listed' = DOMAIN listed \cup {id} /\ listed'[id] = project
            /\ \A p \in DOMAIN listed \ {id} : listed'[p] = listed[p] /\ listed[p].key # project.key
  BY UpsertedRow
<1>2. DOMAIN listed' \subseteq 1..handedOut'.projects
  BY IdsHandedOut
<1>3. \A p \in DOMAIN listed' : listed'[p] \in ProjectRows
  BY <1>1 DEF ProjectsInv
<1>4. \A p, q \in DOMAIN listed' : listed'[p].key = listed'[q].key => p = q
  BY <1>1 DEF ProjectsInv
<1>5. QED
  BY <1>2, <1>3, <1>4 DEF ProjectsInv

\* What holds of an editor survives a write to the project with this key.
LEMMA EditorRests ==
  ASSUME NEW key, NEW x, x = Idle \/ IsUpdate(x) \/ IsDelete(x),
         handedOut.projects \in Nat, handedOut'.projects \in Nat, handedOut.projects <= handedOut'.projects,
         \A p \in DOMAIN listed : listed[p].key # key => p \in DOMAIN listed' /\ listed'[p] = listed[p],
         \A p \in DOMAIN listed' : p \in 1..handedOut.projects => p \in DOMAIN listed /\ listed'[p].key = listed[p].key,
         NEW y, y = IF x.pc = "update" /\ x.project.key = key THEN [x EXCEPT !.stale = TRUE] ELSE x
  PROVE  y = Idle \/ IsUpdate(y)' \/ IsDelete(y)'
<1>1. CASE x = Idle
  <2>1. y = x
    BY <1>1 DEF Idle
  <2>2. QED
    BY <1>1, <2>1
<1>2. CASE IsUpdate(x)
  <2>1. x \in [pc : {"update"}, project : ProjectRows, change : Changes, stale : BOOLEAN]
    BY <1>2 DEF IsUpdate
  <2>2. CASE x.project.key = key
    <3>1. y = [x EXCEPT !.stale = TRUE]
      BY <2>1, <2>2
    <3>2. y \in [pc : {"update"}, project : ProjectRows, change : Changes, stale : BOOLEAN] /\ y.stale
      BY <2>1, <3>1
    <3>3. QED
      BY <3>2 DEF IsUpdate
  <2>3. CASE x.project.key # key
    <3>1. y = x
      BY <2>3
    <3>2. ASSUME ~x.stale PROVE \E p \in DOMAIN listed' : listed'[p] = x.project
      <4>1. PICK p \in DOMAIN listed : listed[p] = x.project
        BY <1>2, <3>2 DEF IsUpdate
      <4>2. QED
        BY <2>3, <4>1
    <3>3. QED
      BY <2>1, <3>1, <3>2 DEF IsUpdate
  <2>4. QED
    BY <2>2, <2>3
<1>3. CASE IsDelete(x)
  <2>1. x \in [pc : {"delete"}, id : 1..handedOut.projects, key : ProjectKeys]
    BY <1>3 DEF IsDelete
  <2>2. y = x
    BY <2>1
  <2>3. x.id \in DOMAIN listed' => listed'[x.id].key = x.key
    BY <1>3, <2>1 DEF IsDelete
  <2>4. x.id \in 1..handedOut'.projects
    BY <2>1
  <2>5. x \in [pc : {"delete"}, id : 1..handedOut'.projects, key : ProjectKeys]
    BY <2>1, <2>4
  <2>6. QED
    BY <2>2, <2>3, <2>5 DEF IsDelete
<1>4. QED
  BY <1>1, <1>2, <1>3

\* A written row leaves the rows of other keys, and ids keep their keys.
LEMMA RowsOfOthers ==
  ASSUME ProjectsInv, NEW project \in ProjectRows, listed' = Upsert(project)
  PROVE  /\ \A p \in DOMAIN listed : listed[p].key # project.key => p \in DOMAIN listed' /\ listed'[p] = listed[p]
         /\ \A p \in DOMAIN listed' : p \in 1..handedOut.projects => p \in DOMAIN listed /\ listed'[p].key = listed[p].key
         /\ \A k : k # project.key => IdsOf(k)' = IdsOf(k)
         /\ IdsOf(project.key)' # {} /\ \A p \in IdsOf(project.key)' : listed'[p] = project
         /\ DOMAIN listed \subseteq DOMAIN listed'
<1>1. PICK id \in 1..(handedOut.projects + 1) :
            /\ id \in DOMAIN listed => listed[id].key = project.key
            /\ id \in DOMAIN listed \/ id = handedOut.projects + 1
            /\ DOMAIN listed' = DOMAIN listed \cup {id} /\ listed'[id] = project
            /\ \A p \in DOMAIN listed \ {id} : listed'[p] = listed[p] /\ listed[p].key # project.key
  BY UpsertedRow
<1>2. handedOut.projects \in Nat
  BY DEF ProjectsInv
<1>3. \A p \in DOMAIN listed : listed[p].key # project.key => p \in DOMAIN listed' /\ listed'[p] = listed[p]
  BY <1>1
<1>4. \A p \in DOMAIN listed' : p \in 1..handedOut.projects => p \in DOMAIN listed /\ listed'[p].key = listed[p].key
  <2>1. handedOut.projects + 1 \notin 1..handedOut.projects
    BY <1>2
  <2>2. QED
    BY <1>1, <2>1
<1>5. \A k : k # project.key => IdsOf(k)' = IdsOf(k)
  BY <1>1 DEF IdsOf
<1>6. id \in IdsOf(project.key)' /\ \A p \in IdsOf(project.key)' : p = id
  BY <1>1 DEF IdsOf
<1>7. QED
  BY <1>1, <1>3, <1>4, <1>5, <1>6

LEMMA EditsOfWhole ==
  ASSUME ProjectsInv, EditsInv, NEW project \in ProjectRows, WrittenWhole(project),
         handedOut'.projects \in Nat, handedOut.projects <= handedOut'.projects
  PROVE  EditsInv'
<1> DEFINE key == project.key
<1>1. /\ listed' = Upsert(project)
      /\ asked' = [asked EXCEPT ![key] = [name |-> project.name, branch |-> project.branch, there |-> TRUE]]
      /\ contested' = contested \ {key} /\ editor' = Overtaken(key)
  BY DEF WrittenWhole
<1>2. key \in ProjectKeys /\ project.name \in Names /\ project.branch \in MainNames \cup {""}
  BY DEF ProjectRows
<1>3. asked' \in [ProjectKeys -> AskedFields]
  <2>1. [name |-> project.name, branch |-> project.branch, there |-> TRUE] \in AskedFields
    BY <1>2 DEF AskedFields
  <2>2. QED
    BY <1>1, <2>1 DEF EditsInv
<1>4. DOMAIN editor' = Editors
  BY <1>1 DEF Overtaken
<1>5. ASSUME NEW e \in Editors PROVE (editor[e] = Idle \/ IsUpdate(editor[e]) \/ IsDelete(editor[e]))'
  <2> DEFINE x == editor[e]
  <2>0. PICK y : y = editor'[e]
    OBVIOUS
  <2>1. x = Idle \/ IsUpdate(x) \/ IsDelete(x)
    BY DEF EditsInv
  <2>2. y = IF x.pc = "update" /\ x.project.key = key THEN [x EXCEPT !.stale = TRUE] ELSE x
    BY <1>1, <2>0 DEF Overtaken
  <2> HIDE DEF x, key
  <2>3. /\ \A p \in DOMAIN listed : listed[p].key # key => p \in DOMAIN listed' /\ listed'[p] = listed[p]
        /\ \A p \in DOMAIN listed' : p \in 1..handedOut.projects => p \in DOMAIN listed /\ listed'[p].key = listed[p].key
    BY <1>1, RowsOfOthers DEF key
  <2>4. handedOut.projects \in Nat
    BY DEF ProjectsInv
  <2>5. y = Idle \/ IsUpdate(y)' \/ IsDelete(y)'
    BY <2>1, <2>2, <2>3, <2>4, EditorRests
  <2>6. QED
    BY <2>0, <2>5 DEF IsUpdate, IsDelete
<1>6. EditsAreKept'
  <2>1. ASSUME NEW k \in ProjectKeys, k \notin contested'
        PROVE  /\ (IdsOf(k)' # {}) = asked'[k].there
               /\ \A p \in IdsOf(k)' : listed'[p].name = asked'[k].name /\ listed'[p].branch = asked'[k].branch
    <3>1. CASE k = key
      <4>1. asked'[k].name = project.name /\ asked'[k].branch = project.branch /\ asked'[k].there = TRUE
        BY <1>1, <1>2, <3>1 DEF EditsInv
      <4>2. IdsOf(k)' # {} /\ \A p \in IdsOf(k)' : listed'[p] = project
        BY <1>1, <3>1, RowsOfOthers
      <4>3. QED
        BY <4>1, <4>2
    <3>2. CASE k # key
      <4>1. asked'[k] = asked[k] /\ k \notin contested
        BY <1>1, <2>1, <3>2 DEF EditsInv
      <4>2. IdsOf(k)' = IdsOf(k) /\ \A p \in IdsOf(k) : listed'[p] = listed[p]
        <5>1. IdsOf(k)' = IdsOf(k)
          BY <1>1, <3>2, RowsOfOthers
        <5>2. \A p \in IdsOf(k) : p \in DOMAIN listed /\ listed[p].key # key
          BY <3>2 DEF IdsOf
        <5>3. QED
          BY <1>1, <5>1, <5>2, RowsOfOthers
      <4>3. /\ (IdsOf(k) # {}) = asked[k].there
            /\ \A p \in IdsOf(k) : listed[p].name = asked[k].name /\ listed[p].branch = asked[k].branch
        BY <4>1 DEF EditsInv, EditsAreKept
      <4>4. QED
        BY <4>1, <4>2, <4>3
    <3>3. QED
      BY <3>1, <3>2
  <2>2. QED
    BY <2>1 DEF EditsAreKept
<1>7. QED
  BY <1>3, <1>4, <1>5, <1>6 DEF EditsInv

\* A row with the fields of a request is a row, of the same project.
LEMMA ChangedRow ==
  ASSUME NEW project \in ProjectRows, NEW change \in Changes
  PROVE  /\ Changed(project, change) \in ProjectRows /\ Changed(project, change).key = project.key
         /\ Changed(project, change).name = IF "name" \in DOMAIN change THEN change.name ELSE project.name
         /\ Changed(project, change).branch = IF "branch" \in DOMAIN change THEN change.branch ELSE project.branch
<1>1. "name" \in DOMAIN change => change.name \in Names
  BY DEF Changes
<1>2. "branch" \in DOMAIN change => change.branch \in MainNames
  BY DEF Changes
<1> DEFINE n == IF "name" \in DOMAIN change THEN change.name ELSE project.name
           b == IF "branch" \in DOMAIN change THEN change.branch ELSE project.branch
<1>3. n \in Names /\ b \in MainNames \cup {""}
  BY <1>1, <1>2 DEF ProjectRows
<1>4. Changed(project, change) = [project EXCEPT !.name = n, !.branch = b]
  BY DEF Changed, ProjectRows
<1> HIDE DEF n, b
<1>5. Changed(project, change) \in ProjectRows /\ Changed(project, change).key = project.key
      /\ Changed(project, change).name = n /\ Changed(project, change).branch = b
  BY <1>3, <1>4 DEF ProjectRows
<1>6. QED
  BY <1>5 DEF n, b

LEMMA EditsOfUpdate ==
  ASSUME ProjectsInv, EditsInv, NEW e \in Editors, FinishUpdate(e),
         handedOut'.projects \in Nat, handedOut.projects <= handedOut'.projects
  PROVE  EditsInv'
<1> DEFINE project == editor[e].project
           key == project.key
           change == editor[e].change
           row == Changed(project, change)
<1>1. /\ listed' = Upsert(row)
      /\ asked' = [asked EXCEPT ![key] =
                      [name |-> IF "name" \in DOMAIN change THEN change.name ELSE @.name,
                       branch |-> IF "branch" \in DOMAIN change THEN change.branch ELSE @.branch, there |-> TRUE]]
      /\ contested' = IF editor[e].stale THEN contested \cup {key} ELSE contested
      /\ editor' = [Overtaken(key) EXCEPT ![e] = Idle]
  BY DEF FinishUpdate
<1>2. IsUpdate(editor[e])
  BY DEF FinishUpdate, EditsInv, Idle, IsDelete
<1>3. project \in ProjectRows /\ change \in Changes
  BY <1>2 DEF IsUpdate
<1>4. row \in ProjectRows /\ row.key = key
      /\ row.name = (IF "name" \in DOMAIN change THEN change.name ELSE project.name)
      /\ row.branch = (IF "branch" \in DOMAIN change THEN change.branch ELSE project.branch)
  BY <1>3, ChangedRow
<1>5. key \in ProjectKeys
  BY <1>3 DEF ProjectRows
<1> DEFINE a == [name |-> IF "name" \in DOMAIN change THEN change.name ELSE asked[key].name,
                 branch |-> IF "branch" \in DOMAIN change THEN change.branch ELSE asked[key].branch, there |-> TRUE]
<1>6. a \in AskedFields /\ asked' = [asked EXCEPT ![key] = a]
  <2>1. asked[key] \in AskedFields
    BY <1>5 DEF EditsInv
  <2>2. "name" \in DOMAIN change => change.name \in Names
    BY <1>3 DEF Changes
  <2>3. "branch" \in DOMAIN change => change.branch \in MainNames
    BY <1>3 DEF Changes
  <2>4. a.name \in Names \cup {""} /\ a.branch \in MainNames \cup {""}
    BY <2>1, <2>2, <2>3 DEF AskedFields
  <2>5. a \in AskedFields
    BY <2>4 DEF AskedFields
  <2>6. QED
    BY <1>1, <2>5
<1>7. asked' \in [ProjectKeys -> AskedFields] /\ asked'[key] = a /\ \A k \in ProjectKeys : k # key => asked'[k] = asked[k]
  <2> HIDE DEF a
  <2>1. QED
    BY <1>5, <1>6 DEF EditsInv
<1>8. DOMAIN editor' = Editors
  BY <1>1 DEF Overtaken
<1>9. ASSUME NEW f \in Editors PROVE (editor[f] = Idle \/ IsUpdate(editor[f]) \/ IsDelete(editor[f]))'
  <2>1. CASE f = e
    BY <1>1, <2>1 DEF Overtaken
  <2>2. CASE f # e
    <3> DEFINE x == editor[f]
    <3>0. PICK y : y = editor'[f]
      OBVIOUS
    <3>1. x = Idle \/ IsUpdate(x) \/ IsDelete(x)
      BY DEF EditsInv
    <3>2. y = IF x.pc = "update" /\ x.project.key = key THEN [x EXCEPT !.stale = TRUE] ELSE x
      BY <1>1, <2>2, <3>0 DEF Overtaken
    <3> HIDE DEF x, key, row
    <3>3. /\ \A p \in DOMAIN listed : listed[p].key # key => p \in DOMAIN listed' /\ listed'[p] = listed[p]
          /\ \A p \in DOMAIN listed' : p \in 1..handedOut.projects => p \in DOMAIN listed /\ listed'[p].key = listed[p].key
      BY <1>1, <1>4, RowsOfOthers
    <3>4. handedOut.projects \in Nat
      BY DEF ProjectsInv
    <3>5. y = Idle \/ IsUpdate(y)' \/ IsDelete(y)'
      BY <3>1, <3>2, <3>3, <3>4, EditorRests
    <3>6. QED
      BY <3>0, <3>5 DEF IsUpdate, IsDelete
  <2>3. QED
    BY <2>1, <2>2
<1>10. EditsAreKept'
  <2> HIDE DEF row, a
  <2>1. ASSUME NEW k \in ProjectKeys, k \notin contested'
        PROVE  /\ (IdsOf(k)' # {}) = asked'[k].there
               /\ \A p \in IdsOf(k)' : listed'[p].name = asked'[k].name /\ listed'[p].branch = asked'[k].branch
    <3>1. CASE k = key
      <4>1. ~editor[e].stale /\ k \notin contested
        BY <1>1, <2>1, <3>1
      <4>2. PICK p \in DOMAIN listed : listed[p] = project
        BY <1>2, <4>1 DEF IsUpdate
      <4>3. p \in IdsOf(k)
        BY <3>1, <4>2 DEF IdsOf
      <4>4. project.name = asked[key].name /\ project.branch = asked[key].branch
        BY <3>1, <4>1, <4>2, <4>3 DEF EditsInv, EditsAreKept
      <4>5. IdsOf(k)' # {} /\ \A q \in IdsOf(k)' : listed'[q] = row
        BY <1>1, <1>4, <3>1, RowsOfOthers
      <4>6. asked'[k].there /\ asked'[k].name = row.name /\ asked'[k].branch = row.branch
        BY <1>4, <1>7, <3>1, <4>4 DEF a
      <4>7. asked'[k].there = TRUE
        BY <1>7, <3>1 DEF a
      <4>8. QED
        BY <4>5, <4>6, <4>7
    <3>2. CASE k # key
      <4>1. asked'[k] = asked[k] /\ k \notin contested
        BY <1>1, <1>7, <2>1, <3>2
      <4>2. IdsOf(k)' = IdsOf(k) /\ \A p \in IdsOf(k) : listed'[p] = listed[p]
        <5>1. IdsOf(k)' = IdsOf(k)
          BY <1>1, <1>4, <3>2, RowsOfOthers
        <5>2. \A p \in IdsOf(k) : p \in DOMAIN listed /\ listed[p].key # row.key
          BY <1>4, <3>2 DEF IdsOf
        <5>3. QED
          BY <1>1, <1>4, <5>1, <5>2, RowsOfOthers
      <4>3. /\ (IdsOf(k) # {}) = asked[k].there
            /\ \A p \in IdsOf(k) : listed[p].name = asked[k].name /\ listed[p].branch = asked[k].branch
        BY <4>1 DEF EditsInv, EditsAreKept
      <4>4. QED
        BY <4>1, <4>2, <4>3
    <3>3. QED
      BY <3>1, <3>2
  <2>2. QED
    BY <2>1 DEF EditsAreKept
<1>11. QED
  BY <1>7, <1>8, <1>9, <1>10 DEF EditsInv

LEMMA EditsOfDelete ==
  ASSUME ProjectsInv, EditsInv, NEW e \in Editors, FinishDelete(e)
  PROVE  EditsInv'
<1> DEFINE id == editor[e].id
           key == editor[e].key
<1>1. listed' = Without(listed, {id}) /\ handedOut' = handedOut /\ editor[e].pc = "delete"
  BY DEF FinishDelete
<1>2. DOMAIN listed' = DOMAIN listed \ {id} /\ \A p \in DOMAIN listed \ {id} : listed'[p] = listed[p]
  BY <1>1 DEF Without
<1>3. IsDelete(editor[e])
  BY <1>1 DEF EditsInv, Idle, IsUpdate
<1>4. id \in 1..handedOut.projects /\ key \in ProjectKeys /\ (id \in DOMAIN listed => listed[id].key = key)
  BY <1>3 DEF IsDelete
<1>5. handedOut.projects \in Nat /\ handedOut'.projects \in Nat /\ handedOut.projects <= handedOut'.projects
  BY <1>1 DEF ProjectsInv
<1>6. /\ \A p \in DOMAIN listed : listed[p].key # key => p \in DOMAIN listed' /\ listed'[p] = listed[p]
      /\ \A p \in DOMAIN listed' : p \in 1..handedOut.projects => p \in DOMAIN listed /\ listed'[p].key = listed[p].key
  BY <1>2, <1>4
<1>7. CASE id \in DOMAIN listed
  <2>1. /\ asked' = [asked EXCEPT ![key] = Gone] /\ contested' = contested \ {key}
        /\ editor' = [Overtaken(key) EXCEPT ![e] = Idle]
    BY <1>7 DEF FinishDelete
  <2>2. Gone \in AskedFields
    BY DEF Gone, AskedFields
  <2>3. asked' \in [ProjectKeys -> AskedFields] /\ asked'[key] = Gone /\ \A k \in ProjectKeys : k # key => asked'[k] = asked[k]
    BY <1>4, <2>1, <2>2 DEF EditsInv
  <2>4. DOMAIN editor' = Editors
    BY <2>1 DEF Overtaken
  <2>5. ASSUME NEW f \in Editors PROVE (editor[f] = Idle \/ IsUpdate(editor[f]) \/ IsDelete(editor[f]))'
    <3>1. CASE f = e
      BY <2>1, <3>1 DEF Overtaken
    <3>2. CASE f # e
      <4> DEFINE x == editor[f]
      <4>0. PICK y : y = editor'[f]
        OBVIOUS
      <4>1. x = Idle \/ IsUpdate(x) \/ IsDelete(x)
        BY DEF EditsInv
      <4>2. y = IF x.pc = "update" /\ x.project.key = key THEN [x EXCEPT !.stale = TRUE] ELSE x
        BY <2>1, <3>2, <4>0 DEF Overtaken
      <4> HIDE DEF x, key, id
      <4>3. y = Idle \/ IsUpdate(y)' \/ IsDelete(y)'
        BY <1>5, <1>6, <4>1, <4>2, EditorRests
      <4>4. QED
        BY <4>0, <4>3 DEF IsUpdate, IsDelete
    <3>3. QED
      BY <3>1, <3>2
  <2>6. \A p \in DOMAIN listed : listed[p].key = key => p = id
    BY <1>4, <1>7 DEF ProjectsInv
  <2>7. ASSUME NEW k \in ProjectKeys, k \notin contested'
        PROVE  /\ (IdsOf(k)' # {}) = asked'[k].there
               /\ \A p \in IdsOf(k)' : listed'[p].name = asked'[k].name /\ listed'[p].branch = asked'[k].branch
    <3>1. CASE k = key
      <4>1. IdsOf(k)' = {}
        BY <1>2, <2>6, <3>1 DEF IdsOf
      <4>2. asked'[k].there = FALSE
        <5>1. asked'[k] = Gone
          BY <2>3, <3>1
        <5>2. Gone.there = FALSE
          BY DEF Gone
        <5>3. QED
          BY <5>1, <5>2
      <4>3. QED
        BY <4>1, <4>2
    <3>2. CASE k # key
      <4>1. asked'[k] = asked[k] /\ k \notin contested
        BY <2>1, <2>3, <2>7, <3>2
      <4>2. IdsOf(k)' = IdsOf(k) /\ \A p \in IdsOf(k) : listed'[p] = listed[p]
        BY <1>2, <1>4, <3>2 DEF IdsOf
      <4>3. /\ (IdsOf(k) # {}) = asked[k].there
            /\ \A p \in IdsOf(k) : listed[p].name = asked[k].name /\ listed[p].branch = asked[k].branch
        BY <4>1 DEF EditsInv, EditsAreKept
      <4>4. QED
        BY <4>1, <4>2, <4>3
    <3>3. QED
      BY <3>1, <3>2
  <2>8. EditsAreKept'
    BY <2>7 DEF EditsAreKept
  <2>9. QED
    BY <2>3, <2>4, <2>5, <2>8 DEF EditsInv
<1>8. CASE id \notin DOMAIN listed
  <2>1. editor' = [editor EXCEPT ![e] = Idle] /\ asked' = asked /\ contested' = contested
    BY <1>8 DEF FinishDelete
  <2>2. DOMAIN listed' = DOMAIN listed /\ \A p \in DOMAIN listed : listed'[p] = listed[p]
    BY <1>2, <1>8
  <2>3. ASSUME NEW f \in Editors PROVE (editor[f] = Idle \/ IsUpdate(editor[f]) \/ IsDelete(editor[f]))'
    <3>1. CASE f = e
      BY <2>1, <3>1 DEF EditsInv
    <3>2. CASE f # e
      <4>1. editor'[f] = editor[f]
        BY <2>1, <3>2 DEF EditsInv
      <4>2. editor[f] = Idle \/ IsUpdate(editor[f]) \/ IsDelete(editor[f])
        BY DEF EditsInv
      <4>3. IsUpdate(editor[f]) => IsUpdate(editor[f])'
        BY <2>2, <4>1 DEF IsUpdate
      <4>4. IsDelete(editor[f]) => IsDelete(editor[f])'
        BY <1>1, <2>2, <4>1 DEF IsDelete
      <4>5. QED
        BY <4>1, <4>2, <4>3, <4>4
    <3>3. QED
      BY <3>1, <3>2
  <2>4. \A k : IdsOf(k)' = IdsOf(k) /\ \A p \in IdsOf(k) : listed'[p] = listed[p]
    BY <2>2 DEF IdsOf
  <2>5. EditsAreKept'
    <3>1. EditsAreKept
      BY DEF EditsInv
    <3>2. QED
      BY <2>1, <2>4, <3>1 DEF EditsAreKept
  <2>6. QED
    BY <2>1, <2>3, <2>5 DEF EditsInv
<1>9. QED
  BY <1>7, <1>8

\* An editor begins, the tables as they are.
LEMMA EditsBegun ==
  ASSUME EditsInv, NEW e \in Editors, NEW x, IsUpdate(x) \/ IsDelete(x), editor' = [editor EXCEPT ![e] = x],
         UNCHANGED <<listed, handedOut, asked, contested>>
  PROVE  EditsInv'
<1>1. DOMAIN editor' = Editors /\ asked' \in [ProjectKeys -> AskedFields]
  BY DEF EditsInv
<1>2. ASSUME NEW f \in Editors PROVE (editor[f] = Idle \/ IsUpdate(editor[f]) \/ IsDelete(editor[f]))'
  <2>1. CASE f = e
    <3>1. editor'[f] = x
      BY <2>1 DEF EditsInv
    <3>2. QED
      BY <3>1 DEF IsUpdate, IsDelete
  <2>2. CASE f # e
    <3>1. editor'[f] = editor[f]
      BY <2>2 DEF EditsInv
    <3>2. editor[f] = Idle \/ IsUpdate(editor[f]) \/ IsDelete(editor[f])
      BY DEF EditsInv
    <3>3. QED
      BY <3>1, <3>2 DEF IsUpdate, IsDelete
  <2>3. QED
    BY <2>1, <2>2
<1>3. EditsAreKept'
  <2>1. EditsAreKept
    BY DEF EditsInv
  <2>2. QED
    BY <2>1 DEF EditsAreKept, IdsOf
<1>4. QED
  BY <1>1, <1>2, <1>3 DEF EditsInv

LEMMA EditsRest ==
  ASSUME EditsInv, UNCHANGED <<listed, editor, asked, contested>>, handedOut.projects \in Nat,
         handedOut'.projects = handedOut.projects
  PROVE  EditsInv'
<1>1. \A e \in Editors : (editor[e] = Idle \/ IsUpdate(editor[e]) \/ IsDelete(editor[e]))'
  BY DEF EditsInv, IsUpdate, IsDelete
<1>2. EditsAreKept'
  <2>1. EditsAreKept
    BY DEF EditsInv
  <2>2. QED
    BY <2>1 DEF EditsAreKept, IdsOf
<1>3. QED
  BY <1>1, <1>2 DEF EditsInv

LEMMA UpdateBegins ==
  ASSUME ProjectsInv, EditsInv, NEW e \in Editors, NEW key \in ProjectKeys, NEW change \in Changes, BeginUpdate(e, key, change)
  PROVE  EditsInv'
<1> DEFINE x == [pc |-> "update", project |-> listed[GetByKey(key)], change |-> change, stale |-> FALSE]
<1>1. GetByKey(key) \in DOMAIN listed
  BY DEF BeginUpdate, GetByKey, IdsOf
<1>2. IsUpdate(x)
  BY <1>1 DEF IsUpdate, ProjectsInv
<1>3. editor' = [editor EXCEPT ![e] = x] /\ UNCHANGED <<listed, handedOut, asked, contested>>
  BY DEF BeginUpdate
<1> HIDE DEF x
<1>4. QED
  BY <1>2, <1>3, EditsBegun

LEMMA DeleteBegins ==
  ASSUME ProjectsInv, EditsInv, NEW e \in Editors, NEW key \in ProjectKeys, BeginDelete(e, key)
  PROVE  EditsInv'
<1> DEFINE x == [pc |-> "delete", id |-> GetByKey(key), key |-> key]
<1>1. GetByKey(key) \in DOMAIN listed /\ listed[GetByKey(key)].key = key
  BY DEF BeginDelete, GetByKey, IdsOf
<1>2. IsDelete(x)
  BY <1>1 DEF IsDelete, ProjectsInv
<1>3. editor' = [editor EXCEPT ![e] = x] /\ UNCHANGED <<listed, handedOut, asked, contested>>
  BY DEF BeginDelete
<1> HIDE DEF x
<1>4. QED
  BY <1>2, <1>3, EditsBegun

\* What holds of the index survives changes of rows that keep their scans and the jobs of these,
\* and new rows of a scan that was not there.
LEMMA IndexRests ==
  ASSUME IndexInv, UNCHANGED <<documents, indexing, backend>>, everStored \subseteq everStored',
         handedOut.scans \in Nat, handedOut'.scans \in Nat, handedOut.scans <= handedOut'.scans,
         \A i \in DOMAIN stored' :
            \/ /\ i \in DOMAIN stored /\ stored'[i].scan = stored[i].scan
               /\ analysed'[stored[i].scan].job = analysed[stored[i].scan].job
            \/ stored'[i].scan \notin 1..handedOut.scans /\ analysed'[stored'[i].scan].job = "accepted"
  PROVE  IndexInv'
<1>1. \A i \in DOMAIN documents' : <<i, documents'[i]>> \in everStored'
  BY DEF IndexInv
<1>2. \A i \in DOMAIN indexing'.rows : <<i, indexing'.rows[i]>> \in everStored'
  BY DEF IndexInv
<1>3. ASSUME indexing' # NoPage
      PROVE  /\ indexing'.scan \in 1..handedOut'.scans
             /\ \A i \in DOMAIN stored' : stored'[i].scan = indexing'.scan => i \in DOMAIN indexing'.rows
  <2>1. /\ indexing.scan \in 1..handedOut.scans
        /\ \A i \in DOMAIN stored : stored[i].scan = indexing.scan => i \in DOMAIN indexing.rows
    BY <1>3 DEF IndexInv
  <2>2. QED
    BY <2>1
<1>4. ASSUME backend' = "zincsearch", NEW i \in DOMAIN stored', analysed'[stored'[i].scan].job = "completed"
      PROVE  i \in DOMAIN documents'
  <2>1. /\ i \in DOMAIN stored /\ stored'[i].scan = stored[i].scan
        /\ analysed'[stored[i].scan].job = analysed[stored[i].scan].job
    BY <1>4
  <2>2. QED
    BY <1>4, <2>1 DEF IndexInv
<1>5. QED
  BY <1>1, <1>2, <1>3, <1>4 DEF IndexInv

\* Writing a project keeps the scans of the others and of itself.
LEMMA RowsOfWritten ==
  ASSUME RowsInv, DOMAIN listed \subseteq DOMAIN listed', UNCHANGED <<analysed, stored, everStored>>,
         handedOut'.scans = handedOut.scans, handedOut'.issues = handedOut.issues
  PROVE  RowsInv'
BY DEF RowsInv

LEMMA RowsOfDelete ==
  ASSUME ProjectsInv, RowsInv, IndexInv, NEW e \in Editors, FinishDelete(e)
  PROVE  ProjectsInv' /\ RowsInv' /\ IndexInv'
<1> DEFINE id == editor[e].id
           lost == ScansOf(id)
<1>1. /\ listed' = Without(listed, {id}) /\ stored' = Without(stored, RowsOfScans(lost))
      /\ analysed' = Without(analysed, lost)
      /\ UNCHANGED <<backend, documents, indexing, handedOut, everStored>>
  BY DEF FinishDelete
<1>2. DOMAIN listed' = DOMAIN listed \ {id} /\ \A p \in DOMAIN listed' : listed'[p] = listed[p]
  BY <1>1 DEF Without
<1>3. DOMAIN analysed' = DOMAIN analysed \ lost /\ \A s \in DOMAIN analysed' : analysed'[s] = analysed[s]
  BY <1>1 DEF Without
<1>4. DOMAIN stored' = DOMAIN stored \ RowsOfScans(lost) /\ \A i \in DOMAIN stored' : stored'[i] = stored[i]
  BY <1>1 DEF Without
<1>5. \A s \in DOMAIN analysed' : analysed[s].project # id
  BY <1>3 DEF ScansOf
<1>6. \A i \in DOMAIN stored' : i \in DOMAIN stored /\ stored[i].scan \notin lost
  BY <1>4 DEF RowsOfScans
<1>7. ProjectsInv'
  <2>1. DOMAIN listed' \subseteq DOMAIN listed /\ \A p \in DOMAIN listed' : listed'[p] = listed[p]
    BY <1>2
  <2>2. handedOut' = handedOut
    BY <1>1
  <2> HIDE DEF id, lost
  <2>3. QED
    BY <2>1, <2>2 DEF ProjectsInv
<1>8. RowsInv'
  <2>1. \A s \in DOMAIN analysed' : analysed'[s] \in AnalysedRows /\ analysed'[s].project \in DOMAIN listed'
    BY <1>2, <1>3, <1>5 DEF RowsInv
  <2>2. \A i \in DOMAIN stored' :
          stored'[i] \in IssueRows /\ stored'[i].scan \in DOMAIN analysed' /\ <<i, stored'[i]>> \in everStored'
    BY <1>1, <1>3, <1>4, <1>6 DEF RowsInv
  <2> HIDE DEF lost
  <2>3. QED
    BY <1>1, <1>3, <1>4, <2>1, <2>2 DEF RowsInv
<1>9. IndexInv'
  <2>1. \A i \in DOMAIN stored' :
            /\ i \in DOMAIN stored /\ stored'[i].scan = stored[i].scan
            /\ analysed'[stored[i].scan].job = analysed[stored[i].scan].job
    BY <1>3, <1>4, <1>6 DEF RowsInv
  <2>2. handedOut.scans \in Nat /\ handedOut'.scans \in Nat /\ handedOut.scans <= handedOut'.scans
    BY <1>1 DEF ProjectsInv
  <2>3. QED
    BY <1>1, <2>1, <2>2, IndexRests
<1>10. QED
  BY <1>7, <1>8, <1>9

\* What is stored of a finding is a row.
LEMMA FoundRow ==
  ASSUME NEW a \in Analyses, NEW k \in DOMAIN a, NEW s \in Nat, NEW p \in Nat
  PROVE  [scan |-> s, project |-> p, rule |-> a[k].rule, severity |-> a[k].severity, status |-> "open"] \in IssueRows
<1>1. a[k] \in ReportedIssues
  BY DEF ReportedIssues
<1> DEFINE x == a[k]
<1>2. x \in ReportedIssues
  BY <1>1
<1> HIDE DEF x
<1>3. x.rule \in {y.rule : y \in ReportedIssues} /\ x.severity \in {y.severity : y \in ReportedIssues}
  BY <1>2
<1>4. QED
  BY <1>3 DEF IssueRows, x

LEMMA RowsOfScan ==
  ASSUME ProjectsInv, RowsInv, IndexInv, NEW key \in ProjectKeys, NEW name \in Names, NEW analysis \in Analyses,
         IngestScan(key, name, analysis)
  PROVE  /\ ProjectsInv' /\ RowsInv' /\ IndexInv'
         /\ handedOut'.projects \in Nat /\ handedOut.projects <= handedOut'.projects
         /\ everStored \subseteq everStored' /\ ToStoreProject(key, name) \in ProjectRows
<1> DEFINE project == ToStoreProject(key, name)
           id == CHOOSE p \in DOMAIN listed' : listed'[p].key = key
           scan == handedOut.scans + 1
           first == handedOut.issues
           ids == (first + 1)..(first + Len(analysis))
           new == [i \in ids |-> [scan |-> scan, project |-> id, rule |-> analysis[i - first].rule,
                                  severity |-> analysis[i - first].severity, status |-> "open"]]
<1>1. project \in ProjectRows /\ project.key = key
  BY DEF ToStoreProject, ProjectRows
<1>2. /\ listed' = Upsert(project)
      /\ analysed' = [s \in DOMAIN analysed \cup {scan} |->
                        IF s = scan THEN [project |-> id, job |-> "accepted"] ELSE analysed[s]]
      /\ stored' = [i \in DOMAIN stored \cup DOMAIN new |-> IF i \in DOMAIN new THEN new[i] ELSE stored[i]]
      /\ everStored' = everStored \cup {<<i, new[i]>> : i \in DOMAIN new}
      /\ handedOut' = [projects |-> IdAfterUpsert.projects, scans |-> scan, issues |-> first + Len(analysis)]
      /\ UNCHANGED <<backend, documents, indexing>>
  BY DEF IngestScan, WrittenWhole
<1>3. handedOut \in [projects : Nat, scans : Nat, issues : Nat]
  BY DEF ProjectsInv
<1>4. IdAfterUpsert.projects \in handedOut.projects..(handedOut.projects + 1)
  BY <1>1, <1>2, IdsHandedOut
<1>5. Len(analysis) \in Nat /\ DOMAIN analysis = 1..Len(analysis)
  BY RequestAssumption
<1>6. /\ handedOut'.projects = IdAfterUpsert.projects /\ handedOut'.scans = scan
      /\ handedOut'.issues = first + Len(analysis)
  BY <1>2
<1>7. handedOut' \in [projects : Nat, scans : Nat, issues : Nat] /\ handedOut.projects <= handedOut'.projects
  <2>1. IdAfterUpsert.projects \in Nat /\ handedOut.projects <= IdAfterUpsert.projects
    BY <1>3, <1>4
  <2>2. scan \in Nat /\ first + Len(analysis) \in Nat
    BY <1>3, <1>5
  <2> HIDE DEF scan, first
  <2>3. QED
    BY <1>2, <1>6, <2>1, <2>2
<1>8. ProjectsInv'
  BY <1>1, <1>2, <1>6, <1>7, ProjectsWritten
<1>9. DOMAIN listed \subseteq DOMAIN listed' /\ id \in DOMAIN listed' /\ id \in Nat
  <2>1. DOMAIN listed \subseteq DOMAIN listed' /\ IdsOf(key)' # {}
    BY <1>1, <1>2, RowsOfOthers
  <2>2. id \in DOMAIN listed'
    BY <2>1 DEF IdsOf
  <2> HIDE DEF id
  <2>3. QED
    BY <1>8, <2>1, <2>2 DEF ProjectsInv
<1>10. DOMAIN new = ids
  OBVIOUS
<1>11. ASSUME NEW i \in ids PROVE new[i] \in IssueRows /\ new[i].scan = scan /\ i \in 1..(first + Len(analysis))
  <2>1. i - first \in DOMAIN analysis /\ scan \in Nat
    BY <1>3, <1>5
  <2> DEFINE k == i - first
  <2>2. new[i] = [scan |-> scan, project |-> id, rule |-> analysis[k].rule, severity |-> analysis[k].severity, status |-> "open"]
    OBVIOUS
  <2>3. i \in 1..(first + Len(analysis))
    BY <1>3, <1>5
  <2> HIDE DEF k, scan, id, new, ids, first
  <2>4. k \in DOMAIN analysis
    BY <2>1 DEF k
  <2>5. new[i] \in IssueRows
    BY <1>9, <2>1, <2>2, <2>4, FoundRow
  <2>6. QED
    BY <2>2, <2>3, <2>5
<1> HIDE DEF new, id
<1>12. \A i \in DOMAIN stored' : (i \in ids /\ stored'[i] = new[i]) \/ (i \in DOMAIN stored /\ stored'[i] = stored[i])
  BY <1>2, <1>10
<1>13. scan \in Nat /\ scan \notin 1..handedOut.scans /\ scan \in 1..scan /\ handedOut.scans <= scan
  BY <1>3
<1>14. DOMAIN analysed' = DOMAIN analysed \cup {scan}
       /\ analysed'[scan] = [project |-> id, job |-> "accepted"]
       /\ \A s \in DOMAIN analysed : s # scan => analysed'[s] = analysed[s]
  BY <1>2
<1>15. everStored' = everStored \cup {<<i, new[i]>> : i \in ids} /\ everStored \subseteq everStored'
  BY <1>2, <1>10
<1> HIDE DEF ids
<1>16. RowsInv'
  <2>1. DOMAIN analysed \subseteq 1..handedOut.scans /\ DOMAIN stored \subseteq 1..handedOut.issues
    BY DEF RowsInv
  <2>2. DOMAIN analysed' \subseteq 1..handedOut'.scans
    BY <1>3, <1>6, <1>14, <2>1
  <2>3. ASSUME NEW s \in DOMAIN analysed' PROVE analysed'[s] \in AnalysedRows /\ analysed'[s].project \in DOMAIN listed'
    <3>1. CASE s = scan
      BY <1>9, <1>14, <3>1 DEF AnalysedRows
    <3>2. CASE s # scan
      BY <1>9, <1>14, <3>2 DEF RowsInv
    <3>3. QED
      BY <3>1, <3>2
  <2>4. \A i \in 1..first : i \in 1..handedOut'.issues
    BY <1>3, <1>5, <1>6
  <2>5. DOMAIN stored' \subseteq 1..handedOut'.issues
    BY <1>6, <1>11, <1>12, <2>1, <2>4
  <2>6. ASSUME NEW i \in DOMAIN stored'
        PROVE  stored'[i] \in IssueRows /\ stored'[i].scan \in DOMAIN analysed' /\ <<i, stored'[i]>> \in everStored'
    <3>1. CASE i \in ids /\ stored'[i] = new[i]
      BY <1>11, <1>14, <1>15, <3>1
    <3>2. CASE i \in DOMAIN stored /\ stored'[i] = stored[i]
      BY <1>14, <1>15, <3>2 DEF RowsInv
    <3>3. QED
      BY <1>12, <3>1, <3>2
  <2>7. \A e \in everStored' : e[1] \in 1..handedOut'.issues
    BY <1>6, <1>11, <1>15, <2>4 DEF RowsInv
  <2>8. QED
    BY <2>2, <2>3, <2>5, <2>6, <2>7 DEF RowsInv
<1>17. IndexInv'
  <2>1. \A i \in DOMAIN stored' :
            \/ /\ i \in DOMAIN stored /\ stored'[i].scan = stored[i].scan
               /\ analysed'[stored[i].scan].job = analysed[stored[i].scan].job
            \/ stored'[i].scan \notin 1..handedOut.scans /\ analysed'[stored'[i].scan].job = "accepted"
    <3> TAKE i \in DOMAIN stored'
    <3>1. CASE i \in ids /\ stored'[i] = new[i]
      BY <1>11, <1>13, <1>14, <3>1
    <3>2. CASE i \in DOMAIN stored /\ stored'[i] = stored[i]
      <4>1. stored[i].scan \in DOMAIN analysed /\ stored[i].scan # scan
        BY <1>13, <3>2 DEF RowsInv
      <4>2. QED
        BY <1>14, <3>2, <4>1
    <3>3. QED
      BY <1>12, <3>1, <3>2
  <2>2. handedOut.scans \in Nat /\ handedOut'.scans \in Nat /\ handedOut.scans <= handedOut'.scans
    BY <1>3, <1>6, <1>13
  <2>3. QED
    BY <1>2, <1>15, <2>1, <2>2, IndexRests
<1>18. QED
  BY <1>1, <1>7, <1>8, <1>15, <1>16, <1>17

LEMMA RowsOfStatus ==
  ASSUME ProjectsInv, RowsInv, IndexInv, NEW i \in DOMAIN stored, ChangeStatus(i)
  PROVE  ProjectsInv' /\ RowsInv' /\ IndexInv' /\ everStored \subseteq everStored'
<1> DEFINE row == [stored[i] EXCEPT !.status = IF @ = "open" THEN "closed" ELSE "open"]
<1>1. /\ stored' = [stored EXCEPT ![i] = row]
      /\ everStored' = everStored \cup {<<i, stored'[i]>>}
      /\ UNCHANGED <<backend, listed, analysed, documents, indexing, handedOut>>
  BY DEF ChangeStatus
<1>2. stored[i] \in IssueRows
  BY DEF RowsInv
<1>3. row \in IssueRows /\ row.scan = stored[i].scan
  BY <1>2 DEF IssueRows
<1> HIDE DEF row
<1>4. DOMAIN stored' = DOMAIN stored /\ stored'[i] = row /\ \A k \in DOMAIN stored : k # i => stored'[k] = stored[k]
  BY <1>1
<1>5. everStored \subseteq everStored' /\ <<i, row>> \in everStored'
  BY <1>1, <1>4
<1>6. i \in 1..handedOut.issues /\ \A e \in everStored' : e \in everStored \/ e[1] = i
  BY <1>1 DEF RowsInv
<1>7. RowsInv'
  <2>1. \A k \in DOMAIN stored' :
          stored'[k] \in IssueRows /\ stored'[k].scan \in DOMAIN analysed' /\ <<k, stored'[k]>> \in everStored'
    BY <1>1, <1>3, <1>4, <1>5 DEF RowsInv
  <2>2. \A e \in everStored' : e[1] \in 1..handedOut'.issues
    BY <1>1, <1>6 DEF RowsInv
  <2>3. DOMAIN stored' \subseteq 1..handedOut'.issues
    BY <1>1, <1>4 DEF RowsInv
  <2>4. DOMAIN analysed' \subseteq 1..handedOut'.scans
        /\ \A s \in DOMAIN analysed' : analysed'[s] \in AnalysedRows /\ analysed'[s].project \in DOMAIN listed'
    BY <1>1 DEF RowsInv
  <2>5. QED
    BY <2>1, <2>2, <2>3, <2>4 DEF RowsInv
<1>8. IndexInv'
  <2>1. handedOut.scans \in Nat /\ handedOut'.scans \in Nat /\ handedOut.scans <= handedOut'.scans
    BY <1>1 DEF ProjectsInv
  <2>2. \A k \in DOMAIN stored' :
            /\ k \in DOMAIN stored /\ stored'[k].scan = stored[k].scan
            /\ analysed'[stored[k].scan].job = analysed[stored[k].scan].job
    BY <1>1, <1>3, <1>4
  <2>3. QED
    BY <1>1, <1>5, <2>1, <2>2, IndexRests
<1>9. QED
  BY <1>1, <1>5, <1>7, <1>8 DEF ProjectsInv

LEMMA RowsOfRetention ==
  ASSUME ProjectsInv, RowsInv, IndexInv, NEW s \in DOMAIN analysed, DeleteOldScan(s)
  PROVE  ProjectsInv' /\ RowsInv' /\ IndexInv'
<1>1. /\ analysed' = Without(analysed, {s}) /\ stored' = Without(stored, RowsOfScans({s}))
      /\ UNCHANGED <<backend, listed, documents, indexing, handedOut, everStored>>
  BY DEF DeleteOldScan
<1>2. DOMAIN analysed' = DOMAIN analysed \ {s} /\ \A t \in DOMAIN analysed' : analysed'[t] = analysed[t]
  BY <1>1 DEF Without
<1>3. DOMAIN stored' = DOMAIN stored \ RowsOfScans({s}) /\ \A i \in DOMAIN stored' : stored'[i] = stored[i]
  BY <1>1 DEF Without
<1>4. \A i \in DOMAIN stored' : i \in DOMAIN stored /\ stored[i].scan # s
  BY <1>3 DEF RowsOfScans
<1>5. RowsInv'
  <2>1. \A i \in DOMAIN stored' :
          stored'[i] \in IssueRows /\ stored'[i].scan \in DOMAIN analysed' /\ <<i, stored'[i]>> \in everStored'
    BY <1>1, <1>2, <1>3, <1>4 DEF RowsInv
  <2>2. \A t \in DOMAIN analysed' : analysed'[t] \in AnalysedRows /\ analysed'[t].project \in DOMAIN listed'
    BY <1>1, <1>2 DEF RowsInv
  <2>3. QED
    BY <1>1, <1>2, <1>3, <2>1, <2>2 DEF RowsInv
<1>6. IndexInv'
  <2>1. \A i \in DOMAIN stored' :
            /\ i \in DOMAIN stored /\ stored'[i].scan = stored[i].scan
            /\ analysed'[stored[i].scan].job = analysed[stored[i].scan].job
    BY <1>2, <1>3, <1>4 DEF RowsInv
  <2>2. handedOut.scans \in Nat /\ handedOut'.scans \in Nat /\ handedOut.scans <= handedOut'.scans
    BY <1>1 DEF ProjectsInv
  <2>3. QED
    BY <1>1, <2>1, <2>2, IndexRests
<1>7. QED
  BY <1>1, <1>5, <1>6 DEF ProjectsInv

LEMMA RowsOfPage ==
  ASSUME ProjectsInv, RowsInv, IndexInv, NEW s \in DOMAIN analysed, ReadRows(s)
  PROVE  ProjectsInv' /\ RowsInv' /\ IndexInv'
<1> DEFINE rows == [i \in RowsOfScans({s}) |-> stored[i]]
<1>1. /\ analysed' = [analysed EXCEPT ![s].job = "running"] /\ indexing' = [scan |-> s, rows |-> rows]
      /\ analysed[s].job = "accepted"
      /\ UNCHANGED <<backend, listed, stored, documents, handedOut, everStored>>
  BY DEF ReadRows
<1>2. DOMAIN rows = RowsOfScans({s}) /\ \A i \in DOMAIN rows : rows[i] = stored[i] /\ i \in DOMAIN stored
  BY DEF RowsOfScans
<1> HIDE DEF rows
<1>3. /\ DOMAIN analysed' = DOMAIN analysed /\ analysed'[s] \in AnalysedRows
      /\ analysed'[s].project = analysed[s].project /\ analysed'[s].job = "running"
      /\ \A t \in DOMAIN analysed : t # s => analysed'[t] = analysed[t]
  <2>1. analysed[s] \in AnalysedRows
    BY DEF RowsInv
  <2>2. analysed' = [analysed EXCEPT ![s] = [analysed[s] EXCEPT !.job = "running"]]
    BY <1>1
  <2>3. [analysed[s] EXCEPT !.job = "running"] \in AnalysedRows
        /\ [analysed[s] EXCEPT !.job = "running"].project = analysed[s].project
        /\ [analysed[s] EXCEPT !.job = "running"].job = "running"
    BY <2>1 DEF AnalysedRows
  <2>4. QED
    BY <2>2, <2>3
<1>4. RowsInv'
  <2>1. \A t \in DOMAIN analysed' : analysed'[t] \in AnalysedRows /\ analysed'[t].project \in DOMAIN listed'
    BY <1>1, <1>3 DEF RowsInv
  <2>2. QED
    BY <1>1, <1>3, <2>1 DEF RowsInv
<1>5. IndexInv'
  <2>1. \A i \in DOMAIN indexing'.rows : <<i, indexing'.rows[i]>> \in everStored'
    BY <1>1, <1>2 DEF RowsInv
  <2>2. indexing'.scan \in 1..handedOut'.scans
    BY <1>1 DEF RowsInv
  <2>3. \A i \in DOMAIN stored' : stored'[i].scan = indexing'.scan => i \in DOMAIN indexing'.rows
    BY <1>1, <1>2 DEF RowsOfScans
  <2>4. backend' = "zincsearch" =>
          \A i \in DOMAIN stored' : analysed'[stored'[i].scan].job = "completed" => i \in DOMAIN documents'
    <3> SUFFICES ASSUME backend' = "zincsearch", NEW i \in DOMAIN stored', analysed'[stored'[i].scan].job = "completed"
                 PROVE  i \in DOMAIN documents'
      OBVIOUS
    <3>1. stored'[i].scan # s /\ stored'[i].scan \in DOMAIN analysed
      BY <1>1, <1>3 DEF RowsInv
    <3>2. analysed[stored[i].scan].job = "completed"
      BY <1>1, <1>3, <3>1
    <3>3. QED
      BY <1>1, <3>2 DEF IndexInv
  <2>5. \A i \in DOMAIN documents' : <<i, documents'[i]>> \in everStored'
    BY <1>1 DEF IndexInv
  <2>6. QED
    BY <2>1, <2>2, <2>3, <2>4, <2>5 DEF IndexInv
<1>6. QED
  BY <1>1, <1>4, <1>5 DEF ProjectsInv

LEMMA RowsOfBulk ==
  ASSUME ProjectsInv, RowsInv, IndexInv, NEW taken \in BOOLEAN, NEW ok \in BOOLEAN, BulkAnswered(taken, ok)
  PROVE  ProjectsInv' /\ RowsInv' /\ IndexInv'
<1> DEFINE s == indexing.scan
           job == IF ok THEN "completed" ELSE "accepted"
           rows == indexing.rows
<1>1. /\ indexing # NoPage /\ (ok => taken) /\ indexing' = NoPage
      /\ documents' = IF taken THEN IndexIssues(rows) ELSE documents
      /\ analysed' = IF s \in DOMAIN analysed THEN [analysed EXCEPT ![s].job = job] ELSE analysed
      /\ UNCHANGED <<backend, listed, stored, handedOut, everStored>>
  BY DEF BulkAnswered
<1>2. job \in {"accepted", "completed"} /\ (job = "completed" => ok)
  OBVIOUS
<1> HIDE DEF job
<1>3. /\ DOMAIN analysed' = DOMAIN analysed
      /\ s \in DOMAIN analysed => analysed'[s] = [analysed[s] EXCEPT !.job = job]
      /\ \A t \in DOMAIN analysed : t # s => analysed'[t] = analysed[t]
  BY <1>1
<1>4. ASSUME s \in DOMAIN analysed
      PROVE  analysed'[s] \in AnalysedRows /\ analysed'[s].project = analysed[s].project /\ analysed'[s].job = job
  <2>1. analysed[s] \in AnalysedRows
    BY <1>4 DEF RowsInv
  <2>2. [analysed[s] EXCEPT !.job = job] \in AnalysedRows
        /\ [analysed[s] EXCEPT !.job = job].project = analysed[s].project
        /\ [analysed[s] EXCEPT !.job = job].job = job
    BY <1>2, <2>1 DEF AnalysedRows
  <2>3. QED
    BY <1>3, <1>4, <2>2
<1>5. RowsInv'
  <2>1. \A t \in DOMAIN analysed' : analysed'[t] \in AnalysedRows /\ analysed'[t].project \in DOMAIN listed'
    BY <1>1, <1>3, <1>4 DEF RowsInv
  <2> HIDE DEF s, rows
  <2>2. QED
    BY <1>1, <1>3, <2>1 DEF RowsInv
<1>6. /\ DOMAIN documents \subseteq DOMAIN documents'
      /\ taken /\ backend = "zincsearch" => DOMAIN rows \subseteq DOMAIN documents'
      /\ \A i \in DOMAIN documents' : (i \in DOMAIN documents /\ documents'[i] = documents[i])
                                      \/ (i \in DOMAIN rows /\ documents'[i] = rows[i])
  BY <1>1 DEF IndexIssues
<1>7. IndexInv'
  <2>1. \A i \in DOMAIN documents' : <<i, documents'[i]>> \in everStored'
    BY <1>1, <1>6 DEF IndexInv
  <2>2. \A i \in DOMAIN indexing'.rows : <<i, indexing'.rows[i]>> \in everStored'
    BY <1>1 DEF NoPage
  <2>3. backend' = "zincsearch" =>
          \A i \in DOMAIN stored' : analysed'[stored'[i].scan].job = "completed" => i \in DOMAIN documents'
    <3> SUFFICES ASSUME backend' = "zincsearch", NEW i \in DOMAIN stored', analysed'[stored'[i].scan].job = "completed"
                 PROVE  i \in DOMAIN documents'
      OBVIOUS
    <3>1. i \in DOMAIN stored /\ stored'[i] = stored[i] /\ stored[i].scan \in DOMAIN analysed /\ backend = "zincsearch"
      BY <1>1 DEF RowsInv
    <3>2. CASE stored[i].scan = s
      <4>1. taken
        BY <1>1, <1>2, <1>4, <3>1, <3>2
      <4>2. i \in DOMAIN rows
        BY <1>1, <3>1, <3>2 DEF IndexInv
      <4>3. QED
        BY <1>6, <3>1, <4>1, <4>2
    <3>3. CASE stored[i].scan # s
      <4>1. analysed[stored[i].scan].job = "completed"
        BY <1>3, <3>1, <3>3
      <4>2. QED
        BY <1>6, <3>1, <4>1 DEF IndexInv
    <3>4. QED
      BY <3>2, <3>3
  <2>4. QED
    BY <1>1, <2>1, <2>2, <2>3 DEF IndexInv
<1>8. QED
  BY <1>1, <1>5, <1>7 DEF ProjectsInv

SliceSize(n, r) == Max({0, Min({r.limit, n - r.offset})})
SearchFields(s) ==
    s = [pc |-> s.pc, request |-> s.request, total |-> s.total, hits |-> s.hits, facets |-> s.facets,
         left |-> s.left, calm |-> s.calm, cut |-> s.cut]
HitsFit(s) ==
    /\ \A h \in s.hits : Fits(s.request, h[2]) /\ (s.request.index = "issues" => h \in everStored)
    /\ IsInjective([h \in s.hits |-> h[1]])
    /\ Cardinality(s.hits) <= s.request.limit
HitsAreThePage(s) ==
    /\ "page" \in s.cut \/ Cardinality(s.hits) = SliceSize(s.total, s.request)
    /\ InTables(s.request) => \A h \in s.hits :
          Cardinality({i \in MatchingRows(s.request, TableOf(s.request)) : i > h[1]}) >= s.request.offset
FacetsAddUp(s) == \A a \in DOMAIN s.facets \ s.cut : s.total = SumOf(s.facets[a])

\* What a search has found so far is right, and, while nobody writes, agrees with the tables.
SearchSound(s) ==
    /\ SearchFields(s) /\ s.request \in Requests /\ s.pc \in {"ask", "page", "facets", "answered", "failed"}
    /\ s.pc \in {"ask", "page"} => s.facets = <<>>
    /\ s.pc = "page" => InTables(s.request)
    /\ s.pc = "facets" => InTables(s.request) /\ s.request.index = "issues"
    /\ s.pc \in {"facets", "answered"} => HitsFit(s)
    /\ s.pc \in {"facets", "answered"} /\ (s.calm \/ ~InTables(s.request)) => HitsAreThePage(s) /\ FacetsAddUp(s)
    /\ s.pc \in {"page", "facets", "answered"} /\ s.calm /\ InTables(s.request) =>
          s.total = Cardinality(MatchingRows(s.request, TableOf(s.request)))
FindersInv == DOMAIN finder = Finders /\ \A f \in Finders : finder[f] = Idle \/ SearchSound(finder[f])

\* A search does not suffer from a step that leaves its table, or after which it is not calm.
LEMMA SearchRests ==
  ASSUME NEW s, SearchSound(s), everStored \subseteq everStored', backend' = backend,
         ~s.calm \/ MatchingRows(s.request, TableOf(s.request))' = MatchingRows(s.request, TableOf(s.request))
  PROVE  SearchSound(s)'
<1>1. \A r : InTables(r)' <=> InTables(r)
  BY DEF InTables
<1>2. HitsFit(s) => HitsFit(s)'
  BY DEF HitsFit
<1>3. SearchFields(s)' <=> SearchFields(s)
  BY DEF SearchFields
<1>4. s.calm /\ HitsAreThePage(s) => HitsAreThePage(s)'
  BY <1>1 DEF HitsAreThePage
<1>5. ~InTables(s.request) /\ HitsAreThePage(s) => HitsAreThePage(s)'
  BY <1>1 DEF HitsAreThePage
<1>6. FacetsAddUp(s)' <=> FacetsAddUp(s)
  BY DEF FacetsAddUp
<1>7. QED
  BY <1>1, <1>2, <1>3, <1>4, <1>5, <1>6 DEF SearchSound

LEMMA SearchIsDisturbed ==
  ASSUME NEW s, SearchSound(s), everStored \subseteq everStored', backend' = backend,
         NEW t, t = [s EXCEPT !.calm = FALSE]
  PROVE  SearchSound(t)'
<1>1. SearchFields(s)
  BY DEF SearchSound
<1>2. /\ t = [pc |-> s.pc, request |-> s.request, total |-> s.total, hits |-> s.hits, facets |-> s.facets,
              left |-> s.left, calm |-> FALSE, cut |-> s.cut]
      /\ t.pc = s.pc /\ t.request = s.request /\ t.total = s.total /\ t.hits = s.hits /\ t.facets = s.facets
      /\ t.left = s.left /\ ~t.calm /\ t.cut = s.cut
  BY <1>1 DEF SearchFields
<1>3. SearchFields(t)
  BY <1>2 DEF SearchFields
<1>4. HitsFit(s) => HitsFit(t)
  BY <1>2 DEF HitsFit
<1>5. ~InTables(s.request) /\ HitsAreThePage(s) => HitsAreThePage(t)
  BY <1>2 DEF HitsAreThePage
<1>6. FacetsAddUp(s) => FacetsAddUp(t)
  BY <1>2 DEF FacetsAddUp
<1>7. SearchSound(t)
  BY <1>2, <1>3, <1>4, <1>5, <1>6 DEF SearchSound
<1>8. QED
  BY <1>2, <1>7, SearchRests

\* Whoever writes disturbs the searches under way.
LEMMA FindersDisturbed ==
  ASSUME FindersInv, Disturb, everStored \subseteq everStored', backend' = backend
  PROVE  FindersInv'
<1>1. finder' = [f \in Finders |-> IF finder[f].pc = "idle" THEN Idle ELSE [finder[f] EXCEPT !.calm = FALSE]]
  BY DEF Disturb
<1>2. ASSUME NEW f \in Finders PROVE (finder[f] = Idle \/ SearchSound(finder[f]))'
  <2>1. CASE finder[f].pc = "idle"
    BY <1>1, <2>1
  <2>2. CASE finder[f].pc # "idle"
    <3>1. SearchSound(finder[f])
      BY <2>2 DEF FindersInv, Idle
    <3>2. PICK s : s = finder[f]
      OBVIOUS
    <3>3. PICK t : t = finder'[f]
      OBVIOUS
    <3>4. t = [s EXCEPT !.calm = FALSE]
      BY <1>1, <2>2, <3>2, <3>3
    <3>5. SearchSound(t)'
      BY <3>1, <3>2, <3>4, SearchIsDisturbed
    <3>6. SearchSound(finder[f])'
      BY <3>3, <3>5 DEF SearchSound, SearchFields, HitsFit, HitsAreThePage, FacetsAddUp
    <3>7. QED
      BY <3>6
  <2>3. QED
    BY <2>1, <2>2
<1>2a. DOMAIN finder' = Finders
  BY <1>1
<1>3. QED
  BY <1>2, <1>2a DEF FindersInv

LEMMA FindersRest ==
  ASSUME FindersInv, finder' = finder, everStored \subseteq everStored', backend' = backend,
         \A r : MatchingRows(r, TableOf(r))' = MatchingRows(r, TableOf(r))
  PROVE  FindersInv'
<1>1. ASSUME NEW f \in Finders PROVE (finder[f] = Idle \/ SearchSound(finder[f]))'
  <2>1. CASE finder[f] = Idle
    BY <2>1
  <2>2. CASE SearchSound(finder[f])
    <3>1. PICK s : s = finder[f]
      OBVIOUS
    <3>2. SearchSound(s)'
      BY <2>2, <3>1, SearchRests
    <3>3. QED
      BY <3>1, <3>2 DEF SearchSound, SearchFields, HitsFit, HitsAreThePage, FacetsAddUp
  <2>3. QED
    BY <2>1, <2>2 DEF FindersInv
<1>2. QED
  BY <1>1 DEF FindersInv

\* One search goes on.
LEMMA FinderMoves ==
  ASSUME FindersInv, OnlyFinder, NEW f \in Finders, NEW t, SearchSound(t), finder' = [finder EXCEPT ![f] = t]
  PROVE  FindersInv'
<1>1. UNCHANGED <<backend, listed, stored, everStored>>
  BY DEF OnlyFinder
<1>2. \A r : MatchingRows(r, TableOf(r))' = MatchingRows(r, TableOf(r))
  BY <1>1 DEF MatchingRows, TableOf
<1>3. DOMAIN finder' = Finders
  BY DEF FindersInv
<1>4. ASSUME NEW g \in Finders PROVE (finder[g] = Idle \/ SearchSound(finder[g]))'
  <2>1. PICK s : s = finder'[g]
    OBVIOUS
  <2>2. s = Idle \/ SearchSound(s)
    BY <2>1 DEF FindersInv
  <2>3. s = Idle \/ SearchSound(s)'
    BY <1>1, <1>2, <2>2, SearchRests
  <2>4. QED
    BY <2>1, <2>3 DEF SearchSound, SearchFields, HitsFit, HitsAreThePage, FacetsAddUp
<1>5. QED
  BY <1>3, <1>4 DEF FindersInv

\* The rows that match are few enough to count, and their ids are numbers.
LEMMA MatchesAreFinite ==
  ASSUME NEW relation, NEW n \in Nat, DOMAIN relation \subseteq 1..n, NEW r
  PROVE  MatchingRows(r, relation) \subseteq Int /\ IsFiniteSet(MatchingRows(r, relation)) /\ Cardinality(MatchingRows(r, relation)) \in Nat
<1>1. MatchingRows(r, relation) \subseteq 1..n
  BY DEF MatchingRows
<1>2. IsFiniteSet(1..n)
  BY FS_Interval
<1>3. IsFiniteSet(MatchingRows(r, relation))
  BY <1>1, <1>2, FS_Subset
<1>4. QED
  BY <1>1, <1>3, FS_CardinalityType

LEMMA TablesAreFinite ==
  ASSUME ProjectsInv, RowsInv, IndexInv, NEW r
  PROVE  /\ MatchingRows(r, TableOf(r)) \subseteq Int /\ IsFiniteSet(MatchingRows(r, TableOf(r)))
         /\ Cardinality(MatchingRows(r, TableOf(r))) \in Nat
         /\ MatchingRows(r, documents) \subseteq Int /\ IsFiniteSet(MatchingRows(r, documents))
         /\ Cardinality(MatchingRows(r, documents)) \in Nat
         /\ IsFiniteSet(MatchingRows(r, stored))
<1>1. handedOut.projects \in Nat /\ handedOut.issues \in Nat
  BY DEF ProjectsInv
<1>2. DOMAIN listed \subseteq 1..handedOut.projects /\ DOMAIN stored \subseteq 1..handedOut.issues
  BY DEF ProjectsInv, RowsInv
<1>3. DOMAIN documents \subseteq 1..handedOut.issues
  <2>1. ASSUME NEW i \in DOMAIN documents PROVE i \in 1..handedOut.issues
    <3>1. <<i, documents[i]>> \in everStored
      BY DEF IndexInv
    <3>2. <<i, documents[i]>>[1] \in 1..handedOut.issues
      BY <3>1 DEF RowsInv
    <3>3. QED
      BY <3>2
  <2>2. QED
    BY <2>1
<1>4. MatchingRows(r, listed) \subseteq Int /\ IsFiniteSet(MatchingRows(r, listed)) /\ Cardinality(MatchingRows(r, listed)) \in Nat
  BY <1>1, <1>2, MatchesAreFinite
<1>5. MatchingRows(r, stored) \subseteq Int /\ IsFiniteSet(MatchingRows(r, stored)) /\ Cardinality(MatchingRows(r, stored)) \in Nat
  BY <1>1, <1>2, MatchesAreFinite
<1>6. MatchingRows(r, documents) \subseteq Int /\ IsFiniteSet(MatchingRows(r, documents)) /\ Cardinality(MatchingRows(r, documents)) \in Nat
  BY <1>1, <1>3, MatchesAreFinite
<1>7. TableOf(r) = stored \/ TableOf(r) = listed
  BY DEF TableOf
<1>8. QED
  BY <1>4, <1>5, <1>6, <1>7

\* The hits of some ids are as many, one for each.
LEMMA HitsOfIds ==
  ASSUME NEW ids, IsFiniteSet(ids), NEW relation, NEW hits,
         \A h : h \in hits <=> \E i \in ids : h = <<i, relation[i]>>
  PROVE  /\ Cardinality(hits) = Cardinality(ids) /\ IsInjective([h \in hits |-> h[1]])
<1> DEFINE f == [i \in ids |-> <<i, relation[i]>>]
<1>1. f \in Bijection(ids, hits)
  <2>1. f \in [ids -> hits] /\ (\A i, k \in ids : f[i] = f[k] => i = k) /\ \A h \in hits : \E i \in ids : f[i] = h
    OBVIOUS
  <2> HIDE DEF f
  <2>2. QED
    BY <2>1 DEF Bijection, Injection, Surjection, IsInjective
<1>2. Cardinality(hits) = Cardinality(ids)
  <2> HIDE DEF f
  <2>1. QED
    BY <1>1, FS_Bijection DEF ExistsBijection
<1>3. \A g, h \in hits : g[1] = h[1] => g = h
  OBVIOUS
<1>4. QED
  BY <1>2, <1>3 DEF IsInjective

\* What a search is after some of its fields have changed.
LEMMA FieldsOfSearch ==
  ASSUME NEW s, SearchFields(s)
  PROVE  \E p, q, n, h, a, l, c, x :
            /\ p = s.pc /\ q = s.request /\ n = s.total /\ h = s.hits /\ a = s.facets /\ l = s.left /\ c = s.calm /\ x = s.cut
            /\ s = [pc |-> p, request |-> q, total |-> n, hits |-> h, facets |-> a, left |-> l, calm |-> c, cut |-> x]
BY DEF SearchFields

LEMMA StateChanged ==
  ASSUME NEW s, SearchFields(s), NEW pc
  PROVE  [s EXCEPT !.pc = pc] =
            [pc |-> pc, request |-> s.request, total |-> s.total, hits |-> s.hits,
             facets |-> s.facets, left |-> s.left, calm |-> s.calm, cut |-> s.cut]
<1>1. PICK p, q, n, h, a, l, c, x :
            /\ p = s.pc /\ q = s.request /\ n = s.total /\ h = s.hits /\ a = s.facets /\ l = s.left /\ c = s.calm /\ x = s.cut
            /\ s = [pc |-> p, request |-> q, total |-> n, hits |-> h, facets |-> a, left |-> l, calm |-> c, cut |-> x]
  BY FieldsOfSearch
<1> DEFINE s1 == [s EXCEPT !.pc = pc]
<1>2. s1 = [pc |-> pc, request |-> q, total |-> n, hits |-> h, facets |-> a, left |-> l, calm |-> c, cut |-> x]
  BY ONLY <1>1
<1> HIDE DEF s1
<1>3. [s EXCEPT !.pc = pc] = s1
  BY DEF s1
<1>4. QED
  BY <1>1, <1>2, <1>3

LEMMA TotalChanged ==
  ASSUME NEW s, SearchFields(s), NEW pc, NEW total
  PROVE  [s EXCEPT !.pc = pc, !.total = total] =
            [pc |-> pc, request |-> s.request, total |-> total, hits |-> s.hits,
             facets |-> s.facets, left |-> s.left, calm |-> s.calm, cut |-> s.cut]
<1>1. PICK p, q, n, h, a, l, c, x :
            /\ p = s.pc /\ q = s.request /\ n = s.total /\ h = s.hits /\ a = s.facets /\ l = s.left /\ c = s.calm /\ x = s.cut
            /\ s = [pc |-> p, request |-> q, total |-> n, hits |-> h, facets |-> a, left |-> l, calm |-> c, cut |-> x]
  BY FieldsOfSearch
<1> DEFINE s1 == [s EXCEPT !.pc = pc]
<1>2. s1 = [pc |-> pc, request |-> q, total |-> n, hits |-> h, facets |-> a, left |-> l, calm |-> c, cut |-> x]
  BY ONLY <1>1
<1> HIDE DEF s1
<1> DEFINE s2 == [s1 EXCEPT !.total = total]
<1>3. s2 = [pc |-> pc, request |-> q, total |-> total, hits |-> h, facets |-> a, left |-> l, calm |-> c, cut |-> x]
  BY ONLY <1>2
<1> HIDE DEF s2
<1>4. [s EXCEPT !.pc = pc, !.total = total] = s2
  BY DEF s1, s2
<1>5. QED
  BY <1>1, <1>3, <1>4

\* A search with the hits of its page.
WithPage(s, hits1, cut1, pc1, left1) == [s EXCEPT !.hits = hits1, !.cut = cut1, !.pc = pc1, !.left = left1]
LEMMA HitsChanged ==
  ASSUME NEW s, SearchFields(s), NEW hits1, NEW cut1, NEW pc1, NEW left1
  PROVE  WithPage(s, hits1, cut1, pc1, left1) =
            [pc |-> pc1, request |-> s.request, total |-> s.total, hits |-> hits1,
             facets |-> s.facets, left |-> left1, calm |-> s.calm, cut |-> cut1]
<1>1. PICK p, q, n, h, a, l, c, x :
            /\ p = s.pc /\ q = s.request /\ n = s.total /\ h = s.hits /\ a = s.facets /\ l = s.left /\ c = s.calm /\ x = s.cut
            /\ s = [pc |-> p, request |-> q, total |-> n, hits |-> h, facets |-> a, left |-> l, calm |-> c, cut |-> x]
  BY FieldsOfSearch
<1> DEFINE s1 == [s EXCEPT !.hits = hits1]
<1>2. s1 = [pc |-> p, request |-> q, total |-> n, hits |-> hits1, facets |-> a, left |-> l, calm |-> c, cut |-> x]
  BY ONLY <1>1
<1> HIDE DEF s1
<1> DEFINE s2 == [s1 EXCEPT !.cut = cut1]
<1>3. s2 = [pc |-> p, request |-> q, total |-> n, hits |-> hits1, facets |-> a, left |-> l, calm |-> c, cut |-> cut1]
  BY ONLY <1>2
<1> HIDE DEF s2
<1> DEFINE s3 == [s2 EXCEPT !.pc = pc1]
<1>4. s3 = [pc |-> pc1, request |-> q, total |-> n, hits |-> hits1, facets |-> a, left |-> l, calm |-> c, cut |-> cut1]
  BY ONLY <1>3
<1> HIDE DEF s3
<1> DEFINE s4 == [s3 EXCEPT !.left = left1]
<1>5. s4 = [pc |-> pc1, request |-> q, total |-> n, hits |-> hits1, facets |-> a, left |-> left1, calm |-> c, cut |-> cut1]
  BY ONLY <1>4
<1> HIDE DEF s4
<1>6. WithPage(s, hits1, cut1, pc1, left1) = s4
  BY DEF WithPage, s1, s2, s3, s4
<1>7. QED
  BY <1>1, <1>5, <1>6

LEMMA FacetsChanged ==
  ASSUME NEW s, SearchFields(s), NEW facets, NEW cut, NEW left, NEW pc
  PROVE  [s EXCEPT !.facets = facets, !.cut = cut, !.left = left, !.pc = pc] =
            [pc |-> pc, request |-> s.request, total |-> s.total, hits |-> s.hits,
             facets |-> facets, left |-> left, calm |-> s.calm, cut |-> cut]
<1>1. PICK p, q, n, h, a, l, c, x :
            /\ p = s.pc /\ q = s.request /\ n = s.total /\ h = s.hits /\ a = s.facets /\ l = s.left /\ c = s.calm /\ x = s.cut
            /\ s = [pc |-> p, request |-> q, total |-> n, hits |-> h, facets |-> a, left |-> l, calm |-> c, cut |-> x]
  BY FieldsOfSearch
<1> DEFINE s1 == [s EXCEPT !.facets = facets]
<1>2. s1 = [pc |-> p, request |-> q, total |-> n, hits |-> h, facets |-> facets, left |-> l, calm |-> c, cut |-> x]
  BY ONLY <1>1
<1> HIDE DEF s1
<1> DEFINE s2 == [s1 EXCEPT !.cut = cut]
<1>3. s2 = [pc |-> p, request |-> q, total |-> n, hits |-> h, facets |-> facets, left |-> l, calm |-> c, cut |-> cut]
  BY ONLY <1>2
<1> HIDE DEF s2
<1> DEFINE s3 == [s2 EXCEPT !.left = left]
<1>4. s3 = [pc |-> p, request |-> q, total |-> n, hits |-> h, facets |-> facets, left |-> left, calm |-> c, cut |-> cut]
  BY ONLY <1>3
<1> HIDE DEF s3
<1> DEFINE s4 == [s3 EXCEPT !.pc = pc]
<1>5. s4 = [pc |-> pc, request |-> q, total |-> n, hits |-> h, facets |-> facets, left |-> left, calm |-> c, cut |-> cut]
  BY ONLY <1>4
<1> HIDE DEF s4
<1>6. [s EXCEPT !.facets = facets, !.cut = cut, !.left = left, !.pc = pc] = s4
  BY DEF s1, s2, s3, s4
<1>7. QED
  BY <1>1, <1>5, <1>6

LEMMA ResultChanged ==
  ASSUME NEW s, SearchFields(s), NEW pc, NEW total, NEW hits, NEW facets
  PROVE  [s EXCEPT !.pc = pc, !.total = total, !.hits = hits, !.facets = facets] =
            [pc |-> pc, request |-> s.request, total |-> total, hits |-> hits,
             facets |-> facets, left |-> s.left, calm |-> s.calm, cut |-> s.cut]
<1>1. PICK p, q, n, h, a, l, c, x :
            /\ p = s.pc /\ q = s.request /\ n = s.total /\ h = s.hits /\ a = s.facets /\ l = s.left /\ c = s.calm /\ x = s.cut
            /\ s = [pc |-> p, request |-> q, total |-> n, hits |-> h, facets |-> a, left |-> l, calm |-> c, cut |-> x]
  BY FieldsOfSearch
<1> DEFINE s1 == [s EXCEPT !.pc = pc]
<1>2. s1 = [pc |-> pc, request |-> q, total |-> n, hits |-> h, facets |-> a, left |-> l, calm |-> c, cut |-> x]
  BY ONLY <1>1
<1> HIDE DEF s1
<1> DEFINE s2 == [s1 EXCEPT !.total = total]
<1>3. s2 = [pc |-> pc, request |-> q, total |-> total, hits |-> h, facets |-> a, left |-> l, calm |-> c, cut |-> x]
  BY ONLY <1>2
<1> HIDE DEF s2
<1> DEFINE s3 == [s2 EXCEPT !.hits = hits]
<1>4. s3 = [pc |-> pc, request |-> q, total |-> total, hits |-> hits, facets |-> a, left |-> l, calm |-> c, cut |-> x]
  BY ONLY <1>3
<1> HIDE DEF s3
<1> DEFINE s4 == [s3 EXCEPT !.facets = facets]
<1>5. s4 = [pc |-> pc, request |-> q, total |-> total, hits |-> hits, facets |-> facets, left |-> l, calm |-> c, cut |-> x]
  BY ONLY <1>4
<1> HIDE DEF s4
<1>6. [s EXCEPT !.pc = pc, !.total = total, !.hits = hits, !.facets = facets] = s4
  BY DEF s1, s2, s3, s4
<1>7. QED
  BY <1>1, <1>5, <1>6

LEMMA SearchBegins ==
  ASSUME FindersInv, NEW f \in Finders, NEW r \in Requests, BeginSearch(f, r)
  PROVE  FindersInv'
<1> DEFINE t == [pc |-> "ask", request |-> r, total |-> 0, hits |-> {}, facets |-> <<>>, left |-> <<>>,
                 calm |-> TRUE, cut |-> {}]
<1>1. SearchSound(t)
  BY DEF SearchSound, SearchFields
<1>2. finder' = [finder EXCEPT ![f] = t] /\ OnlyFinder
  BY DEF BeginSearch, OnlyFinder
<1> HIDE DEF t
<1>3. QED
  BY <1>1, <1>2, FinderMoves

LEMMA SearchEnds ==
  ASSUME FindersInv, NEW f \in Finders, SearchFails(f)
  PROVE  FindersInv'
<1> DEFINE s == finder[f]
           t == [s EXCEPT !.pc = "failed"]
<1>1. SearchSound(s)
  BY DEF SearchFails, FindersInv, Idle
<1> HIDE DEF s
<1>2. t = [pc |-> "failed", request |-> s.request, total |-> s.total, hits |-> s.hits, facets |-> s.facets,
           left |-> s.left, calm |-> s.calm, cut |-> s.cut]
  BY <1>1, StateChanged DEF SearchSound
<1>3. SearchSound(t)
  <2>1. s.request \in Requests
    BY <1>1 DEF SearchSound
  <2> HIDE DEF t
  <2>2. QED
    BY <1>2, <2>1 DEF SearchSound, SearchFields
<1>4. finder' = [finder EXCEPT ![f] = t] /\ OnlyFinder
  BY DEF SearchFails, s
<1> HIDE DEF t
<1>5. QED
  BY <1>3, <1>4, FinderMoves

LEMMA TotalIsCounted ==
  ASSUME FindersInv, NEW f \in Finders, CountStatement(f)
  PROVE  FindersInv'
<1> DEFINE s == finder[f]
           r == s.request
           n == Cardinality(MatchingRows(r, TableOf(r)))
           found == [s EXCEPT !.pc = "page", !.total = n]
           none == [s EXCEPT !.pc = "failed"]
<1>1. SearchSound(s) /\ s.pc = "ask" /\ InTables(r)
  BY DEF CountStatement, FindersInv, Idle
<1> HIDE DEF s
<1>2. SearchFields(s) /\ r \in Requests /\ s.facets = <<>>
  BY <1>1 DEF SearchSound
<1>3. found = [pc |-> "page", request |-> r, total |-> n, hits |-> s.hits, facets |-> s.facets,
               left |-> s.left, calm |-> s.calm, cut |-> s.cut]
      /\ none = [pc |-> "failed", request |-> r, total |-> s.total, hits |-> s.hits, facets |-> s.facets,
                 left |-> s.left, calm |-> s.calm, cut |-> s.cut]
  BY <1>2, StateChanged, TotalChanged
<1>4. finder' = [finder EXCEPT ![f] = found] \/ finder' = [finder EXCEPT ![f] = none]
  BY DEF CountStatement, s
<1>5. OnlyFinder
  BY DEF CountStatement
<1> HIDE DEF found, none
<1>6. SearchSound(none)
  BY <1>2, <1>3 DEF SearchSound, SearchFields
<1>7. SearchSound(found)
  BY <1>1, <1>2, <1>3 DEF SearchSound, SearchFields
<1>8. QED
  BY <1>4, <1>5, <1>6, <1>7, FinderMoves

\* The rows of a page that are shown fit the request, and are the page unless it was cut.
LEMMA HitsOfPage ==
  ASSUME ProjectsInv, RowsInv, IndexInv, NEW r \in Requests, NEW cut \in BOOLEAN,
         NEW visible, visible \subseteq PageOf(r, MatchingRows(r, TableOf(r))),
         ~cut => visible = PageOf(r, MatchingRows(r, TableOf(r))),
         NEW t, t.request = r, t.cut = IF cut THEN {"page"} ELSE {},
         \A h : h \in t.hits <=> \E i \in visible : h = <<i, TableOf(r)[i]>>
  PROVE  /\ HitsFit(t)
         /\ t.total = Cardinality(MatchingRows(r, TableOf(r))) => HitsAreThePage(t)
<1>a. PICK relation : relation = TableOf(r)
  OBVIOUS
<1>b. PICK page : page = PageOf(r, MatchingRows(r, relation))
  OBVIOUS
<1> DEFINE ids == MatchingRows(r, relation)
<1>1. ids \subseteq Int /\ IsFiniteSet(ids) /\ Cardinality(ids) \in Nat
  BY <1>a, TablesAreFinite
<1>2. r.limit \in Nat \ {0} /\ r.offset \in Nat
  BY RequestAssumption
<1>3. /\ page \subseteq ids /\ IsFiniteSet(page)
      /\ Cardinality(page) = SliceSize(Cardinality(ids), r) /\ Cardinality(page) <= r.limit
  BY <1>b, <1>1, <1>2, PageSize DEF SliceSize
<1>4. visible \subseteq page /\ (~cut => visible = page)
  BY <1>a, <1>b
<1>5. IsFiniteSet(visible) /\ Cardinality(visible) <= Cardinality(page)
  BY <1>3, <1>4, FS_Subset
<1>6. Cardinality(t.hits) = Cardinality(visible) /\ IsInjective([h \in t.hits |-> h[1]])
  <2>1. PICK hs : hs = t.hits
    OBVIOUS
  <2>2. \A h : h \in hs <=> \E i \in visible : h = <<i, relation[i]>>
    BY <1>a, <2>1
  <2>3. Cardinality(hs) = Cardinality(visible) /\ IsInjective([h \in hs |-> h[1]])
    BY <1>5, <2>2, HitsOfIds
  <2>4. QED
    BY <2>1, <2>3
<1>7. \A i \in visible : i \in DOMAIN relation /\ Fits(r, relation[i])
  BY <1>3, <1>4 DEF MatchingRows
<1>8. \A h \in t.hits : Fits(r, h[2]) /\ (r.index = "issues" => h \in everStored)
  <2> TAKE h \in t.hits
  <2>1. PICK i \in visible : h = <<i, relation[i]>>
    BY <1>a
  <2>2. i \in DOMAIN relation /\ Fits(r, relation[i])
    BY <1>7
  <2>3. r.index = "issues" => <<i, relation[i]>> \in everStored
    BY <1>a, <2>2 DEF TableOf, RowsInv
  <2>4. QED
    BY <2>1, <2>2, <2>3
<1>9. Cardinality(t.hits) <= r.limit
  <2>1. Cardinality(visible) \in Nat /\ Cardinality(page) \in Nat
    BY <1>3, <1>5, FS_CardinalityType
  <2>2. QED
    BY <1>2, <1>3, <1>5, <1>6, <2>1
<1>10. HitsFit(t)
  BY <1>6, <1>8, <1>9 DEF HitsFit
<1>11. ASSUME t.total = Cardinality(ids) PROVE HitsAreThePage(t)
  <2>1. "page" \in t.cut \/ Cardinality(t.hits) = SliceSize(t.total, r)
    BY <1>3, <1>4, <1>6, <1>11
  <2>2. ASSUME NEW h \in t.hits PROVE Cardinality({i \in ids : i > h[1]}) >= r.offset
    <3>1. PICK i \in visible : h = <<i, relation[i]>>
      BY <1>a
    <3>2. i \in PageOf(r, ids)
      BY <1>b, <1>4
    <3>3. Cardinality({j \in ids : j > i}) \in r.offset..(r.offset + r.limit - 1)
      BY <3>2 DEF PageOf
    <3>4. h[1] = i
      BY <3>1
    <3> HIDE DEF ids
    <3>5. Cardinality({j \in ids : j > i}) >= r.offset
      BY <3>3, <1>2
    <3>6. QED
      BY <3>4, <3>5
  <2>3. QED
    BY <1>a, <2>1, <2>2 DEF HitsAreThePage
<1>12. QED
  BY <1>a, <1>10, <1>11

LEMMA PageIsRead ==
  ASSUME ProjectsInv, RowsInv, IndexInv, FindersInv, NEW f \in Finders, NEW cut \in BOOLEAN, PageStatement(f, cut)
  PROVE  FindersInv'
<1> DEFINE s == finder[f]
           r == s.request
           relation == TableOf(r)
           page == PageOf(r, MatchingRows(r, relation))
           pc == IF r.index = "issues" THEN "facets" ELSE "answered"
           part == IF cut THEN {"page"} ELSE {}
<1>1. SearchSound(s) /\ s.pc = "page" /\ OnlyFinder
  BY DEF PageStatement, FindersInv, Idle
<1>2. PICK visible :
         /\ visible \in IF cut THEN {{i \in page : i > lost} : lost \in page} ELSE {page}
         /\ finder' = [finder EXCEPT ![f] =
                [@ EXCEPT !.hits = {<<i, relation[i]>> : i \in visible}, !.cut = part, !.pc = pc, !.left = FacetFields]]
  BY DEF PageStatement
<1> DEFINE hits == {<<i, relation[i]>> : i \in visible}
           t == [s EXCEPT !.hits = hits, !.cut = part, !.pc = pc, !.left = FacetFields]
<1>3. finder' = [finder EXCEPT ![f] = t]
  BY <1>2
<1> HIDE DEF s
<1>4. SearchFields(s) /\ r \in Requests /\ s.facets = <<>> /\ InTables(r)
      /\ (s.calm => s.total = Cardinality(MatchingRows(r, relation)))
  BY <1>1 DEF SearchSound
<1>5. t = [pc |-> pc, request |-> r, total |-> s.total, hits |-> hits, facets |-> <<>>,
           left |-> FacetFields, calm |-> s.calm, cut |-> part]
  <2> HIDE DEF pc, hits, part, r
  <2>1. t = [pc |-> pc, request |-> s.request, total |-> s.total, hits |-> hits, facets |-> s.facets,
             left |-> FacetFields, calm |-> s.calm, cut |-> part]
    <3>1. t = WithPage(s, hits, part, pc, FacetFields)
      BY DEF WithPage
    <3> HIDE DEF t, r, relation, page
    <3>2. QED
      BY ONLY <1>4, <3>1, HitsChanged
  <2>2. QED
    BY <1>4, <2>1 DEF r
<1> HIDE DEF t
<1>6. /\ t.pc = pc /\ t.request = r /\ t.total = s.total /\ t.hits = hits /\ t.facets = <<>> /\ t.calm = s.calm
      /\ t.cut = part /\ SearchFields(t)
  <2> HIDE DEF pc, hits, part
  <2>1. QED
    BY <1>5 DEF SearchFields
<1>7. HitsFit(t) /\ (t.calm => HitsAreThePage(t))
  <2>2. HitsFit(t) /\ (t.total = Cardinality(MatchingRows(r, TableOf(r))) => HitsAreThePage(t))
    <3>1. visible \subseteq page /\ (~cut => visible = page)
      BY <1>2
    <3>2. r \in Requests /\ t.request = r /\ (\A h : h \in t.hits <=> \E i \in visible : h = <<i, TableOf(r)[i]>>)
          /\ t.cut = IF cut THEN {"page"} ELSE {}
      BY <1>4, <1>6
    <3> HIDE DEF r
    <3>3. QED
      BY <3>1, <3>2, HitsOfPage
  <2>3. QED
    BY <1>4, <1>6, <2>2
<1>8. FacetsAddUp(t)
  BY <1>6 DEF FacetsAddUp
<1>9. pc \in {"facets", "answered"} /\ (pc = "facets" => r.index = "issues")
  OBVIOUS
<1> HIDE DEF pc, hits, part, page
<1>10. SearchSound(t)
  BY <1>4, <1>6, <1>7, <1>8, <1>9 DEF SearchSound
<1>11. QED
  BY <1>1, <1>3, <1>10, FinderMoves

\* A facet of a table adds up to the rows that match.
LEMMA FacetAddsUp ==
  ASSUME NEW r, NEW facet, NEW relation, IsFiniteSet(MatchingRows(r, relation))
  PROVE  SumOf(CountBy(r, facet, relation)) = Cardinality(MatchingRows(r, relation))
<1> DEFINE M == MatchingRows(r, relation)
           of == [i \in M |-> relation[i][facet]]
           tally == CountBy(r, facet, relation)
<1>1. tally = [v \in {relation[i][facet] : i \in M} |-> Cardinality({i \in M : relation[i][facet] = v})]
  BY DEF CountBy
<1>2. \A i \in M : of[i] = relation[i][facet]
  OBVIOUS
<1> HIDE DEF of, tally, M
<1>3. {of[i] : i \in M} = {relation[i][facet] : i \in M} /\ \A v : {i \in M : of[i] = v} = {i \in M : relation[i][facet] = v}
  BY <1>2
<1>4. tally = [v \in {of[i] : i \in M} |-> Cardinality({i \in M : of[i] = v})]
  BY <1>1, <1>3
<1>5. IsFiniteSet(M)
  BY DEF M
<1>6. SumOf(tally) = Cardinality(M)
  <2>1. Cardinality(PairsOf(tally)) = Cardinality(M)
    BY <1>4, <1>5, GroupsAddUp
  <2>2. SumOf(tally) = Cardinality(PairsOf(tally))
    BY DEF SumOf, PairsOf
  <2>3. QED
    BY <2>1, <2>2
<1>7. QED
  BY <1>6 DEF tally, M

LEMMA FacetIsRead ==
  ASSUME ProjectsInv, RowsInv, IndexInv, FindersInv, NEW f \in Finders, NEW fate \in {"whole", "cut", "failed"},
         FacetStatement(f, fate)
  PROVE  FindersInv'
<1> DEFINE s == finder[f]
           r == s.request
           facet == Head(s.left)
           tally == CountBy(r, facet, stored)
           part == IF fate = "cut" THEN s.cut \cup {facet} ELSE s.cut
           left == Tail(s.left)
           pc == IF Len(s.left) = 1 THEN "answered" ELSE "facets"
<1>1. SearchSound(s) /\ s.pc = "facets" /\ OnlyFinder
  BY DEF FacetStatement, FindersInv, Idle
<1>2. PICK visible \in IF fate = "cut" THEN SUBSET DOMAIN tally \ {DOMAIN tally} ELSE {DOMAIN tally} :
         finder' = [finder EXCEPT ![f] =
             [s EXCEPT !.facets = [a \in DOMAIN s.facets \cup (IF fate = "failed" THEN {} ELSE {facet}) |->
                                      IF a = facet THEN [v \in visible |-> tally[v]] ELSE s.facets[a]],
                       !.cut = part, !.left = left, !.pc = pc]]
  BY DEF FacetStatement
<1> DEFINE facets == [a \in DOMAIN s.facets \cup (IF fate = "failed" THEN {} ELSE {facet}) |->
                         IF a = facet THEN [v \in visible |-> tally[v]] ELSE s.facets[a]]
           t == [s EXCEPT !.facets = facets, !.cut = part, !.left = left, !.pc = pc]
<1>3. finder' = [finder EXCEPT ![f] = t]
  BY <1>2
<1>4. SearchFields(s) /\ r \in Requests /\ InTables(r) /\ r.index = "issues"
      /\ HitsFit(s) /\ (s.calm => HitsAreThePage(s) /\ FacetsAddUp(s) /\ s.total = Cardinality(MatchingRows(r, stored)))
  BY <1>1 DEF SearchSound, TableOf
<1> HIDE DEF s
<1>5. t = [pc |-> pc, request |-> r, total |-> s.total, hits |-> s.hits, facets |-> facets,
           left |-> left, calm |-> s.calm, cut |-> part]
  <2> HIDE DEF pc, facets, part, left
  <2>1. t = [s EXCEPT !.facets = facets, !.cut = part, !.left = left, !.pc = pc]
    OBVIOUS
  <2> HIDE DEF t, r
  <2>2. t = [pc |-> pc, request |-> s.request, total |-> s.total, hits |-> s.hits, facets |-> facets,
             left |-> left, calm |-> s.calm, cut |-> part]
    BY <1>4, <2>1, FacetsChanged
  <2>3. QED
    BY <2>2 DEF r
<1> HIDE DEF t
<1>6. /\ t.pc = pc /\ t.request = r /\ t.total = s.total /\ t.hits = s.hits /\ t.facets = facets /\ t.calm = s.calm
      /\ t.cut = part /\ SearchFields(t)
  <2> HIDE DEF pc, facets, part, left
  <2>1. QED
    BY <1>5 DEF SearchFields
<1>7. s.cut \subseteq part /\ pc \in {"facets", "answered"}
  OBVIOUS
<1>8. HitsFit(t)
  BY <1>4, <1>6 DEF HitsFit
<1>9. "page" \in s.cut => "page" \in t.cut
  BY <1>6, <1>7
<1>10. HitsAreThePage(s) => HitsAreThePage(t)
  BY <1>6, <1>9 DEF HitsAreThePage
<1>11. ASSUME s.calm PROVE FacetsAddUp(t)
  <2> SUFFICES ASSUME NEW a \in DOMAIN facets \ part PROVE s.total = SumOf(facets[a])
    BY <1>6 DEF FacetsAddUp
  <2>1. CASE a = facet
    <3>0. fate # "cut"
      BY <2>1
    <3>1. visible = DOMAIN tally
      BY <1>2, <3>0
    <3>2. tally = [v \in DOMAIN tally |-> tally[v]]
      BY DEF CountBy
    <3>3. facets[a] = tally
      <4> HIDE DEF tally
      <4>1. facets[a] = [v \in visible |-> tally[v]]
        BY <2>1
      <4>2. QED
        BY <3>1, <3>2, <4>1
    <3>4. SumOf(tally) = Cardinality(MatchingRows(r, stored))
      BY TablesAreFinite, FacetAddsUp
    <3>5. QED
      BY <1>4, <1>11, <3>3, <3>4
  <2>2. CASE a # facet
    <3>1. a \in DOMAIN s.facets \ s.cut /\ facets[a] = s.facets[a]
      BY <1>7, <2>2
    <3>2. QED
      BY <1>4, <1>11, <3>1 DEF FacetsAddUp
  <2>3. QED
    BY <2>1, <2>2
<1> HIDE DEF pc, facets, part, left
<1>12. SearchSound(t)
  BY <1>4, <1>6, <1>7, <1>8, <1>10, <1>11 DEF SearchSound, TableOf
<1>13. QED
  BY <1>1, <1>3, <1>12, FinderMoves

LEMMA ZincAnswers ==
  ASSUME ProjectsInv, RowsInv, IndexInv, FindersInv, NEW f \in Finders, ZincSearch(f)
  PROVE  FindersInv'
<1> DEFINE s == finder[f]
           r == s.request
           found == ZincFinds(r)
<1>1. SearchSound(s) /\ s.pc = "ask" /\ ~InTables(r) /\ OnlyFinder
  BY DEF ZincSearch, FindersInv, Idle
<1>2. PICK page \in ZincPages(r) : finder' = [finder EXCEPT ![f] = ZincResult(@, page)]
  BY DEF ZincSearch
<1> DEFINE t == ZincResult(s, page)
           n == Cardinality(found)
           hits == {<<i, documents[i]>> : i \in page}
           facets == IF found = {} THEN <<>> ELSE [a \in ToSet(FacetFields) |-> CountBy(r, a, documents)]
<1>3. finder' = [finder EXCEPT ![f] = t]
  BY <1>2
<1> HIDE DEF s
<1>4. SearchFields(s) /\ r \in Requests
  BY <1>1 DEF SearchSound
<1>5. t = [pc |-> "answered", request |-> r, total |-> n, hits |-> hits, facets |-> facets,
           left |-> s.left, calm |-> s.calm, cut |-> s.cut]
  <2>1. t = [s EXCEPT !.pc = "answered", !.total = n, !.hits = hits, !.facets = facets]
    BY DEF ZincResult
  <2> HIDE DEF n, hits, facets, t
  <2>2. QED
    BY <1>4, <2>1, ResultChanged
<1> HIDE DEF t
<1>6. /\ t.pc = "answered" /\ t.request = r /\ t.total = n /\ t.hits = hits /\ t.facets = facets /\ SearchFields(t)
  <2> HIDE DEF n, hits, facets
  <2>1. QED
    BY <1>5 DEF SearchFields
<1>7. IsFiniteSet(found) /\ n \in Nat
  BY TablesAreFinite, FS_EmptySet DEF ZincFinds
<1>8. r.limit \in Nat \ {0} /\ r.offset \in Nat
  BY <1>4, RequestAssumption
<1>9. page \subseteq found /\ Cardinality(page) = SliceSize(n, r)
  BY <1>2 DEF ZincPages, kSubset, SliceSize
<1> HIDE DEF n
<1>10. SliceSize(n, r) <= r.limit
  <2> DEFINE l == r.limit
             o == r.offset
  <2>1. SliceSize(n, r) = IF n <= o THEN 0 ELSE IF n - o <= l THEN n - o ELSE l
    BY <1>7, <1>8, SliceIsNumber DEF SliceSize
  <2>2. l \in Nat /\ o \in Nat
    BY <1>8
  <2> HIDE DEF l, o
  <2>3. SliceSize(n, r) <= l
    BY <1>7, <2>1, <2>2
  <2>4. QED
    BY <2>3 DEF l
<1>11. IsFiniteSet(page)
  BY <1>7, <1>9, FS_Subset
<1>12. Cardinality(hits) = Cardinality(page) /\ IsInjective([h \in hits |-> h[1]])
  <2>1. PICK hs : hs = hits
    OBVIOUS
  <2>2. PICK relation : relation = documents
    OBVIOUS
  <2>3. \A h : h \in hs <=> \E i \in page : h = <<i, relation[i]>>
    BY <2>1, <2>2
  <2>4. Cardinality(hs) = Cardinality(page) /\ IsInjective([h \in hs |-> h[1]])
    BY <1>11, <2>3, HitsOfIds
  <2>5. QED
    BY <2>1, <2>4
<1>13. \A h \in hits : Fits(r, h[2]) /\ h \in everStored
  <2> TAKE h \in hits
  <2>1. PICK i \in page : h = <<i, documents[i]>>
    OBVIOUS
  <2>2. i \in DOMAIN documents /\ Fits(r, documents[i])
    BY <1>9 DEF ZincFinds, MatchingRows
  <2>3. QED
    BY <2>1, <2>2 DEF IndexInv
<1>14. HitsFit(t)
  BY <1>6, <1>9, <1>10, <1>12, <1>13 DEF HitsFit
<1>15. HitsAreThePage(t)
  BY <1>1, <1>6, <1>9, <1>12 DEF HitsAreThePage
<1>16. FacetsAddUp(t)
  <2> SUFFICES ASSUME NEW a \in DOMAIN facets PROVE n = SumOf(facets[a])
    BY <1>6 DEF FacetsAddUp
  <2>1. found # {}
    OBVIOUS
  <2>2. facets[a] = CountBy(r, a, documents) /\ found = MatchingRows(r, documents)
    BY <2>1 DEF ZincFinds
  <2>3. SumOf(CountBy(r, a, documents)) = Cardinality(MatchingRows(r, documents))
    BY TablesAreFinite, FacetAddsUp
  <2>4. QED
    BY <2>2, <2>3 DEF n
<1> HIDE DEF hits, facets, found
<1>17. SearchSound(t)
  BY <1>1, <1>4, <1>6, <1>14, <1>15, <1>16 DEF SearchSound
<1>18. QED
  BY <1>1, <1>3, <1>17, FinderMoves

CatalogueInv == ProjectsInv /\ RowsInv /\ IndexInv /\ EditsInv /\ FindersInv

LEMMA CatalogueAtFirst == SearchInit => CatalogueInv
<1> SUFFICES ASSUME SearchInit PROVE CatalogueInv
  OBVIOUS
<1> DEFINE none == <<>>
<1>1. DOMAIN none = {}
  OBVIOUS
<1> HIDE DEF none
<1>2. /\ listed = none /\ analysed = none /\ stored = none /\ documents = none /\ indexing = NoPage /\ NoPage.rows = none
      /\ handedOut = [projects |-> 0, scans |-> 0, issues |-> 0] /\ everStored = {} /\ contested = {}
      /\ editor = [e \in Editors |-> Idle] /\ finder = [f \in Finders |-> Idle] /\ asked = [k \in ProjectKeys |-> Gone]
  BY DEF SearchInit, NoPage, none
<1>3. ProjectsInv /\ RowsInv
  BY <1>1, <1>2 DEF ProjectsInv, RowsInv
<1>4. IndexInv
  BY <1>1, <1>2 DEF IndexInv
<1>5. EditsInv
  <2>1. asked \in [ProjectKeys -> AskedFields] /\ \A k \in ProjectKeys : asked[k].there = FALSE
    BY <1>2 DEF AskedFields, Gone
  <2>2. \A k : IdsOf(k) = {}
    BY <1>1, <1>2 DEF IdsOf
  <2>3. EditsAreKept
    BY <2>1, <2>2 DEF EditsAreKept
  <2>4. QED
    BY <1>2, <2>1, <2>3 DEF EditsInv
<1>6. FindersInv
  BY <1>2 DEF FindersInv
<1>7. QED
  BY <1>3, <1>4, <1>5, <1>6 DEF CatalogueInv

\* Writing a whole project keeps everything but the searches, which it disturbs.
LEMMA CreateKeeps ==
  ASSUME CatalogueInv, NEW key \in ProjectKeys, NEW name \in Names, NEW branch \in MainNames, CreateProject(key, name, branch)
  PROVE  CatalogueInv'
<1> DEFINE project == [key |-> key, name |-> name, branch |-> branch]
<1> USE DEF CatalogueInv
<1>1. /\ WrittenWhole(project) /\ handedOut' = IdAfterUpsert
      /\ UNCHANGED <<backend, analysed, stored, documents, indexing, everStored>>
  BY DEF CreateProject
<1>2. project \in ProjectRows
  BY DEF ProjectRows
<1> HIDE DEF project
<1>3. listed' = Upsert(project) /\ Disturb
  BY <1>1 DEF WrittenWhole
<1>4. /\ handedOut' \in [projects : Nat, scans : Nat, issues : Nat] /\ handedOut.projects <= handedOut'.projects
      /\ handedOut'.scans = handedOut.scans /\ handedOut'.issues = handedOut.issues /\ handedOut.scans \in Nat
  <2>1. handedOut.projects \in Nat /\ handedOut.scans \in Nat
    BY DEF ProjectsInv
  <2>2. /\ handedOut' \in [projects : handedOut.projects..(handedOut.projects + 1), scans : Nat, issues : Nat]
        /\ handedOut'.scans = handedOut.scans /\ handedOut'.issues = handedOut.issues
    BY <1>1, <1>2, <1>3, IdsHandedOut
  <2>3. QED
    BY <2>1, <2>2
<1>5. ProjectsInv'
  BY <1>1, <1>2, <1>3, <1>4, ProjectsWritten
<1>6. DOMAIN listed \subseteq DOMAIN listed'
  BY <1>2, <1>3, RowsOfOthers
<1>7. RowsInv'
  BY <1>1, <1>4, <1>6, RowsOfWritten
<1>8. IndexInv'
  BY <1>1, <1>4, IndexRests
<1>9. EditsInv'
  BY <1>1, <1>2, <1>4, EditsOfWhole
<1>10. FindersInv'
  BY <1>1, <1>3, FindersDisturbed
<1>11. QED
  BY <1>5, <1>7, <1>8, <1>9, <1>10

LEMMA UpdateKeeps ==
  ASSUME CatalogueInv, NEW e \in Editors, FinishUpdate(e)
  PROVE  CatalogueInv'
<1> DEFINE project == Changed(editor[e].project, editor[e].change)
<1> USE DEF CatalogueInv
<1>1. /\ listed' = Upsert(project) /\ handedOut' = IdAfterUpsert /\ Disturb
      /\ UNCHANGED <<backend, analysed, stored, documents, indexing, everStored>>
  BY DEF FinishUpdate
<1>2. project \in ProjectRows
  <2>1. IsUpdate(editor[e])
    BY DEF FinishUpdate, EditsInv, Idle, IsDelete
  <2>2. editor[e].project \in ProjectRows /\ editor[e].change \in Changes
    BY <2>1 DEF IsUpdate
  <2>3. QED
    BY <2>2, ChangedRow
<1> HIDE DEF project
<1>3. /\ handedOut' \in [projects : Nat, scans : Nat, issues : Nat] /\ handedOut.projects <= handedOut'.projects
      /\ handedOut'.scans = handedOut.scans /\ handedOut'.issues = handedOut.issues /\ handedOut.scans \in Nat
  <2>1. handedOut.projects \in Nat /\ handedOut.scans \in Nat
    BY DEF ProjectsInv
  <2>2. /\ handedOut' \in [projects : handedOut.projects..(handedOut.projects + 1), scans : Nat, issues : Nat]
        /\ handedOut'.scans = handedOut.scans /\ handedOut'.issues = handedOut.issues
    BY <1>1, <1>2, IdsHandedOut
  <2>3. QED
    BY <2>1, <2>2
<1>4. ProjectsInv'
  BY <1>1, <1>2, <1>3, ProjectsWritten
<1>5. DOMAIN listed \subseteq DOMAIN listed'
  BY <1>1, <1>2, RowsOfOthers
<1>6. RowsInv'
  BY <1>1, <1>3, <1>5, RowsOfWritten
<1>7. IndexInv'
  BY <1>1, <1>3, IndexRests
<1>8. EditsInv'
  BY <1>3, EditsOfUpdate
<1>9. FindersInv'
  BY <1>1, FindersDisturbed
<1>10. QED
  BY <1>4, <1>6, <1>7, <1>8, <1>9

LEMMA DeleteKeeps ==
  ASSUME CatalogueInv, NEW e \in Editors, FinishDelete(e)
  PROVE  CatalogueInv'
<1> USE DEF CatalogueInv
<1>1. ProjectsInv' /\ RowsInv' /\ IndexInv'
  BY RowsOfDelete
<1>2. EditsInv'
  BY EditsOfDelete
<1>3. UNCHANGED <<backend, everStored>>
  BY DEF FinishDelete
<1>4. FindersInv'
  <2>1. CASE editor[e].id \in DOMAIN listed
    <3>1. Disturb
      BY <2>1 DEF FinishDelete
    <3>2. QED
      BY <1>3, <3>1, FindersDisturbed
  <2>2. CASE editor[e].id \notin DOMAIN listed
    <3> DEFINE id == editor[e].id
    <3>1. listed' = Without(listed, {id}) /\ stored' = Without(stored, RowsOfScans(ScansOf(id))) /\ finder' = finder
      BY <2>2 DEF FinishDelete
    <3>2. ScansOf(id) = {}
      BY <2>2 DEF ScansOf, RowsInv
    <3>3. RowsOfScans(ScansOf(id)) = {}
      BY <3>2 DEF RowsOfScans
    <3>4. DOMAIN stored' = DOMAIN stored /\ \A i \in DOMAIN stored : stored'[i] = stored[i]
      BY <3>1, <3>3 DEF Without
    <3>5. DOMAIN listed' = DOMAIN listed /\ \A i \in DOMAIN listed : listed'[i] = listed[i]
      BY <2>2, <3>1 DEF Without
    <3>6. ASSUME NEW r PROVE MatchingRows(r, TableOf(r))' = MatchingRows(r, TableOf(r))
      <4>1. CASE r.index = "issues"
        BY <3>4, <4>1 DEF MatchingRows, TableOf
      <4>2. CASE r.index # "issues"
        BY <3>5, <4>2 DEF MatchingRows, TableOf
      <4>3. QED
        BY <4>1, <4>2
    <3>7. QED
      BY <1>3, <3>1, <3>6, FindersRest
  <2>3. QED
    BY <2>1, <2>2
<1>5. QED
  BY <1>1, <1>2, <1>4

LEMMA ScanKeeps ==
  ASSUME CatalogueInv, NEW key \in ProjectKeys, NEW name \in Names, NEW analysis \in Analyses, IngestScan(key, name, analysis)
  PROVE  CatalogueInv'
<1> USE DEF CatalogueInv
<1>1. /\ ProjectsInv' /\ RowsInv' /\ IndexInv'
      /\ handedOut'.projects \in Nat /\ handedOut.projects <= handedOut'.projects
      /\ everStored \subseteq everStored' /\ ToStoreProject(key, name) \in ProjectRows
  BY RowsOfScan
<1>2. WrittenWhole(ToStoreProject(key, name)) /\ backend' = backend
  BY DEF IngestScan
<1>3. EditsInv'
  BY <1>1, <1>2, EditsOfWhole
<1>4. FindersInv'
  <2>1. Disturb
    BY <1>2 DEF WrittenWhole
  <2>2. QED
    BY <1>1, <1>2, <2>1, FindersDisturbed
<1>5. QED
  BY <1>1, <1>3, <1>4

\* The other writes leave the projects to themselves.
LEMMA RowsKeep ==
  ASSUME CatalogueInv, ProjectsInv', RowsInv', IndexInv', UNCHANGED <<listed, editor, asked, contested, handedOut, backend>>,
         everStored \subseteq everStored', Disturb \/ UNCHANGED <<finder, stored>>
  PROVE  CatalogueInv'
<1> USE DEF CatalogueInv
<1>1. EditsInv'
  <2>1. handedOut.projects \in Nat /\ handedOut'.projects = handedOut.projects
    BY DEF ProjectsInv
  <2>2. QED
    BY <2>1, EditsRest
<1>2. CASE Disturb
  BY <1>1, <1>2, FindersDisturbed
<1>3. CASE UNCHANGED <<finder, stored>>
  <2>1. \A r : MatchingRows(r, TableOf(r))' = MatchingRows(r, TableOf(r))
    BY <1>3 DEF MatchingRows, TableOf
  <2>2. QED
    BY <1>1, <1>3, <2>1, FindersRest
<1>4. QED
  BY <1>2, <1>3

LEMMA AnswersKeep ==
  ASSUME CatalogueInv, OnlyFinder, FindersInv'
  PROVE  CatalogueInv'
<1> USE DEF CatalogueInv
<1>1. UNCHANGED <<backend, listed, analysed, stored, documents, indexing, editor, handedOut, everStored, asked, contested>>
  BY DEF OnlyFinder
<1>2. ProjectsInv' /\ RowsInv'
  BY <1>1 DEF ProjectsInv, RowsInv
<1>3. IndexInv'
  BY <1>1 DEF IndexInv
<1>4. EditsInv'
  <2>1. handedOut.projects \in Nat /\ handedOut'.projects = handedOut.projects
    BY <1>1 DEF ProjectsInv
  <2>2. QED
    BY <1>1, <2>1, EditsRest
<1>5. QED
  BY <1>2, <1>3, <1>4

LEMMA EditingBegins ==
  ASSUME CatalogueInv, EditsInv', UNCHANGED <<backend, listed, analysed, stored, documents, indexing, finder, handedOut, everStored>>
  PROVE  CatalogueInv'
<1> USE DEF CatalogueInv
<1>1. ProjectsInv' /\ RowsInv'
  BY DEF ProjectsInv, RowsInv
<1>2. IndexInv'
  BY DEF IndexInv
<1>3. \A r : MatchingRows(r, TableOf(r))' = MatchingRows(r, TableOf(r))
  BY DEF MatchingRows, TableOf
<1>4. FindersInv'
  BY <1>3, FindersRest
<1>5. QED
  BY <1>1, <1>2, <1>4

LEMMA CatalogueStep == CatalogueInv /\ [SearchNext]_searchVars => CatalogueInv'
<1> SUFFICES ASSUME CatalogueInv, [SearchNext]_searchVars PROVE CatalogueInv'
  OBVIOUS
<1>0. ProjectsInv /\ RowsInv /\ IndexInv /\ EditsInv /\ FindersInv
  BY DEF CatalogueInv
<1>1. ASSUME NEW k \in ProjectKeys, NEW n \in Names, NEW b \in MainNames, CreateProject(k, n, b) PROVE CatalogueInv'
  BY <1>1, CreateKeeps
<1>2. ASSUME NEW e \in Editors, NEW k \in ProjectKeys, NEW change \in Changes, BeginUpdate(e, k, change) PROVE CatalogueInv'
  <2>1. EditsInv'
    BY <1>0, <1>2, UpdateBegins
  <2>2. UNCHANGED <<backend, listed, analysed, stored, documents, indexing, finder, handedOut, everStored>>
    BY <1>2 DEF BeginUpdate
  <2>3. QED
    BY <2>1, <2>2, EditingBegins
<1>3. ASSUME NEW e \in Editors, NEW k \in ProjectKeys, BeginDelete(e, k) PROVE CatalogueInv'
  <2>1. EditsInv'
    BY <1>0, <1>3, DeleteBegins
  <2>2. UNCHANGED <<backend, listed, analysed, stored, documents, indexing, finder, handedOut, everStored>>
    BY <1>3 DEF BeginDelete
  <2>3. QED
    BY <2>1, <2>2, EditingBegins
<1>4. ASSUME NEW e \in Editors, FinishUpdate(e) \/ FinishDelete(e) PROVE CatalogueInv'
  BY <1>4, UpdateKeeps, DeleteKeeps
<1>5. CASE Editing
  <2>1. \A n \in Names : [name |-> n] \in Changes
    BY DEF Changes
  <2>2. \A b \in MainNames : [branch |-> b] \in Changes
    BY DEF Changes
  <2>3. QED
    BY <1>1, <1>2, <1>3, <1>4, <1>5, <2>1, <2>2 DEF Editing
<1>6. ASSUME NEW k \in ProjectKeys, NEW n \in Names, NEW a \in Analyses, IngestScan(k, n, a) PROVE CatalogueInv'
  BY <1>6, ScanKeeps
<1>7. ASSUME NEW i \in DOMAIN stored, ChangeStatus(i) PROVE CatalogueInv'
  <2>1. ProjectsInv' /\ RowsInv' /\ IndexInv' /\ everStored \subseteq everStored'
    BY <1>0, <1>7, RowsOfStatus
  <2>2. UNCHANGED <<listed, editor, asked, contested, handedOut, backend>> /\ Disturb
    BY <1>7 DEF ChangeStatus
  <2>3. QED
    BY <2>1, <2>2, RowsKeep
<1>8. ASSUME NEW s \in DOMAIN analysed, DeleteOldScan(s) PROVE CatalogueInv'
  <2>1. ProjectsInv' /\ RowsInv' /\ IndexInv'
    BY <1>0, <1>8, RowsOfRetention
  <2>2. UNCHANGED <<listed, editor, asked, contested, handedOut, backend, everStored>> /\ Disturb
    BY <1>8 DEF DeleteOldScan
  <2>3. QED
    BY <2>1, <2>2, RowsKeep
<1>9. ASSUME NEW s \in DOMAIN analysed, ReadRows(s) PROVE CatalogueInv'
  <2>1. ProjectsInv' /\ RowsInv' /\ IndexInv'
    BY <1>0, <1>9, RowsOfPage
  <2>2. UNCHANGED <<listed, editor, asked, contested, handedOut, backend, everStored>> /\ UNCHANGED <<finder, stored>>
    BY <1>9 DEF ReadRows
  <2>3. QED
    BY <2>1, <2>2, RowsKeep
<1>10. ASSUME NEW taken \in BOOLEAN, NEW ok \in BOOLEAN, BulkAnswered(taken, ok) PROVE CatalogueInv'
  <2>1. ProjectsInv' /\ RowsInv' /\ IndexInv'
    BY <1>0, <1>10, RowsOfBulk
  <2>2. UNCHANGED <<listed, editor, asked, contested, handedOut, backend, everStored>> /\ UNCHANGED <<finder, stored>>
    BY <1>10 DEF BulkAnswered
  <2>3. QED
    BY <2>1, <2>2, RowsKeep
<1>11. CASE Analysing
  BY <1>6, <1>7, <1>8, <1>9, <1>10, <1>11 DEF Analysing
<1>12. ASSUME NEW f \in Finders, NEW r \in Requests, BeginSearch(f, r) PROVE CatalogueInv'
  <2>1. FindersInv' /\ OnlyFinder
    BY <1>0, <1>12, SearchBegins DEF BeginSearch, OnlyFinder
  <2>2. QED
    BY <2>1, AnswersKeep
<1>13. ASSUME NEW f \in Finders, CountStatement(f) PROVE CatalogueInv'
  <2>1. FindersInv' /\ OnlyFinder
    BY <1>0, <1>13, TotalIsCounted DEF CountStatement
  <2>2. QED
    BY <2>1, AnswersKeep
<1>14. ASSUME NEW f \in Finders, ZincSearch(f) PROVE CatalogueInv'
  <2>1. FindersInv' /\ OnlyFinder
    BY <1>0, <1>14, ZincAnswers DEF ZincSearch
  <2>2. QED
    BY <2>1, AnswersKeep
<1>15. ASSUME NEW f \in Finders, SearchFails(f) PROVE CatalogueInv'
  <2>1. FindersInv' /\ OnlyFinder
    BY <1>0, <1>15, SearchEnds DEF SearchFails
  <2>2. QED
    BY <2>1, AnswersKeep
<1>16. ASSUME NEW f \in Finders, NEW cut \in BOOLEAN, PageStatement(f, cut) PROVE CatalogueInv'
  <2>1. FindersInv' /\ OnlyFinder
    BY <1>0, <1>16, PageIsRead DEF PageStatement
  <2>2. QED
    BY <2>1, AnswersKeep
<1>17. ASSUME NEW f \in Finders, NEW fate \in {"whole", "cut", "failed"}, FacetStatement(f, fate) PROVE CatalogueInv'
  <2>1. FindersInv' /\ OnlyFinder
    BY <1>0, <1>17, FacetIsRead DEF FacetStatement
  <2>2. QED
    BY <2>1, AnswersKeep
<1>18. CASE Answering
  BY <1>13, <1>14, <1>15, <1>16, <1>17, <1>18 DEF Answering
<1>19. CASE UNCHANGED searchVars
  <2>1. UNCHANGED <<backend, listed, analysed, stored, documents, indexing, editor, finder, handedOut, writes,
                    everStored, asked, contested>>
    BY <1>19 DEF searchVars
  <2>2. \A r : MatchingRows(r, TableOf(r))' = MatchingRows(r, TableOf(r))
    BY <2>1 DEF MatchingRows, TableOf
  <2>3. FindersInv'
    BY <1>0, <2>1, <2>2, FindersRest
  <2>4. OnlyFinder
    BY <2>1 DEF OnlyFinder
  <2>5. QED
    BY <2>3, <2>4, AnswersKeep
<1>20. QED
  BY <1>5, <1>11, <1>12, <1>18, <1>19 DEF SearchNext

LEMMA CatalogueFollows == CatalogueInv => CatalogueIsTrue
<1> SUFFICES ASSUME CatalogueInv PROVE CatalogueIsTrue
  OBVIOUS
<1> USE DEF CatalogueInv
<1>1. SearchTypeOK
  <2>1. \A p \in DOMAIN listed : listed[p].key \in ProjectKeys
    BY DEF ProjectsInv, ProjectRows
  <2>2. \A e \in Editors : editor[e].pc \in {"idle", "update", "delete"}
    BY DEF EditsInv, Idle, IsUpdate, IsDelete
  <2>3. \A f \in Finders : finder[f].pc \in {"idle", "ask", "page", "facets", "answered", "failed"}
    BY DEF FindersInv, Idle, SearchSound
  <2>4. QED
    BY <2>1, <2>2, <2>3 DEF SearchTypeOK, ProjectsInv, RowsInv
<1>2. ASSUME NEW f \in AnsweredSearches PROVE SearchSound(finder[f]) /\ finder[f].pc = "answered"
  BY DEF AnsweredSearches, FindersInv, Idle
<1>3. HitsAreRows
  <2>1. \A f \in AnsweredSearches : HitsFit(finder[f])
    BY <1>2 DEF SearchSound
  <2>2. QED
    BY <2>1 DEF HitsAreRows, HitsFit
<1>4. AnswersAddUp
  <2>1. \A f \in AnsweredSearches : finder[f].calm \/ ~InTables(finder[f].request) =>
           HitsAreThePage(finder[f]) /\ FacetsAddUp(finder[f])
    BY <1>2 DEF SearchSound
  <2>2. QED
    BY <2>1 DEF AnswersAddUp, HitsAreThePage, FacetsAddUp, SliceSize
<1>5. IndexedIsFound
  BY DEF IndexedIsFound, IndexInv
<1>6. EditsAreKept
  BY DEF EditsInv
<1>7. QED
  BY <1>1, <1>3, <1>4, <1>5, <1>6 DEF CatalogueIsTrue

\* Whatever editors, analyses, searches and index jobs do in whatever order: every hit was a row,
\* whole and fitting, total and facets and page of an undisturbed answer speak of the same rows,
\* the index of a completed job lacks nothing, and no edit is lost that nobody overtook.
THEOREM CatalogueAndSearchAgree == SearchSpec => []CatalogueIsTrue
<1>1. SearchInit => CatalogueInv
  BY CatalogueAtFirst
<1>2. CatalogueInv /\ [SearchNext]_searchVars => CatalogueInv'
  BY CatalogueStep
<1>3. CatalogueInv => CatalogueIsTrue
  BY CatalogueFollows
<1>4. QED
  BY <1>1, <1>2, <1>3, PTL DEF SearchSpec

-----------------------------------------------------------------------------
(* The rule assistant                                                      *)

LEMMA LeastIsMin ==
  ASSUME NEW S, NEW m \in S, S \subseteq Int, \A i \in S : m <= i
  PROVE  Min(S) = m
<1>1. \A x \in S : (\A y \in S : x =< y) => x = m
  OBVIOUS
<1>2. QED
  BY <1>1 DEF Min

\* The first of two or three values that is not blank.
LEMMA FirstOfTwo ==
  ASSUME NEW a, NEW b
  PROVE  First(<<a, b>>) = IF ~Blank(a) THEN a ELSE IF ~Blank(b) THEN b ELSE ""
<1> DEFINE values == <<a, b>>
           said == {i \in DOMAIN values : ~Blank(values[i])}
<1>1. DOMAIN values = {1, 2} /\ values[1] = a /\ values[2] = b
  OBVIOUS
<1>2. First(values) = IF said = {} THEN "" ELSE values[Min(said)]
  BY DEF First
<1> HIDE DEF values
<1>3. CASE ~Blank(a)
  <2>1. 1 \in said /\ \A i \in said : 1 <= i
    BY <1>1, <1>3
  <2>2. said \subseteq Int
    BY <1>1
  <2> HIDE DEF said
  <2>3. Min(said) = 1
    BY <2>1, <2>2, LeastIsMin
  <2>4. QED
    BY <1>1, <1>2, <1>3, <2>1, <2>3 DEF values
<1>4. CASE Blank(a) /\ ~Blank(b)
  <2>1. said = {2}
    BY <1>1, <1>4
  <2> HIDE DEF said
  <2>3. Min(said) = 2
    BY <2>1, LeastIsMin
  <2>4. QED
    BY <1>1, <1>2, <1>4, <2>1, <2>3 DEF values
<1>5. CASE Blank(a) /\ Blank(b)
  <2>1. said = {}
    BY <1>1, <1>5
  <2>2. QED
    BY <1>2, <1>5, <2>1 DEF values
<1>6. QED
  BY <1>3, <1>4, <1>5

LEMMA FirstOfThree ==
  ASSUME NEW a, NEW b, NEW c
  PROVE  First(<<a, b, c>>) = IF ~Blank(a) THEN a ELSE IF ~Blank(b) THEN b ELSE IF ~Blank(c) THEN c ELSE ""
<1> DEFINE values == <<a, b, c>>
           said == {i \in DOMAIN values : ~Blank(values[i])}
<1>1. DOMAIN values = {1, 2, 3} /\ values[1] = a /\ values[2] = b /\ values[3] = c
  OBVIOUS
<1>2. First(values) = IF said = {} THEN "" ELSE values[Min(said)]
  BY DEF First
<1> HIDE DEF values
<1>3. CASE ~Blank(a)
  <2>1. 1 \in said /\ \A i \in said : 1 <= i
    BY <1>1, <1>3
  <2>2. said \subseteq Int
    BY <1>1
  <2> HIDE DEF said
  <2>3. Min(said) = 1
    BY <2>1, <2>2, LeastIsMin
  <2>4. QED
    BY <1>1, <1>2, <1>3, <2>1, <2>3 DEF values
<1>4. CASE Blank(a) /\ ~Blank(b)
  <2>1. 2 \in said /\ \A i \in said : 2 <= i
    BY <1>1, <1>4
  <2>2. said \subseteq Int
    BY <1>1, <1>4
  <2> HIDE DEF said
  <2>3. Min(said) = 2
    BY <2>1, <2>2, LeastIsMin
  <2>4. QED
    BY <1>1, <1>2, <1>4, <2>1, <2>3 DEF values
<1>5. CASE Blank(a) /\ Blank(b) /\ ~Blank(c)
  <2>1. said = {3}
    BY <1>1, <1>5
  <2> HIDE DEF said
  <2>3. Min(said) = 3
    BY <2>1, LeastIsMin
  <2>4. QED
    BY <1>1, <1>2, <1>5, <2>1, <2>3 DEF values
<1>6. CASE Blank(a) /\ Blank(b) /\ Blank(c)
  <2>1. said = {}
    BY <1>1, <1>6
  <2>2. QED
    BY <1>2, <1>6, <2>1 DEF values
<1>7. QED
  BY <1>3, <1>4, <1>5, <1>6

\* What is left of a list without blanks and repetitions is a list.
LEMMA DistinctIsSequence ==
  ASSUME NEW values \in Seq(STRING)
  PROVE  \E S : Distinct(values) \in Seq(S)
<1> DEFINE news == {i \in DOMAIN values : ~Blank(values[i]) /\ \A j \in 1..(i - 1) : values[j] # values[i]}
           n == Cardinality(news)
           d == [k \in 1..n |-> values[CHOOSE i \in news : Cardinality({j \in news : j <= i}) = k]]
<1>1. Distinct(values) = d
  BY DEF Distinct
<1>2. n \in Nat
  <2>1. Len(values) \in Nat /\ DOMAIN values = 1..Len(values)
    OBVIOUS
  <2>2. IsFiniteSet(1..Len(values))
    BY <2>1, FS_Interval
  <2>3. news \subseteq 1..Len(values)
    BY <2>1
  <2> HIDE DEF news
  <2>4. QED
    BY <2>2, <2>3, FS_Subset, FS_CardinalityType
<1>3. d = [k \in 1..n |-> d[k]]
  OBVIOUS
<1> HIDE DEF n, d
<1>4. d \in [1..n -> {d[k] : k \in 1..n}]
  BY <1>3
<1>5. d \in Seq({d[k] : k \in 1..n})
  BY <1>2, <1>4, SeqDef
<1>6. QED
  BY <1>1, <1>5

\* A finite set in some order is a sequence of its members.
LEMMA SetInOrder ==
  ASSUME NEW S, IsFiniteSet(S)
  PROVE  SetToSeq(S) \in Seq(S) /\ (SetToSeq(S) = <<>> <=> S = {})
<1> DEFINE n == Cardinality(S)
<1>1. n \in Nat
  BY FS_CardinalityType
<1>2. \E f : f \in Bijection(1..n, S)
  <2>1. ExistsBijection(1..n, S)
    BY FS_CardinalityType
  <2>2. QED
    BY <2>1 DEF ExistsBijection
<1>3. \E f : f \in [1..n -> S] /\ IsInjective(f)
  <2>1. PICK f : f \in Bijection(1..n, S)
    BY <1>2
  <2>2. f \in [1..n -> S] /\ \A i, j \in 1..n : f[i] = f[j] => i = j
    BY <2>1 DEF Bijection, Injection, IsInjective
  <2>3. QED
    BY <2>2 DEF IsInjective
<1>4. SetToSeq(S) \in [1..n -> S]
  BY <1>3 DEF SetToSeq
<1>5. SetToSeq(S) \in Seq(S) /\ Len(SetToSeq(S)) = n
  BY <1>1, <1>4
<1>6. n = 0 <=> S = {}
  BY FS_EmptySet
<1>7. QED
  BY <1>1, <1>5, <1>6, EmptySeq

\* The models a cloud provider is offered with contain the one that is proposed.
LEMMA CloudProposesListed ==
  ASSUME NEW p \in CloudProviders
  PROVE  CloudDefault(p) \in ToSet(CloudModels(p))
<1> DEFINE default == CloudDefault(p)
           named == Distinct(ModelList[p])
           models == IF named = <<>> THEN Fallback[p] ELSE named
<1>1. CloudModels(p) = IF default \in ToSet(models) THEN models ELSE <<default>> \o models
  BY DEF CloudModels
<1>2. \E S : models \in Seq(S)
  <2>1. \E S : named \in Seq(S)
    BY ModelAssumption, DistinctIsSequence
  <2>2. \E S : Fallback[p] \in Seq(S)
    <3>1. \A a, b : <<a, b>> \in Seq({a, b}) /\ <<a>> \in Seq({a})
      OBVIOUS
    <3>2. Fallback.openai = <<"gpt-5.5", "gpt-5.4">> /\ Fallback.anthropic = <<"claude-opus", "claude-sonnet">>
          /\ Fallback.kimi = <<"kimi-k2.6">> /\ Fallback.qwen = <<"qwen3.6-max">>
      BY DEF Fallback
    <3>2a. Fallback.openai \in Seq({"gpt-5.5", "gpt-5.4"}) /\ Fallback.anthropic \in Seq({"claude-opus", "claude-sonnet"})
      BY <3>1, <3>2
    <3>3. (\E S : Fallback.openai \in Seq(S)) /\ (\E S : Fallback.anthropic \in Seq(S))
      BY <3>2a
    <3>4. (\E S : Fallback.kimi \in Seq(S)) /\ (\E S : Fallback.qwen \in Seq(S))
      BY <3>1, <3>2
    <3>5. p \in {"openai", "anthropic", "kimi", "qwen"}
      BY DEF CloudProviders
    <3>6. QED
      BY ONLY <3>3, <3>4, <3>5
  <2> HIDE DEF named
  <2>3. QED
    BY <2>1, <2>2
<1> HIDE DEF default, models
<1>3. CASE default \in ToSet(models)
  BY <1>1, <1>3 DEF default
<1>4. CASE default \notin ToSet(models)
  <2>1. PICK S : models \in Seq(S)
    BY <1>2
  <2>2. PICK T : T = S \cup {default}
    OBVIOUS
  <2>3. models \in Seq(T) /\ <<default>> \in Seq(T)
    BY <2>1, <2>2, SeqMonotonic
  <2>4. PICK all : all = <<default>> \o models
    OBVIOUS
  <2>5. Len(all) = 1 + Len(models) /\ Len(models) \in Nat /\ all \in Seq(T) /\ all[1] = default
    BY <2>3, <2>4
  <2>6. 1 \in DOMAIN all /\ all[1] = default
    BY <2>5
  <2>7. QED
    <3>1. default \in ToSet(all)
      BY <2>6 DEF ToSet
    <3>2. CloudModels(p) = all
      BY <1>1, <1>4, <2>4
    <3>3. QED
      BY <3>1, <3>2 DEF default
<1>5. QED
  BY <1>3, <1>4 DEF default

LEMMA OllamaListsModels ==
  ASSUME NEW installed \in Installed
  PROVE  OllamaModels(installed) # <<>> => Head(OllamaModels(installed)) \in ToSet(OllamaModels(installed))
<1> DEFINE S == {v \in ToSet(installed) : ~Blank(v)}
           models == OllamaModels(installed)
<1>1. IsFiniteSet(S)
  <2>1. installed \in Seq(STRING) /\ Len(installed) \in Nat /\ DOMAIN installed = 1..Len(installed)
    BY ModelAssumption
  <2>2. IsFiniteSet(DOMAIN installed)
    BY <2>1, FS_Interval
  <2>3. IsFiniteSet(ToSet(installed))
    <3>1. installed \in [DOMAIN installed -> ToSet(installed)]
      BY <2>1 DEF ToSet
    <3>2. installed \in Surjection(DOMAIN installed, ToSet(installed))
      BY <3>1 DEF Surjection, ToSet
    <3>3. QED
      BY <2>2, <3>2, FS_Surjection
  <2>4. QED
    BY <2>3, FS_Subset
<1>2. models \in Seq(S)
  BY <1>1, SetInOrder DEF OllamaModels
<1> HIDE DEF models
<1>3. models # <<>> => 1 \in DOMAIN models /\ Head(models) = models[1]
  BY <1>2, EmptySeq
<1>4. QED
  BY <1>3 DEF ToSet, models

\* Who is offered as connected proposes a model of its list, and is no provider without a key.
OptionSound(o) ==
    /\ o.status \in {"connected", "setup_required", "unavailable"}
    /\ o.status = "connected" => o.default \in ToSet(o.models) /\ o.id \notin CloudProviders \ AIKeys

LEMMA CloudOptionSound ==
  ASSUME NEW p \in CloudProviders, NEW answer
  PROVE  OptionSound(CloudProvider(p, answer))
<1> DEFINE status == IF p \notin AIKeys \/ answer = "unauthorized" THEN "setup_required"
                     ELSE IF answer = "ok" THEN "connected" ELSE "unavailable"
           o == CloudProvider(p, answer)
<1>1. o = [id |-> p, status |-> status, models |-> CloudModels(p), default |-> CloudDefault(p), setup |-> status # "connected"]
  BY DEF CloudProvider, Option
<1>2. status \in {"connected", "setup_required", "unavailable"} /\ (status = "connected" => p \in AIKeys)
  OBVIOUS
<1> HIDE DEF status, o
<1>3. o.id = p /\ o.status = status /\ o.models = CloudModels(p) /\ o.default = CloudDefault(p)
  BY <1>1
<1>4. OptionSound(o)
  BY <1>2, <1>3, CloudProposesListed DEF OptionSound
<1>5. QED
  BY <1>4 DEF o

LEMMA OllamaOptionSound ==
  ASSUME NEW answer, NEW installed \in Installed
  PROVE  OptionSound(OllamaProvider(answer, installed))
<1> DEFINE o == OllamaProvider(answer, installed)
           models == OllamaModels(installed)
           default == IF ChosenModel["ollama"] \in ToSet(models) THEN ChosenModel["ollama"] ELSE Head(models)
<1>1. \/ o = Option("ollama", "unavailable", <<>>, "") \/ o = Option("ollama", "setup_required", <<>>, "")
      \/ (models # <<>> /\ o = Option("ollama", "connected", models, default))
  BY DEF OllamaProvider
<1>2. models # <<>> => default \in ToSet(models)
  BY OllamaListsModels
<1> HIDE DEF o, models, default
<1>3. CASE o = Option("ollama", "unavailable", <<>>, "") \/ o = Option("ollama", "setup_required", <<>>, "")
  <2>1. PICK none : none = <<>>
    OBVIOUS
  <2>2. o = Option("ollama", "unavailable", none, "") \/ o = Option("ollama", "setup_required", none, "")
    BY <1>3, <2>1
  <2>3. Option("ollama", "unavailable", none, "").status = "unavailable"
        /\ Option("ollama", "setup_required", none, "").status = "setup_required"
    BY DEF Option
  <2>4. o.status = "unavailable" \/ o.status = "setup_required"
    BY <2>2, <2>3
  <2>5. QED
    BY <2>4 DEF OptionSound, o
<1>4. CASE models # <<>> /\ o = Option("ollama", "connected", models, default)
  <2>1. o.id = "ollama" /\ o.status = "connected" /\ o.models = models /\ o.default = default
    BY <1>4 DEF Option
  <2>2. QED
    BY <1>2, <1>4, <2>1 DEF OptionSound, o, CloudProviders
<1>5. QED
  BY <1>1, <1>3, <1>4

LEMMA MockOptionSound == OptionSound(MockProvider)
<1>1. MockProvider.id = "mock" /\ MockProvider.status = "connected" /\ MockProvider.default = "deterministic"
      /\ MockProvider.models = <<"deterministic">>
  BY DEF MockProvider, Option
<1>2. "deterministic" \in ToSet(<<"deterministic">>)
  <2>1. 1 \in DOMAIN <<"deterministic">> /\ <<"deterministic">>[1] = "deterministic"
    OBVIOUS
  <2>2. QED
    BY <2>1 DEF ToSet
<1>3. QED
  BY <1>1, <1>2 DEF OptionSound, CloudProviders

\* What the text of a field is, after those that may stand in for it.
LEMMA SaidIsText ==
  ASSUME NEW a, NEW b, NEW c
  PROVE  /\ First(<<a, b, c>>) = "" \/ ~Blank(First(<<a, b, c>>))
         /\ ~Blank(c) => ~Blank(First(<<a, b, c>>))
         /\ Blank(a) /\ Blank(b) /\ ~Blank(c) => First(<<a, b, c>>) = c
         /\ Blank(a) /\ Blank(b) /\ Blank(c) => First(<<a, b, c>>) = ""
<1>1. PICK v : v = First(<<a, b, c>>)
  OBVIOUS
<1>2. v = IF ~Blank(a) THEN a ELSE IF ~Blank(b) THEN b ELSE IF ~Blank(c) THEN c ELSE ""
  BY <1>1, FirstOfThree
<1>3. v = "" \/ ~Blank(v)
  BY ONLY <1>2
<1>4. ~Blank(c) => ~Blank(v)
  BY ONLY <1>2
<1>5. Blank(a) /\ Blank(b) /\ ~Blank(c) => v = c
  BY ONLY <1>2
<1>6. Blank(a) /\ Blank(b) /\ Blank(c) => v = ""
  BY ONLY <1>2
<1>7. QED
  BY ONLY <1>1, <1>3, <1>4, <1>5, <1>6

LEMMA AllowedIsAllowed ==
  ASSUME NEW v, NEW allowed, NEW fallback \in allowed
  PROVE  Allowed(v, allowed, fallback) \in allowed
BY DEF Allowed

LEMMA ExamplesAreGiven ==
  ASSUME NEW language, NEW engine, NEW noncompliant \in BOOLEAN, NEW pattern
  PROVE  ExampleOf(language, engine, noncompliant, pattern) \in
            {"calls fmt.Println", "calls println", "returns true", "calls console.log", "has debugger", "calls panic"}
BY DEF ExampleOf

\* The parts of a draft that speak of its engine.
LEMMA EngineHasPattern ==
  ASSUME NEW engine \in Engines, NEW pattern, NEW query, NEW target
  PROVE  LET e == EnginePattern(engine, pattern, query, target)
         IN  /\ engine = "text" => e.text_pattern # "" /\ e.tree_sitter_query = ""
             /\ engine = "go-ast" => e.target # "" /\ e.text_pattern = "" /\ e.tree_sitter_query = ""
             /\ engine = "tree-sitter" => e.tree_sitter_query # "" /\ e.text_pattern = ""
             /\ engine = "text" /\ pattern = "" => e.text_pattern = DefaultPattern
BY DEF EnginePattern, DefaultPattern, Engines

\* Whatever is said, and whatever the editor kept, a normalised suggestion is whole.
SuggestionWhole(d, said, current) ==
    LET own == \A f \in {"text_pattern", "target", "noncompliant_example", "go_ast_pattern", "engine"} :
                   Blank(Field(said, f)) /\ Blank(Field(current, f))
    IN  /\ d.language \in Languages /\ d.type \in IssueTypes /\ d.severity \in Severities
        /\ CASE d.engine = "text" -> d.text_pattern # "" /\ d.tree_sitter_query = ""
             [] d.engine = "go-ast" -> d.language = "go" /\ d.target # "" /\ <<d.text_pattern, d.tree_sitter_query>> = <<"", "">>
             [] d.engine = "tree-sitter" -> d.tree_sitter_query # "" /\ d.text_pattern = ""
        /\ d.noncompliant_example # "" /\ d.compliant_example # "" /\ d.name # ""
        /\ own => d.noncompliant_example \in {"calls panic", "has debugger"}

LEMMA NormalizedIsWhole ==
  ASSUME NEW s, NEW req
  PROVE  SuggestionWhole(NormalizeSuggestion(s, req), s, req.current)
<1> DEFINE Said(f, default) == First(<<Field(s, f), Field(req.current, f), default>>)
           name == First(<<Field(s, "name"), Title>>)
           engine == Allowed(Said("engine", "text"), Engines, "text")
           language == IF engine = "go-ast" THEN "go" ELSE Allowed(Said("language", "go"), Languages, "go")
           pattern == Said("text_pattern", "")
           patterns == EnginePattern(engine, pattern, Said("tree_sitter_query", ""), Said("target", ""))
           type == Allowed(Said("type", "code_smell"), IssueTypes, "code_smell")
           severity == Allowed(Said("severity", "major"), Severities, "major")
           noncompliant == Said("noncompliant_example", ExampleOf(language, engine, TRUE, patterns.text_pattern))
           compliant == Said("compliant_example", ExampleOf(language, engine, FALSE, patterns.text_pattern))
           d == NormalizeSuggestion(s, req)
<1>1. /\ d.name = name /\ d.language = language /\ d.engine = engine /\ d.type = type /\ d.severity = severity
      /\ d.noncompliant_example = noncompliant /\ d.compliant_example = compliant
      /\ d.text_pattern = patterns.text_pattern /\ d.tree_sitter_query = patterns.tree_sitter_query /\ d.target = patterns.target
  BY DEF NormalizeSuggestion
<1>2. engine \in Engines
  BY AllowedIsAllowed DEF Engines
<1>3. language \in Languages /\ (engine = "go-ast" => language = "go")
  <2>1. Allowed(Said("language", "go"), Languages, "go") \in Languages /\ "go" \in Languages
    BY AllowedIsAllowed DEF Languages
  <2>2. QED
    BY <2>1
<1>4. type \in IssueTypes /\ severity \in Severities
  BY AllowedIsAllowed DEF IssueTypes, Severities
<1>5. /\ engine = "text" => patterns.text_pattern # "" /\ patterns.tree_sitter_query = ""
      /\ engine = "go-ast" => patterns.target # "" /\ patterns.text_pattern = "" /\ patterns.tree_sitter_query = ""
      /\ engine = "tree-sitter" => patterns.tree_sitter_query # "" /\ patterns.text_pattern = ""
      /\ engine = "text" /\ pattern = "" => patterns.text_pattern = DefaultPattern
  <2>1. PICK en, pa, qu, ta : en = engine /\ pa = pattern /\ qu = Said("tree_sitter_query", "") /\ ta = Said("target", "")
    OBVIOUS
  <2>2. PICK e : e = EnginePattern(en, pa, qu, ta)
    OBVIOUS
  <2>3. patterns = e
    BY <2>1, <2>2
  <2>4. en \in Engines
    BY <1>2, <2>1
  <2>5. /\ en = "text" => e.text_pattern # "" /\ e.tree_sitter_query = ""
        /\ en = "go-ast" => e.target # "" /\ e.text_pattern = "" /\ e.tree_sitter_query = ""
        /\ en = "tree-sitter" => e.tree_sitter_query # "" /\ e.text_pattern = ""
        /\ en = "text" /\ pa = "" => e.text_pattern = DefaultPattern
    BY ONLY <2>2, <2>4, EngineHasPattern
  <2> HIDE DEF engine, pattern, patterns
  <2>6. QED
    BY ONLY <2>1, <2>3, <2>5
<1>6. name # ""
  <2>1. ~Blank(Title)
    BY DEF Blank, Title
  <2>2. ~Blank(name)
    BY <2>1, FirstOfTwo
  <2>3. QED
    BY <2>2 DEF Blank
<1>7. ~Blank(ExampleOf(language, engine, TRUE, patterns.text_pattern)) /\ ~Blank(ExampleOf(language, engine, FALSE, patterns.text_pattern))
  <2> HIDE DEF language, engine, patterns
  <2>1. QED
    BY ExamplesAreGiven DEF Blank
<1>8. noncompliant # "" /\ compliant # ""
  <2> DEFINE ex(n) == ExampleOf(language, engine, n, patterns.text_pattern)
  <2>1. PICK en, ec : en = ex(TRUE) /\ ec = ex(FALSE)
    OBVIOUS
  <2>2. ~Blank(en) /\ ~Blank(ec)
    BY <1>7, <2>1
  <2>3. noncompliant = First(<<Field(s, "noncompliant_example"), Field(req.current, "noncompliant_example"), en>>)
        /\ compliant = First(<<Field(s, "compliant_example"), Field(req.current, "compliant_example"), ec>>)
    BY <2>1
  <2> HIDE DEF noncompliant, compliant, ex
  <2>4. ~Blank(noncompliant) /\ ~Blank(compliant)
    BY ONLY <2>2, <2>3, SaidIsText
  <2>5. QED
    BY <2>4 DEF Blank
<1>9. ASSUME \A f \in {"text_pattern", "target", "noncompliant_example", "go_ast_pattern", "engine"} :
               Blank(Field(s, f)) /\ Blank(Field(req.current, f))
      PROVE  noncompliant \in {"calls panic", "has debugger"}
  <2>1. engine = "text"
    <3>1. Blank(Field(s, "engine")) /\ Blank(Field(req.current, "engine"))
      BY <1>9
    <3>2. ~Blank("text")
      BY DEF Blank
    <3>3. Said("engine", "text") = "text"
      BY <3>1, <3>2, SaidIsText
    <3>4. "text" \in Engines /\ "text" \notin DOMAIN Lowercase
      BY LowercaseAssumption DEF Engines
    <3>5. QED
      BY <3>3, <3>4 DEF Allowed, Lower
  <2>2. pattern = ""
    <3>1. Blank(Field(s, "text_pattern")) /\ Blank(Field(req.current, "text_pattern"))
      BY <1>9
    <3>2. Blank("")
      BY DEF Blank
    <3>3. PICK said, kept : said = Field(s, "text_pattern") /\ kept = Field(req.current, "text_pattern")
      OBVIOUS
    <3>4. pattern = First(<<said, kept, "">>)
      BY <3>3
    <3>5. Blank(said) /\ Blank(kept)
      BY <3>1, <3>3
    <3>6. First(<<said, kept, "">>) = ""
      BY ONLY <3>2, <3>5, SaidIsText
    <3>7. QED
      BY ONLY <3>4, <3>6
  <2>3. patterns.text_pattern = DefaultPattern
    BY <1>5, <2>1, <2>2
  <2>4. PICK ex : ex = ExampleOf(language, engine, TRUE, patterns.text_pattern)
    OBVIOUS
  <2>5. noncompliant = First(<<Field(s, "noncompliant_example"), Field(req.current, "noncompliant_example"), ex>>)
    BY <2>4
  <2> HIDE DEF language, engine, patterns, pattern, noncompliant
  <2>6. ex \in {"calls panic", "has debugger"}
    BY <2>1, <2>3, <2>4 DEF ExampleOf, DefaultPattern
  <2>7. ~Blank(ex)
    BY <2>6 DEF Blank
  <2>8. Blank(Field(s, "noncompliant_example")) /\ Blank(Field(req.current, "noncompliant_example"))
    BY <1>9
  <2>9. noncompliant = ex
    BY ONLY <2>5, <2>7, <2>8, SaidIsText
  <2>10. QED
    BY <2>6, <2>9
<1> HIDE DEF d, name, engine, language, pattern, patterns, type, severity, noncompliant, compliant, Said
<1>10. /\ d.engine = "text" => d.text_pattern # "" /\ d.tree_sitter_query = ""
       /\ d.engine = "go-ast" => d.language = "go" /\ d.target # "" /\ d.text_pattern = "" /\ d.tree_sitter_query = ""
       /\ d.engine = "tree-sitter" => d.tree_sitter_query # "" /\ d.text_pattern = ""
  BY <1>1, <1>3, <1>5
<1>11. d.engine \in {"text", "go-ast", "tree-sitter"}
  BY <1>1, <1>2 DEF Engines
<1>12. d.language \in Languages /\ d.type \in IssueTypes /\ d.severity \in Severities
       /\ d.noncompliant_example # "" /\ d.compliant_example # "" /\ d.name # ""
  BY <1>1, <1>3, <1>4, <1>6, <1>8
<1>13. SuggestionWhole(d, s, req.current)
  <2>1. CASE d.engine = "text"
    BY <1>1, <1>9, <1>10, <1>12, <2>1 DEF SuggestionWhole
  <2>2. CASE d.engine = "go-ast"
    BY <1>1, <1>9, <1>10, <1>12, <2>2 DEF SuggestionWhole
  <2>3. CASE d.engine = "tree-sitter"
    BY <1>1, <1>9, <1>10, <1>12, <2>3 DEF SuggestionWhole
  <2>4. QED
    BY <1>11, <2>1, <2>2, <2>3
<1>14. QED
  BY <1>13 DEF d

\* What the menu offers and what the last request came to.
OptionsSound(options) == \E S : options \in Seq(S) /\ \A o \in S : OptionSound(o)
ResultSound ==
    /\ result.kind \in {"failed", "draft"}
    /\ result.kind = "draft" => SuggestionWhole(result.draft, result.said, result.current)
    /\ \A p : result = NoDraft("key", p) => p \in CloudProviders \ AIKeys
AssistantInv == /\ OptionsSound(menu.options) /\ ResultSound
                /\ menu.todo \in Seq(CloudProviders \cup {"ollama"})

LEMMA AssistantAtFirst == AssistantInit => AssistantInv
<1> SUFFICES ASSUME AssistantInit PROVE AssistantInv
  OBVIOUS
<1>1. PICK none : none = <<>>
  OBVIOUS
<1>2. menu = [todo |-> none, options |-> none] /\ result = NoDraft("none", "")
  BY <1>1 DEF AssistantInit
<1>3. menu.todo = none /\ menu.options = none
  BY <1>2
<1>4. \A S : none \in Seq(S)
  BY <1>1, EmptySeq
<1>5. OptionsSound(menu.options)
  <2>1. none \in Seq({})
    BY <1>4
  <2>2. QED
    BY <1>3, <2>1 DEF OptionsSound
<1>6. ResultSound
  BY <1>2 DEF ResultSound, NoDraft
<1>7. QED
  BY <1>3, <1>4, <1>5, <1>6 DEF AssistantInv

LEMMA OpenMenuStep ==
  ASSUME AssistantInv, OpenMenu
  PROVE  AssistantInv'
<1>1. PICK none : none = <<>>
  OBVIOUS
<1>2. menu' = [todo |-> Providers, options |-> none] /\ result' = result
  BY <1>1 DEF OpenMenu
<1>3. menu'.todo = Providers /\ menu'.options = none
  BY <1>2
<1>4. none \in Seq({})
  BY <1>1, EmptySeq
<1>5. Providers \in Seq(CloudProviders \cup {"ollama"})
  BY DEF Providers, CloudProviders
<1>6. OptionsSound(menu'.options)
  BY <1>3, <1>4 DEF OptionsSound
<1>7. ResultSound'
  BY <1>2 DEF AssistantInv, ResultSound
<1>8. QED
  BY <1>3, <1>5, <1>6, <1>7 DEF AssistantInv, OptionsSound

LEMMA OptionsGrow ==
  ASSUME NEW options, OptionsSound(options), NEW option, OptionSound(option), NEW more, more = <<>> \/ more = <<MockProvider>>
  PROVE  OptionsSound(Append(options, option) \o more)
<1>1. PICK S : options \in Seq(S) /\ \A o \in S : OptionSound(o)
  BY DEF OptionsSound
<1>2. PICK T : T = S \cup {option, MockProvider}
  OBVIOUS
<1>3. \A o \in T : OptionSound(o)
  BY <1>1, <1>2, MockOptionSound
<1>4. options \in Seq(T) /\ option \in T /\ MockProvider \in T
  BY <1>1, <1>2, SeqMonotonic
<1>5. Append(options, option) \in Seq(T)
  BY <1>4, AppendProperties
<1>6. more \in Seq(T)
  <2>1. <<>> \in Seq(T)
    BY EmptySeq
  <2>2. <<MockProvider>> \in Seq(T)
    <3>1. \A m \in T : <<m>> \in Seq(T)
      OBVIOUS
    <3>2. QED
      BY <1>4, <3>1
  <2>3. QED
    BY <2>1, <2>2
<1>7. Append(options, option) \o more \in Seq(T)
  BY <1>5, <1>6, ConcatProperties
<1>8. QED
  BY <1>3, <1>7 DEF OptionsSound

LEMMA ProbeStep ==
  ASSUME AssistantInv, Probe
  PROVE  AssistantInv'
<1> DEFINE p == Head(menu.todo)
<1>1. PICK answer \in {"ok", "unauthorized", "other", "none"} : \E installed \in Installed :
         LET option == IF p = "ollama" THEN OllamaProvider(answer, installed) ELSE CloudProvider(p, answer)
         IN  menu' = [todo |-> Tail(menu.todo),
                      options |-> Append(menu.options, option) \o IF Len(menu.todo) = 1 /\ MockIsEnabled THEN <<MockProvider>> ELSE <<>>]
  BY DEF Probe
<1>2. PICK installed \in Installed :
         LET option == IF p = "ollama" THEN OllamaProvider(answer, installed) ELSE CloudProvider(p, answer)
         IN  menu' = [todo |-> Tail(menu.todo),
                      options |-> Append(menu.options, option) \o IF Len(menu.todo) = 1 /\ MockIsEnabled THEN <<MockProvider>> ELSE <<>>]
  BY <1>1
<1> DEFINE option == IF p = "ollama" THEN OllamaProvider(answer, installed) ELSE CloudProvider(p, answer)
           more == IF Len(menu.todo) = 1 /\ MockIsEnabled THEN <<MockProvider>> ELSE <<>>
<1>3. menu'.todo = Tail(menu.todo) /\ menu'.options = Append(menu.options, option) \o more
  <2> HIDE DEF option, more
  <2>1. menu' = [todo |-> Tail(menu.todo), options |-> Append(menu.options, option) \o more]
    BY <1>2 DEF option, more
  <2>2. QED
    BY <2>1
<1>4. menu.todo \in Seq(CloudProviders \cup {"ollama"}) /\ menu.todo # <<>>
  BY DEF AssistantInv, Probe
<1>5. p \in CloudProviders \cup {"ollama"} /\ Tail(menu.todo) \in Seq(CloudProviders \cup {"ollama"})
  BY <1>4, HeadTailProperties
<1>6. OptionSound(option)
  BY <1>5, OllamaOptionSound, CloudOptionSound
<1>7. more = <<>> \/ more = <<MockProvider>>
  OBVIOUS
<1>8. OptionsSound(menu.options)
  BY DEF AssistantInv
<1> HIDE DEF option, more
<1>9. OptionsSound(Append(menu.options, option) \o more)
  BY <1>6, <1>7, <1>8, OptionsGrow
<1>10. OptionsSound(menu.options)'
  <2>1. OptionsSound(menu'.options)
    BY <1>3, <1>9
  <2>2. QED
    BY <2>1 DEF OptionsSound
<1>11. ResultSound'
  BY DEF AssistantInv, ResultSound, Probe
<1>12. QED
  BY <1>3, <1>5, <1>10, <1>11 DEF AssistantInv

\* A request changes nothing but its result.
LEMMA DraftsAreSound ==
  ASSUME NEW s, NEW req, result' = Drafts(s, req)
  PROVE  ResultSound'
<1>1. result'.kind = "draft" /\ result'.draft = NormalizeSuggestion(s, req) /\ result'.said = s /\ result'.current = req.current
  BY DEF Drafts
<1>2. SuggestionWhole(result'.draft, result'.said, result'.current)
  BY <1>1, NormalizedIsWhole
<1>3. \A p : result' # NoDraft("key", p)
  BY <1>1 DEF NoDraft
<1>4. QED
  BY <1>1, <1>2, <1>3 DEF ResultSound

LEMMA FailuresAreSound ==
  ASSUME NEW reason, NEW p, result' = NoDraft(reason, p), reason = "key" => p \in CloudProviders \ AIKeys
  PROVE  ResultSound'
<1>1. result'.kind = "failed" /\ result'.reason = reason /\ result'.provider = p
  BY DEF NoDraft
<1>2. \A q : result' = NoDraft("key", q) => q = p /\ reason = "key"
  BY <1>1 DEF NoDraft
<1>3. QED
  BY <1>1, <1>2 DEF ResultSound

LEMMA DraftsStep ==
  ASSUME AssistantInv, NEW requests, NEW replies, DraftStep(requests, replies)
  PROVE  AssistantInv'
<1>1. UNCHANGED menu
  BY DEF DraftStep, AskForDraft, ProviderAnswers, ProviderFails
<1>2. ResultSound'
  <2>1. ASSUME NEW req \in requests, AskForDraft(req) PROVE ResultSound'
    <3> DEFINE p == Lower(req.provider)
    <3>1. \/ result' = NoDraft("incomplete", p) \/ result' = NoDraft("unsupported", p)
          \/ result' = Drafts(MockSuggestion(req), req)
          \/ (p \in CloudProviders \ AIKeys /\ result' = NoDraft("key", p))
          \/ result' = result
      BY <2>1 DEF AskForDraft
    <3> HIDE DEF p
    <3>2. CASE result' = NoDraft("incomplete", p)
      BY <3>2, FailuresAreSound
    <3>3. CASE result' = NoDraft("unsupported", p)
      BY <3>3, FailuresAreSound
    <3>4. CASE result' = Drafts(MockSuggestion(req), req)
      BY <3>4, DraftsAreSound
    <3>5. CASE p \in CloudProviders \ AIKeys /\ result' = NoDraft("key", p)
      BY <3>5, FailuresAreSound
    <3>6. CASE result' = result
      BY <3>6 DEF AssistantInv, ResultSound
    <3>7. QED
      BY <3>1, <3>2, <3>3, <3>4, <3>5, <3>6
  <2>2. ASSUME ProviderAnswers(replies) PROVE ResultSound'
    <3>1. (\E draft \in replies : result' = Drafts(draft, request)) \/ result' = NoDraft("answer", request.provider)
      BY <2>2 DEF ProviderAnswers
    <3>2. QED
      BY <3>1, DraftsAreSound, FailuresAreSound
  <2>3. ASSUME ProviderFails PROVE ResultSound'
    <3>1. result' = NoDraft("provider", request.provider)
      BY <2>3 DEF ProviderFails
    <3>2. QED
      BY <3>1, FailuresAreSound
  <2>4. QED
    BY <2>1, <2>2, <2>3 DEF DraftStep
<1>3. QED
  BY <1>1, <1>2 DEF AssistantInv, OptionsSound

LEMMA AssistantFollows == AssistantInv => StudioDrafts
<1> SUFFICES ASSUME AssistantInv PROVE StudioDrafts
  OBVIOUS
<1>1. ASSUME NEW k \in DOMAIN menu.options PROVE OptionSound(menu.options[k])
  <2>1. PICK S : menu.options \in Seq(S) /\ \A o \in S : OptionSound(o)
    BY DEF AssistantInv, OptionsSound
  <2>2. menu.options[k] \in S
    BY <2>1, ElementOfSeq
  <2>3. QED
    BY <2>1, <2>2
<1>2. AssistantTypeOK
  BY <1>1 DEF AssistantTypeOK, OptionSound, AssistantInv, ResultSound
<1>3. MenuIsTrue
  BY <1>1 DEF MenuIsTrue, OptionSound, AssistantInv, ResultSound
<1>4. DraftIsWhole
  <2>1. result.kind = "draft" => SuggestionWhole(result.draft, result.said, result.current)
    BY DEF AssistantInv, ResultSound
  <2>2. QED
    BY <2>1 DEF DraftIsWhole, SuggestionWhole
<1>5. QED
  BY <1>2, <1>3, <1>4 DEF StudioDrafts

\* Whatever providers answer and whatever users ask for: a provider that is offered as connected proposes a
\* model it lists and does not refuse a draft for want of a key, and a draft that is shown is whole, with the
\* pattern of its engine and no other one.
THEOREM StudioDraftsAreWhole == AssistantSpec => []StudioDrafts
<1>1. AssistantInit => AssistantInv
  BY AssistantAtFirst
<1>2. AssistantInv /\ [AssistantNext]_assistantVars => AssistantInv'
  <2> SUFFICES ASSUME AssistantInv, [AssistantNext]_assistantVars PROVE AssistantInv'
    OBVIOUS
  <2>1. CASE UNCHANGED assistantVars
    BY <2>1 DEF assistantVars, AssistantInv, OptionsSound, ResultSound
  <2>2. QED
    BY <2>1, OpenMenuStep, ProbeStep, DraftsStep DEF AssistantNext
<1>3. AssistantInv => StudioDrafts
  BY AssistantFollows
<1>4. QED
  BY <1>1, <1>2, <1>3, PTL DEF AssistantSpec
================================================================================
