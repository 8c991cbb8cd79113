------------------------------ MODULE StateSchema ------------------------------
(***************************************************************************)
(* The PostgreSQL state database during a rollout: migration jobs of this  *)
(* release, an older and a newer one apply their migrations (the external  *)
(* golang-migrate, as MigratePostgreSQL in                                 *)
(* src/internal/statedb/postgresql_migrate.go uses it) while replicas of   *)
(* this release start and answer health probes (NewPostgreSQL, CheckSchema *)
(* and CheckRuntime in src/internal/statedb/postgresql.go, Store.Ready,    *)
(* HandleHealth).                                                          *)
(*                                                                         *)
(* Migrations are numbered; `tables` is the last one whose transaction     *)
(* committed, `meta` the row of schema_migrations (version 0: no row).     *)
(* Migration 2 moves the tables to the public schema, where the runtime    *)
(* checks look for them.  A check is three queries, and a migration may    *)
(* run between them.  A replica answers one probe at a time.               *)
(***************************************************************************)
EXTENDS Naturals

CONSTANTS
    Replicas,        \* replicas of this release
    Jobs,            \* runs of the migrate command
    Newest,          \* the last migration of the newest release in the rollout, >= SchemaVersion
    None

SchemaVersion == 2

VARIABLES
    tables,    \* the last committed migration
    meta,      \* the migration metadata
    lock,      \* the job that holds the advisory lock
    job,       \* the migration jobs
    granted,   \* the runtime role has its privileges on every table of this version
    replica    \* the replicas

vars == <<tables, meta, lock, job, granted, replica>>

Versions == 0 .. Newest
IdleJob == [pc |-> "idle"]
Down == [pc |-> "down", ready |-> FALSE, on |-> 0]

TypeOK ==
    /\ tables \in Versions
    /\ meta \in [version : Versions, dirty : BOOLEAN]
    /\ lock \in Jobs \cup {None}
    /\ job \in [Jobs -> {IdleJob} \cup
          [pc : {"locking", "begin", "run", "commit"}, target : 1 .. Newest]]
    /\ granted \subseteq Versions
    /\ replica \in [Replicas ->
          [pc : {"down", "version", "privileges", "probe", "serving",
                 "versionAgain", "privilegesAgain", "probeAgain"},
           ready : BOOLEAN, on : Versions]]

\* A database as some release left it, whole.
Init ==
    /\ tables \in Versions
    /\ meta = [version |-> tables, dirty |-> FALSE]
    /\ lock = None
    /\ job = [j \in Jobs |-> IdleJob]
    /\ granted \in SUBSET {tables}
    /\ replica = [r \in Replicas |-> Down]

--------------------------------------------------------------------------------
(* Migration jobs *)

\* A release's job starts and asks for the advisory lock.
MigratePostgreSQL(j, target) ==
    /\ job[j] = IdleJob
    /\ job' = [job EXCEPT ![j] = [pc |-> "locking", target |-> target]]
    /\ UNCHANGED <<tables, meta, lock, granted, replica>>

Lock(j) ==
    /\ job[j].pc = "locking" /\ lock = None
    /\ lock' = j
    /\ job' = [job EXCEPT ![j].pc = "begin"]
    /\ UNCHANGED <<tables, meta, granted, replica>>

\* Up refuses dirty metadata and a version it has no file for.
Applicable(j) == ~meta.dirty /\ meta.version < job[j].target

\* The next migration is announced, dirty, before it runs.
SetDirty(j) ==
    /\ job[j].pc = "begin" /\ Applicable(j)
    /\ meta' = [version |-> meta.version + 1, dirty |-> TRUE]
    /\ job' = [job EXCEPT ![j].pc = "run"]
    /\ UNCHANGED <<tables, lock, granted, replica>>

\* The migration's transaction commits.  Tables it altered keep the runtime role's grants,
\* tables it created come without.
RunMigration(j) ==
    /\ job[j].pc = "run"
    /\ tables' = meta.version
    /\ \E creates \in BOOLEAN :
          granted' = IF creates \/ tables \notin granted
                     THEN granted ELSE granted \cup {meta.version}
    /\ job' = [job EXCEPT ![j].pc = "commit"]
    /\ UNCHANGED <<meta, lock, replica>>

SetClean(j) ==
    /\ job[j].pc = "commit"
    /\ meta' = [meta EXCEPT !.dirty = FALSE]
    /\ job' = [job EXCEPT ![j].pc = "begin"]
    /\ UNCHANGED <<tables, lock, granted, replica>>

\* The job ends: finished or refused, out of time for the lock, a failed statement, or the
\* process is gone.  What it had announced stays dirty, and its session's lock is released.
EndJob(j) ==
    /\ job[j] # IdleJob
    /\ job' = [job EXCEPT ![j] = IdleJob]
    /\ lock' = IF lock = j THEN None ELSE lock
    /\ UNCHANGED <<tables, meta, granted, replica>>

\* The operator repairs dirty metadata after confirming the schema's state.
Repair ==
    /\ lock = None /\ meta.dirty
    /\ meta' = [version |-> tables, dirty |-> FALSE]
    /\ UNCHANGED <<tables, lock, job, granted, replica>>

Grant ==
    /\ granted' = granted \cup {tables}
    /\ granted' # granted
    /\ UNCHANGED <<tables, meta, lock, job, replica>>

--------------------------------------------------------------------------------
(* Replicas of this release *)

\* NewPostgreSQL connects and begins its checks.
StartReplica(r) ==
    /\ replica[r] = Down
    /\ replica' = [replica EXCEPT ![r].pc = "version"]
    /\ UNCHANGED <<tables, meta, lock, job, granted>>

\* Mutants: a dirty schema is accepted; a newer one is.
CompatibleDirty == meta.version = SchemaVersion
CompatibleOrNewer == ~meta.dirty /\ meta.version >= SchemaVersion

\* CheckSchema's conditions on the row it read.
Compatible == ~meta.dirty /\ meta.version = SchemaVersion

\* The runtime role has its privileges, and there are tables in the public schema.
Allowed == tables >= SchemaVersion /\ tables \in granted

\* The table the last query reads is in the public schema.
Probed == tables >= SchemaVersion

\* One query of CheckRuntime at startup: the first failure ends the process.
StartupQuery(r, pc, holds, next) ==
    /\ replica[r].pc = pc
    /\ replica' = [replica EXCEPT ![r] =
          IF holds
          THEN [pc |-> next, ready |-> next = "serving",
                on |-> IF pc = "version" THEN tables ELSE @.on]
          ELSE Down]
    /\ UNCHANGED <<tables, meta, lock, job, granted>>

CheckSchema(r) == StartupQuery(r, "version", Compatible, "privileges")
CheckPrivileges(r) == StartupQuery(r, "privileges", Allowed, "probe")
CheckTables(r) == StartupQuery(r, "probe", Probed, "serving")

\* A health probe arrives.
Probe(r) ==
    /\ replica[r].pc = "serving"
    /\ replica' = [replica EXCEPT ![r].pc = "versionAgain"]
    /\ UNCHANGED <<tables, meta, lock, job, granted>>

\* One query of Ready for PostgreSQL: the first failure answers that the replica is not
\* ready, and the last success that it is.  It goes on serving either way.
ReadyQuery(r, pc, holds, next) ==
    /\ replica[r].pc = pc
    /\ replica' = [replica EXCEPT ![r].pc = IF holds THEN next ELSE "serving",
                                  ![r].ready = IF holds /\ next # "serving" THEN @ ELSE holds]
    /\ UNCHANGED <<tables, meta, lock, job, granted>>

ReadySchema(r) == ReadyQuery(r, "versionAgain", Compatible, "privilegesAgain")
ReadyPrivileges(r) == ReadyQuery(r, "privilegesAgain", Allowed, "probeAgain")
ReadyTables(r) == ReadyQuery(r, "probeAgain", Probed, "serving")

\* A query fails or exceeds query_timeout.
QueryFails(r) ==
    /\ replica[r].pc \notin {"down", "serving"}
    /\ replica' = [replica EXCEPT ![r] =
          IF @.pc \in {"version", "privileges", "probe"}
          THEN Down ELSE [@ EXCEPT !.pc = "serving", !.ready = FALSE]]
    /\ UNCHANGED <<tables, meta, lock, job, granted>>

StopReplica(r) ==
    /\ replica[r].pc # "down"
    /\ replica' = [replica EXCEPT ![r] = Down]
    /\ UNCHANGED <<tables, meta, lock, job, granted>>

Health(r) == Probe(r) \/ ReadySchema(r) \/ ReadyPrivileges(r) \/ ReadyTables(r)

Next ==
    \/ \E j \in Jobs :
          \/ \E target \in 1 .. Newest : MigratePostgreSQL(j, target)
          \/ Lock(j) \/ SetDirty(j) \/ RunMigration(j) \/ SetClean(j) \/ EndJob(j)
    \/ Repair \/ Grant
    \/ \E r \in Replicas :
          \/ StartReplica(r) \/ CheckSchema(r) \/ CheckPrivileges(r) \/ CheckTables(r)
          \/ Health(r) \/ QueryFails(r) \/ StopReplica(r)

Spec == Init /\ [][Next]_vars

\* The load balancer or kubelet keeps probing, and each of a probe's queries ends.
Fairness == \A r \in Replicas : WF_vars(Health(r))

FairSpec == Spec /\ Fairness

--------------------------------------------------------------------------------
(* Properties *)

\* A replica that got past CheckSchema found, at that moment, exactly the tables this release
\* was written for: a migration that has run is announced before, a job that failed or died
\* leaves its mark, two jobs of different releases do not interleave, and a row that says the
\* version is clean is never ahead of or behind the tables.
StartsOnItsTables ==
    \A r \in Replicas : replica[r].pc # "down" /\ replica[r].pc # "version" =>
        replica[r].on = SchemaVersion

\* A replica that keeps running while a newer release migrates the database under it
\* stops reporting itself ready, for good: every probe checks the schema again, and a probe
\* that read the version before the migration only delays it.
StaleReplicaNotReady ==
    \A r \in Replicas :
        tables > SchemaVersion ~> [](~replica[r].ready)

================================================================================
