---------------------------- MODULE LifecycleProofs ----------------------------
(***************************************************************************)
(* Theorems about how replicas start, run and stop, for any number of      *)
(* requests, certificates, replicas, migration jobs and processes:         *)
(*   Serve        the cleanup goroutine finds its store open;              *)
(*   StateSchema  a replica starts on the tables of its release;           *)
(*   StatePath    no server runs on state that others can read.            *)
(***************************************************************************)
EXTENDS MCLifecycle, TLAPS

CONSTANT Processes

VARIABLES umask, directory, file, process

Path == INSTANCE StatePath

--------------------------------------------------------------------------------
(* Serve *)

\* The files, the goroutines and the requests keep their types (serve).
THEOREM ServeTypeCorrect == Spec => []TypeOK
<1> USE ServeAssumption
<1>1. Init => TypeOK
  BY DEF Init, TypeOK, Off
<1>2. TypeOK /\ [Next]_vars => TypeOK'
  <2> SUFFICES ASSUME TypeOK, [Next]_vars PROVE TypeOK'
    OBVIOUS
  <2> USE DEF TypeOK
  <2>1. CASE LoadCertificate
    BY <2>1 DEF LoadCertificate, files
  <2>2. CASE OpenPolicy
    BY <2>2 DEF OpenPolicy, tlsVars
  <2>3. CASE LoadKeys
    BY <2>3 DEF LoadKeys, tlsVars
  <2>4. CASE OpenStore
    BY <2>4 DEF OpenStore, tlsVars
  <2>5. CASE ServerError
    BY <2>5 DEF ServerError, Return, tlsVars
  <2>6. CASE Shutdown
    BY <2>6 DEF Shutdown, tlsVars
  <2>7. CASE FinishShutdown
    BY <2>7 DEF FinishShutdown, Return, tlsVars
  <2>8. CASE GraceElapses
    BY <2>8 DEF GraceElapses, Return, tlsVars
  <2>9. CASE StopCleaner
    BY <2>9 DEF StopCleaner, CleanerEnded, tlsVars
  <2>10. CASE CloseStore
    BY <2>10 DEF CloseStore, tlsVars
  <2>11. CASE ClosePolicy
    BY <2>11 DEF ClosePolicy, files
  <2>12. CASE StartupFails
    BY <2>12 DEF StartupFails, Return, tlsVars
  <2>13. CASE Listen
    BY <2>13 DEF Listen, tlsVars
  <2>14. CASE ListenFails
    BY <2>14 DEF ListenFails, tlsVars
  <2>15. CASE Signal
    BY <2>15 DEF Signal, tlsVars
  <2>16. CASE ReloadTick
    BY <2>16 DEF ReloadTick, files
  <2>17. CASE ReloadRead
    BY <2>17 DEF ReloadRead, files, Off
  <2>18. CASE ReloadEnds
    BY <2>18 DEF ReloadEnds, files
  <2>19. CASE RotateCertificate
    BY <2>19 DEF RotateCertificate
  <2>20. CASE RotateKey
    BY <2>20 DEF RotateKey
  <2>21. CASE CleanupBegins
    BY <2>21 DEF CleanupBegins, tlsVars
  <2>22. CASE CleanupEnds
    BY <2>22 DEF CleanupEnds, tlsVars
  <2>23. ASSUME NEW r \in Requests,
                Arrive(r) \/ UseStore(r) \/ UsePolicy(r) \/ QueryEnds(r) \/ Answer(r)
         PROVE  TypeOK'
    BY <2>23 DEF Arrive, UseStore, UsePolicy, QueryEnds, Answer, Moved, tlsVars
  <2>24. CASE Halted \/ UNCHANGED vars
    BY <2>24 DEF Halted, vars
  <2> QED
    BY <2>1, <2>2, <2>3, <2>4, <2>5, <2>6, <2>7, <2>8, <2>9, <2>10, <2>11, <2>12, <2>13, <2>14,
       <2>15, <2>16, <2>17, <2>18, <2>19, <2>20, <2>21, <2>22, <2>23, <2>24 DEF Next, Main
<1> QED
  BY <1>1, <1>2, PTL DEF Spec

\* The store is open from OpenStore to CloseStore, the cleanup goroutine lives
\* from OpenStore to StopCleaner, and serve stands at its calls in that order.
CleanerInv ==
    /\ pc \in {"certificate", "policy", "keys", "store"} => store = "closed" /\ cleaner = "off"
    /\ pc \in {"select", "draining", "stopCleaner"} => store = "open"
    /\ pc = "closeStore" => cleaner = "cancelled"
    /\ pc \in {"closePolicy", "exited"} => cleaner \in {"off", "cancelled"}

\* The order of serve's deferred calls keeps the database open for the cleanup:
\* Store.Close waits for the goroutine before it closes the handle, and a
\* startup that failed before OpenStore has neither.
THEOREM CleanupFindsStoreHolds == Spec => []CleanupFindsStore
<1>1. Init => CleanerInv
  BY DEF Init, CleanerInv
<1>2. CleanerInv /\ TypeOK /\ [Next]_vars => CleanerInv'
  <2> SUFFICES ASSUME CleanerInv, TypeOK, [Next]_vars PROVE CleanerInv'
    OBVIOUS
  <2> USE DEF CleanerInv
  <2>1. CASE LoadCertificate \/ OpenPolicy \/ LoadKeys \/ OpenStore \/ StartupFails
    BY <2>1 DEF LoadCertificate, OpenPolicy, LoadKeys, OpenStore, StartupFails, Return
  <2>2. CASE ServerError \/ Shutdown \/ FinishShutdown \/ GraceElapses
    BY <2>2 DEF ServerError, Shutdown, FinishShutdown, GraceElapses, Return
  <2>3. CASE StopCleaner
    BY <2>3 DEF StopCleaner, CleanerEnded
  <2>4. CASE CloseStore \/ ClosePolicy
    BY <2>4 DEF CloseStore, ClosePolicy
  <2>5. CASE CleanupBegins \/ CleanupEnds
    BY <2>5 DEF CleanupBegins, CleanupEnds
  <2>6. ASSUME UNCHANGED <<pc, store, cleaner>> PROVE CleanerInv'
    BY <2>6
  <2>7. CASE Listen \/ ListenFails \/ Signal
    BY <2>6, <2>7 DEF Listen, ListenFails, Signal
  <2>8. CASE ReloadTick \/ ReloadRead \/ ReloadEnds \/ RotateCertificate \/ RotateKey
    BY <2>6, <2>8 DEF ReloadTick, ReloadRead, ReloadEnds, RotateCertificate, RotateKey
  <2>9. ASSUME NEW r \in Requests,
               Arrive(r) \/ UseStore(r) \/ UsePolicy(r) \/ QueryEnds(r) \/ Answer(r)
        PROVE  CleanerInv'
    BY <2>6, <2>9 DEF Arrive, UseStore, UsePolicy, QueryEnds, Answer, Moved
  <2>10. CASE Halted \/ UNCHANGED vars
    BY <2>6, <2>10 DEF Halted, vars
  <2> QED
    BY <2>1, <2>2, <2>3, <2>4, <2>5, <2>7, <2>8, <2>9, <2>10 DEF Next, Main
<1>3. CleanerInv /\ TypeOK => CleanupFindsStore
  BY DEF CleanerInv, TypeOK, CleanupFindsStore
<1> QED
  BY <1>1, <1>2, <1>3, ServeTypeCorrect, PTL DEF Spec

--------------------------------------------------------------------------------
(* StateSchema *)

\* A query of a replica's startup moves the replica on or ends it, and only the
\* first one notes the tables it found (StartupQuery).
LEMMA StartupQueryMoves ==
    ASSUME Schema!TypeOK, NEW r \in Replicas, NEW from, NEW holds,
           NEW next \in {"privileges", "probe", "serving"},
           Schema!StartupQuery(r, from, holds, next)
    PROVE  \E ready \in BOOLEAN, on \in {tables, replica[r].on} :
              /\ from # "version" => on = replica[r].on
              /\ replica' = [replica EXCEPT ![r] =
                    IF holds THEN [pc |-> next, ready |-> ready, on |-> on] ELSE Schema!Down]
<1> DEFINE ready == next = "serving"
           on == IF from = "version" THEN tables ELSE replica[r].on
           passed == [pc |-> next, ready |-> ready, on |-> on]
<1>2. ready \in BOOLEAN
  BY Zenon
<1>3. on \in {tables, replica[r].on} /\ (from # "version" => on = replica[r].on)
  OBVIOUS
<1>4. replica' = [replica EXCEPT ![r] = IF holds THEN passed ELSE Schema!Down]
  BY Zenon DEF Schema!StartupQuery
<1> QED
  BY <1>2, <1>3, <1>4, Zenon

\* The schema, the jobs and the replicas keep their types (MigratePostgreSQL,
\* CheckRuntime): no job announces a migration beyond its release's last one.
THEOREM SchemaTypeCorrect == Schema!Spec => []Schema!TypeOK
<1> USE SchemaAssumption
<1>1. Schema!Init => Schema!TypeOK
  BY DEF Schema!Init, Schema!TypeOK, Schema!Down, Schema!IdleJob, Schema!Versions
<1>2. Schema!TypeOK /\ [Schema!Next]_Schema!vars => Schema!TypeOK'
  <2> SUFFICES ASSUME Schema!TypeOK, [Schema!Next]_Schema!vars PROVE Schema!TypeOK'
    OBVIOUS
  <2> USE DEF Schema!TypeOK, Schema!Versions, Schema!IdleJob, Schema!Down
  <2>1. ASSUME NEW j \in Jobs, NEW target \in 1 .. Newest, Schema!MigratePostgreSQL(j, target)
        PROVE  Schema!TypeOK'
    BY <2>1 DEF Schema!MigratePostgreSQL
  <2>2. ASSUME NEW j \in Jobs, Schema!Lock(j) PROVE Schema!TypeOK'
    BY <2>2 DEF Schema!Lock
  <2>3. ASSUME NEW j \in Jobs, Schema!SetDirty(j) PROVE Schema!TypeOK'
    BY <2>3 DEF Schema!SetDirty, Schema!Applicable
  <2>4. ASSUME NEW j \in Jobs, Schema!RunMigration(j) PROVE Schema!TypeOK'
    BY <2>4 DEF Schema!RunMigration
  <2>5. ASSUME NEW j \in Jobs, Schema!SetClean(j) PROVE Schema!TypeOK'
    <3>1. job[j].pc \in {"locking", "begin", "run", "commit"} => job[j].target \in 1 .. Newest
      OBVIOUS
    <3>2. [job[j] EXCEPT !.pc = "begin"] \in
             [pc : {"locking", "begin", "run", "commit"}, target : 1 .. Newest]
      BY <2>5, <3>1 DEF Schema!SetClean
    <3>3. job' \in [Jobs -> {[pc |-> "idle"]} \cup
             [pc : {"locking", "begin", "run", "commit"}, target : 1 .. Newest]]
      BY <2>5, <3>2 DEF Schema!SetClean
    <3>4. meta' \in [version : 0 .. Newest, dirty : BOOLEAN]
      BY <2>5 DEF Schema!SetClean
    <3> QED
      BY <2>5, <3>3, <3>4 DEF Schema!SetClean
  <2>6. ASSUME NEW j \in Jobs, Schema!EndJob(j) PROVE Schema!TypeOK'
    BY <2>6 DEF Schema!EndJob
  <2>7. CASE Schema!Repair
    BY <2>7 DEF Schema!Repair
  <2>8. CASE Schema!Grant
    BY <2>8 DEF Schema!Grant
  <2>9. ASSUME NEW r \in Replicas, Schema!StartReplica(r) PROVE Schema!TypeOK'
    BY <2>9 DEF Schema!StartReplica
  <2>10. ASSUME NEW r \in Replicas,
                Schema!CheckSchema(r) \/ Schema!CheckPrivileges(r) \/ Schema!CheckTables(r)
         PROVE  Schema!TypeOK'
    <3>1. ASSUME NEW from, NEW holds, NEW next \in {"privileges", "probe", "serving"},
                 Schema!StartupQuery(r, from, holds, next)
          PROVE  Schema!TypeOK'
      <4>1. PICK ready \in BOOLEAN, on \in {tables, replica[r].on} :
                replica' = [replica EXCEPT ![r] =
                    IF holds THEN [pc |-> next, ready |-> ready, on |-> on] ELSE Schema!Down]
        BY <3>1, StartupQueryMoves
      <4> QED
        BY <3>1, <4>1 DEF Schema!StartupQuery
    <3> QED
      BY <2>10, <3>1 DEF Schema!CheckSchema, Schema!CheckPrivileges, Schema!CheckTables
  <2>11. ASSUME NEW r \in Replicas, Schema!Probe(r) PROVE Schema!TypeOK'
    BY <2>11 DEF Schema!Probe
  <2>12. ASSUME NEW r \in Replicas,
                Schema!ReadySchema(r) \/ Schema!ReadyPrivileges(r) \/ Schema!ReadyTables(r)
         PROVE  Schema!TypeOK'
    BY <2>12 DEF Schema!ReadySchema, Schema!ReadyPrivileges, Schema!ReadyTables,
       Schema!ReadyQuery, Schema!Compatible, Schema!Allowed, Schema!Probed
  <2>13. ASSUME NEW r \in Replicas, Schema!QueryFails(r) \/ Schema!StopReplica(r)
         PROVE  Schema!TypeOK'
    <3> DEFINE State == [pc : {"down", "version", "privileges", "probe", "serving",
                               "versionAgain", "privilegesAgain", "probeAgain"},
                         ready : BOOLEAN, on : 0 .. Newest]
               failed == [replica[r] EXCEPT !.pc = "serving", !.ready = FALSE]
    <3>1. failed \in State
      OBVIOUS
    <3>2. Schema!Down \in State
      OBVIOUS
    <3>3. PICK to \in {failed, Schema!Down} : replica' = [replica EXCEPT ![r] = to]
      BY <2>13 DEF Schema!QueryFails, Schema!StopReplica
    <3> HIDE DEF failed, Schema!Down
    <3>4. replica' \in [Replicas -> State]
      BY <3>1, <3>2, <3>3
    <3> QED
      BY <2>13, <3>4 DEF Schema!QueryFails, Schema!StopReplica
  <2>14. CASE UNCHANGED Schema!vars
    BY <2>14 DEF Schema!vars
  <2> QED
    BY <2>1, <2>2, <2>3, <2>4, <2>5, <2>6, <2>7, <2>8, <2>9, <2>10, <2>11, <2>12, <2>13, <2>14
       DEF Schema!Next, Schema!Health
<1> QED
  BY <1>1, <1>2, PTL DEF Schema!Spec

\* A job past its lock holds it, and the metadata tells what it is doing: a
\* migration that has been announced and has not ended is dirty, and metadata
\* that is clean names the tables that are there.
MigrationInv ==
    /\ ~meta.dirty => meta.version = tables
    /\ \A j \in Jobs :
          /\ job[j].pc \in {"begin", "run", "commit"} => lock = j
          /\ job[j].pc = "run" => meta.dirty
          /\ job[j].pc = "commit" => meta.dirty /\ meta.version = tables

\* Of the jobs of three releases only the holder of the lock writes, and the
\* operator repairs the metadata only when nobody holds it.
LEMMA MigrationInvNext ==
    ASSUME Schema!TypeOK, MigrationInv, [Schema!Next]_Schema!vars
    PROVE  MigrationInv'
<1> USE SchemaAssumption DEF MigrationInv, Schema!TypeOK, Schema!Versions
<1>1. ASSUME NEW j \in Jobs, NEW target \in 1 .. Newest, Schema!MigratePostgreSQL(j, target)
      PROVE  MigrationInv'
  BY <1>1 DEF Schema!MigratePostgreSQL
<1>2. ASSUME NEW j \in Jobs, Schema!Lock(j) PROVE MigrationInv'
  BY <1>2 DEF Schema!Lock
<1>3. ASSUME NEW j \in Jobs, Schema!SetDirty(j) PROVE MigrationInv'
  BY <1>3 DEF Schema!SetDirty
<1>4. ASSUME NEW j \in Jobs, Schema!RunMigration(j) PROVE MigrationInv'
  BY <1>4 DEF Schema!RunMigration
<1>5. ASSUME NEW j \in Jobs, Schema!SetClean(j) PROVE MigrationInv'
  BY <1>5 DEF Schema!SetClean
<1>6. ASSUME NEW j \in Jobs, Schema!EndJob(j) PROVE MigrationInv'
  BY <1>6 DEF Schema!EndJob, Schema!IdleJob
<1>7. CASE Schema!Repair
  BY <1>7 DEF Schema!Repair
<1>8. ASSUME UNCHANGED <<tables, meta, lock, job>> PROVE MigrationInv'
  BY <1>8
<1>9. CASE Schema!Grant \/ UNCHANGED Schema!vars
  BY <1>8, <1>9 DEF Schema!Grant, Schema!vars
<1>10. ASSUME NEW r \in Replicas,
              \/ Schema!StartReplica(r) \/ Schema!CheckSchema(r) \/ Schema!CheckPrivileges(r)
              \/ Schema!CheckTables(r) \/ Schema!Health(r) \/ Schema!QueryFails(r)
              \/ Schema!StopReplica(r)
       PROVE  MigrationInv'
  BY <1>8, <1>10 DEF Schema!StartReplica, Schema!CheckSchema, Schema!CheckPrivileges,
     Schema!CheckTables, Schema!StartupQuery, Schema!Health, Schema!Probe, Schema!ReadySchema,
     Schema!ReadyPrivileges, Schema!ReadyTables, Schema!ReadyQuery, Schema!QueryFails,
     Schema!StopReplica
<1> QED
  BY <1>1, <1>2, <1>3, <1>4, <1>5, <1>6, <1>7, <1>9, <1>10 DEF Schema!Next

\* The clean row of the metadata never names other tables than the database has,
\* and the dirty one is left by a job that failed, died or is still at work: the
\* advisory lock and the announcement before each migration (MigratePostgreSQL).
THEOREM MigrationInvariant == Schema!Spec => []MigrationInv
<1>1. Schema!Init => MigrationInv
  BY DEF Schema!Init, MigrationInv, Schema!IdleJob
<1>2. Schema!TypeOK /\ MigrationInv /\ [Schema!Next]_Schema!vars => MigrationInv'
  BY MigrationInvNext
<1> QED
  BY <1>1, <1>2, SchemaTypeCorrect, PTL DEF Schema!Spec

\* A replica's step past the version check is taken on the tables of its release.
LEMMA StartsNext ==
    ASSUME Schema!TypeOK, MigrationInv, StartsOnItsTables, [Schema!Next]_Schema!vars
    PROVE  StartsOnItsTables'
<1> USE DEF StartsOnItsTables, Schema!StartsOnItsTables, Schema!TypeOK, Schema!Versions
<1>1. ASSUME NEW r \in Replicas, Schema!CheckSchema(r) PROVE StartsOnItsTables'
  BY <1>1 DEF Schema!CheckSchema, Schema!StartupQuery, Schema!Compatible, Schema!Down,
     Schema!SchemaVersion, MigrationInv
<1>2. ASSUME NEW r \in Replicas, Schema!CheckPrivileges(r) PROVE StartsOnItsTables'
  <2>1. PICK ready \in BOOLEAN, on \in {tables, replica[r].on} :
           /\ on = replica[r].on
           /\ replica' = [replica EXCEPT ![r] =
                 IF Schema!Allowed THEN [pc |-> "probe", ready |-> ready, on |-> on]
                 ELSE Schema!Down]
    BY <1>2, StartupQueryMoves DEF Schema!CheckPrivileges
  <2>2. replica[r].pc = "privileges"
    BY <1>2 DEF Schema!CheckPrivileges, Schema!StartupQuery
  <2> QED
    BY <2>1, <2>2 DEF Schema!Down, Schema!SchemaVersion
<1>3. ASSUME NEW r \in Replicas, Schema!CheckTables(r) PROVE StartsOnItsTables'
  <2>1. PICK ready \in BOOLEAN, on \in {tables, replica[r].on} :
           /\ on = replica[r].on
           /\ replica' = [replica EXCEPT ![r] =
                 IF Schema!Probed THEN [pc |-> "serving", ready |-> ready, on |-> on]
                 ELSE Schema!Down]
    BY <1>3, StartupQueryMoves DEF Schema!CheckTables
  <2>2. replica[r].pc = "probe"
    BY <1>3 DEF Schema!CheckTables, Schema!StartupQuery
  <2> QED
    BY <2>1, <2>2 DEF Schema!Down, Schema!SchemaVersion
<1>4. ASSUME NEW r \in Replicas, Schema!StartReplica(r) PROVE StartsOnItsTables'
  BY <1>4 DEF Schema!StartReplica
<1>5. ASSUME NEW r \in Replicas, Schema!Probe(r) PROVE StartsOnItsTables'
  BY <1>5 DEF Schema!Probe
<1>6. ASSUME NEW r \in Replicas, Schema!ReadySchema(r) PROVE StartsOnItsTables'
  BY <1>6 DEF Schema!ReadySchema, Schema!ReadyQuery
<1>7. ASSUME NEW r \in Replicas, Schema!ReadyPrivileges(r) PROVE StartsOnItsTables'
  BY <1>7 DEF Schema!ReadyPrivileges, Schema!ReadyQuery
<1>8. ASSUME NEW r \in Replicas, Schema!ReadyTables(r) PROVE StartsOnItsTables'
  BY <1>8 DEF Schema!ReadyTables, Schema!ReadyQuery
<1>9. ASSUME NEW r \in Replicas, Schema!QueryFails(r) PROVE StartsOnItsTables'
  BY <1>9 DEF Schema!QueryFails, Schema!Down
<1>10. ASSUME NEW r \in Replicas, Schema!StopReplica(r) PROVE StartsOnItsTables'
  BY <1>10 DEF Schema!StopReplica, Schema!Down
<1>11. ASSUME replica' = replica PROVE StartsOnItsTables'
  BY <1>11 DEF Schema!SchemaVersion
<1>12. ASSUME NEW j \in Jobs,
              \/ \E target \in 1 .. Newest : Schema!MigratePostgreSQL(j, target)
              \/ Schema!Lock(j) \/ Schema!SetDirty(j) \/ Schema!RunMigration(j)
              \/ Schema!SetClean(j) \/ Schema!EndJob(j)
       PROVE  StartsOnItsTables'
  BY <1>11, <1>12 DEF Schema!MigratePostgreSQL, Schema!Lock, Schema!SetDirty,
     Schema!RunMigration, Schema!SetClean, Schema!EndJob
<1>13. CASE Schema!Repair \/ Schema!Grant \/ UNCHANGED Schema!vars
  BY <1>11, <1>13 DEF Schema!Repair, Schema!Grant, Schema!vars
<1> QED
  BY <1>1, <1>2, <1>3, <1>4, <1>5, <1>6, <1>7, <1>8, <1>9, <1>10, <1>12, <1>13
     DEF Schema!Next, Schema!Health

\* For any number of jobs, releases and replicas: whichever migrations run, fail,
\* die and are repaired while it starts, a replica that got past CheckSchema found
\* the tables of this release.
THEOREM StartsOnItsTablesHolds == Schema!Spec => []StartsOnItsTables
<1>1. Schema!Init => StartsOnItsTables
  BY DEF Schema!Init, StartsOnItsTables, Schema!StartsOnItsTables, Schema!Down
<1>2. Schema!TypeOK /\ MigrationInv /\ StartsOnItsTables /\ [Schema!Next]_Schema!vars =>
         StartsOnItsTables'
  BY StartsNext
<1> QED
  BY <1>1, <1>2, SchemaTypeCorrect, MigrationInvariant, PTL DEF Schema!Spec

--------------------------------------------------------------------------------
(* StatePath: the inductive invariant follows serve from its inspection of *)
(* the directory on.  From there the directory is private, and it stays so *)
(* because no command changes a directory that exists and the operator     *)
(* waits for commands to end.                                              *)

\* Where serve is once it has accepted the directory.
Inspected == {"prepare", "createFile", "inspectFile", "opened"}

\* serve goes on only in a private directory, any command only with a private file.
PathInv ==
    /\ Path!TypeOK
    /\ \A p \in Processes :
          /\ process[p].command = "serve" /\ process[p].pc \in Inspected => directory = "private"
          /\ process[p].command = "migrate" /\ process[p].pc \in Inspected => directory # "absent"
          /\ process[p].pc \in {"createFile", "inspectFile", "inspectDirectory", "opened"} =>
                directory # "absent"
          /\ process[p].pc \in {"inspectFile", "opened"} => file # "absent"
          /\ process[p].pc = "opened" => file = "private"

\* Paths and processes start with their types, and no process is at work.
LEMMA PathInvInit == Path!Init => PathInv
BY DEF Path!Init, PathInv, Path!TypeOK, Path!Idle, Path!Mode, Inspected

\* Each step of serve, migrate and the operator keeps the invariant.
LEMMA PathInvNext == PathInv /\ [Path!Next]_Path!vars => PathInv'
<1> SUFFICES ASSUME PathInv, [Path!Next]_Path!vars PROVE PathInv'
  OBVIOUS
<1> USE DEF PathInv, Path!TypeOK, Inspected, Path!Mode, Path!Commands, Path!Idle
<1>1. ASSUME NEW p \in Processes, NEW command \in Path!Commands, Path!Start(p, command) PROVE PathInv'
  BY <1>1 DEF Path!Start
<1>2. ASSUME NEW p \in Processes, Path!ServeMakesDirectory(p) PROVE PathInv'
  BY <1>2 DEF Path!ServeMakesDirectory, Path!At, Path!Goto, Path!MkdirAll, Path!Created
<1>3. ASSUME NEW p \in Processes, Path!ServeInspectsDirectory(p) PROVE PathInv'
  BY <1>3 DEF Path!ServeInspectsDirectory, Path!At, Path!Goto, Path!DirectoryAccepted
<1>4. ASSUME NEW p \in Processes, Path!MigrateMakesDirectory(p) PROVE PathInv'
  BY <1>4 DEF Path!MigrateMakesDirectory, Path!At, Path!Goto, Path!MkdirAll, Path!Created
<1>5. ASSUME NEW p \in Processes, Path!PrepareDirectory(p) PROVE PathInv'
  BY <1>5 DEF Path!PrepareDirectory, Path!Goto, Path!MkdirAll, Path!Created
<1>6. ASSUME NEW p \in Processes, Path!CreateFile(p) PROVE PathInv'
  BY <1>6 DEF Path!CreateFile, Path!Goto, Path!Created
<1>7. ASSUME NEW p \in Processes, Path!InspectFile(p) PROVE PathInv'
  BY <1>7 DEF Path!InspectFile, Path!Goto, Path!FileAccepted
<1>8. ASSUME NEW p \in Processes, Path!Exit(p) PROVE PathInv'
  BY <1>8 DEF Path!Exit
<1>9. ASSUME NEW newDirectory \in Path!Mode \cup {"absent"}, NEW newFile \in Path!Mode \cup {"absent"},
             Path!Arrange(newDirectory, newFile)
      PROVE  PathInv'
  BY <1>9 DEF Path!Arrange
<1>10. CASE UNCHANGED Path!vars
  BY <1>10 DEF Path!vars
<1> QED
  BY <1>1, <1>2, <1>3, <1>4, <1>5, <1>6, <1>7, <1>8, <1>9, <1>10 DEF Path!Next

\* For any number of processes and either umask: while a server holds the state
\* database open, nobody else can read its directory or its file, whatever serve,
\* migrate and the operator did before and the other commands do beside it.
THEOREM PrivateWhileServingHolds == Path!Spec => []Path!PrivateWhileServing
<1>1. PathInv => Path!PrivateWhileServing
  BY DEF PathInv, Path!PrivateWhileServing, Path!At, Inspected
<1> QED
  BY <1>1, PathInvInit, PathInvNext, PTL DEF Path!Spec

================================================================================
