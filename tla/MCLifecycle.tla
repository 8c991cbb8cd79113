------------------------------ MODULE MCLifecycle ------------------------------
(* A small instance for TLC of how replicas start, run and stop: one serve  *)
(* process with its goroutines (Serve), and the state database's schema     *)
(* during a rollout (StateSchema).  A process meets the schema only in its  *)
(* startup and readiness checks, which StateSchema has, so one of the two   *)
(* moves in a behaviour and the other rests.                                *)
EXTENDS Serve

CONSTANTS Replicas, Jobs, Newest

\* A lock that nobody holds is held by none of the jobs.
ASSUME SchemaAssumption == Newest \in Nat /\ None \notin Jobs

VARIABLE part   \* the part that moves
VARIABLES tables, meta, lock, job, granted, replica

Schema == INSTANCE StateSchema
schemaVars == <<tables, meta, lock, job, granted, replica>>

\* The second certificate is a renewal for the first one's key.
MCKeyOf == [c \in Certificates |-> IF c <= 2 THEN 1 ELSE 2]

MCInit ==
    /\ Init /\ Schema!Init
    /\ \/ part = "process" /\ tables = 0 /\ granted = {}
       \/ part = "schema" /\ ~config.tls /\ ~config.policy

MCNext ==
    /\ UNCHANGED part
    /\ \/ part = "process" /\ Next /\ UNCHANGED schemaVars
       \/ part = "schema" /\ Schema!Next /\ UNCHANGED vars

\* The part that moves is scheduled fairly.
MCSpec ==
    /\ MCInit /\ [][MCNext]_<<part, vars, schemaVars>>
    /\ part = "process" => Fairness
    /\ part = "schema" => Schema!Fairness

\* A replica that got past CheckSchema found the tables of its release.
StartsOnItsTables == Schema!StartsOnItsTables

\* A replica under which the database is migrated further reports itself not
\* ready from some point on (Store.Ready).
StaleReplicaNotReady == Schema!StaleReplicaNotReady

================================================================================
