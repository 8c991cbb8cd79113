------------------------------ MODULE SchemaCache ------------------------------
(***************************************************************************)
(* The cache of compiled trust-policy schemas (compiledSchema in           *)
(* src/internal/authpolicy/postgresql.go).                                 *)
(*                                                                         *)
(* A key names a client, an issuer, a binding and the digest of the        *)
(* canonical schema, so that a schema never changes under its key.  A      *)
(* request looks the key up, and on a miss enters the singleflight group;  *)
(* the flight looks again, compiles without the mutex and inserts.  Unlike *)
(* putClient the insertion does not look for an older element of the key.  *)
(***************************************************************************)
EXTENDS LRU

CONSTANTS
    Keys,         \* schema keys
    Callers       \* concurrent requests

VARIABLES
    cached,    \* the keys of the map from key to element
    order,     \* the recency list
    flight,    \* the phase of each key's flight: "none", "check", "compile"
    caller     \* the requests

vars == <<cached, order, flight, caller>>

Idle == [pc |-> "idle"]

Caller == {Idle} \cup [pc : {"called", "missed", "waiting", "schema", "error"}, key : Keys]

Init ==
    /\ cached = {}
    /\ order = <<>>
    /\ flight = [k \in Keys |-> "none"]
    /\ caller = [c \in Callers |-> Idle]

At(pc, k) == [pc |-> pc, key |-> k]

\* The callers that wait on a key's flight.
Waiters(k) == {c \in Callers : caller[c] = At("waiting", k)}

\* The flight of k ends: every waiter gets the result.
EndFlight(k, pc) ==
    /\ flight' = [flight EXCEPT ![k] = "none"]
    /\ caller' = [c \in Callers |-> IF c \in Waiters(k) THEN At(pc, k) ELSE caller[c]]

--------------------------------------------------------------------------------
\* A binding of a request needs the schema of k.
Call(c, k) ==
    /\ caller[c] = Idle
    /\ caller' = [caller EXCEPT ![c] = At("called", k)]
    /\ UNCHANGED <<cached, order, flight>>

\* The first lookup under the mutex.
Lookup(c) ==
    /\ caller[c].pc = "called"
    /\ LET k == caller[c].key IN
       \/ /\ k \in cached
          /\ order' = MoveToFront(order, k)
          /\ caller' = [caller EXCEPT ![c] = At("schema", k)]
       \/ /\ k \notin cached
          /\ caller' = [caller EXCEPT ![c] = At("missed", k)]
          /\ UNCHANGED order
    /\ UNCHANGED <<cached, flight>>

\* flight.Do: join the flight of the key or lead it.
Do(c) ==
    /\ caller[c].pc = "missed"
    /\ LET k == caller[c].key IN
       /\ flight' = IF flight[k] = "none" THEN [flight EXCEPT ![k] = "check"] ELSE flight
       /\ caller' = [caller EXCEPT ![c] = At("waiting", k)]
    /\ UNCHANGED <<cached, order>>

\* The key was inserted between the caller's lookup and its flight.
FoundAgain(k) == k \in cached

\* The second lookup, by the flight.
Recheck(k) ==
    /\ flight[k] = "check"
    /\ \/ /\ FoundAgain(k)
          /\ order' = MoveToFront(order, k)
          /\ EndFlight(k, "schema")
       \/ /\ ~FoundAgain(k)
          /\ flight' = [flight EXCEPT ![k] = "compile"]
          /\ UNCHANGED <<order, caller>>
    /\ UNCHANGED cached

\* The keys deleted from the map while the list is trimmed.
Evicted(list) == Dropped(list, MaxEntries)

\* The schema compiles: insert it, trim the list, answer the waiters.
Insert(k) ==
    LET list == PushFront(order, k) IN
    /\ flight[k] = "compile"
    /\ order' = Kept(list, MaxEntries)
    /\ cached' = (cached \cup {k}) \ Evicted(list)
    /\ EndFlight(k, "schema")

\* The schema does not compile: nothing is cached.
CompileFails(k) ==
    /\ flight[k] = "compile"
    /\ EndFlight(k, "error")
    /\ UNCHANGED <<cached, order>>

\* The request goes on with its schema or its error.
Return(c) ==
    /\ caller[c].pc \in {"schema", "error"}
    /\ caller' = [caller EXCEPT ![c] = Idle]
    /\ UNCHANGED <<cached, order, flight>>

Next ==
    \/ \E c \in Callers, k \in Keys : Call(c, k)
    \/ \E c \in Callers : Lookup(c) \/ Do(c) \/ Return(c)
    \/ \E k \in Keys : Recheck(k) \/ Insert(k) \/ CompileFails(k)

Spec == Init /\ [][Next]_vars

--------------------------------------------------------------------------------
\* The state has its type.
TypeOK ==
    /\ cached \subseteq Keys
    /\ flight \in [Keys -> {"none", "check", "compile"}]
    /\ caller \in [Callers -> Caller]

\* A flight that compiles holds a key that is not cached: nobody else can
\* insert it meanwhile, which is why the insertion need not look again
\* (compiledSchema).
CompilesOnlyMisses == \A k \in Keys : flight[k] = "compile" => k \notin cached

\* The map and the recency list hold the same schemas, each once, within the
\* capacity: otherwise evicting a duplicate would delete the map's entry of a
\* live element (compiledSchema's eviction loop).
SchemaListAgrees ==
    /\ NoDuplicates(order) /\ Len(order) <= MaxEntries
    /\ Listed(order) = cached

================================================================================
