------------------------------ MODULE ClientCache ------------------------------
(***************************************************************************)
(* Client existence as the server resolves it from the policy database     *)
(* (clientExists, putClient and removeClient in                            *)
(* src/internal/authpolicy/postgresql.go, reached from Resolver's          *)
(* ResolveClient).                                                         *)
(*                                                                         *)
(* A call reads the clock, looks the client up under the mutex and, on a   *)
(* miss, enters a singleflight group: the first caller of a key leads and  *)
(* runs the query under its own context, the others wait for its result.   *)
(* Calls that must be fresh skip the lookup and the fill, and have flights *)
(* of their own.  The database is external: its rows change at any time    *)
(* and a query reads them once, between its start and its answer.          *)
(***************************************************************************)
EXTENDS LRU, FiniteSets

CONSTANTS
    Clients,       \* identifiers of dynamic clients
    Callers,       \* concurrent requests
    TTL,           \* lifetime of a positive answer
    NegativeTTL,   \* lifetime of a negative one
    QueryTimeout,  \* query_timeout
    MaxTime,       \* bound on the clock
    MaxChanges,    \* bound on changes of the policy rows
    None           \* no cache entry, no flight

ASSUME ClientCacheAssumption ==
    /\ TTL \in Nat /\ NegativeTTL \in Nat /\ QueryTimeout \in Nat
    /\ MaxTime \in Nat /\ MaxChanges \in Nat

Entry == [value : BOOLEAN, expires : Nat, asOf : Nat]

\* A nil element is no entry.
ASSUME NoneAssumption == None \notin Entry

VARIABLES
    now,
    exists,     \* the policy rows: which clients exist
    changes,    \* how often the rows have changed
    entry,      \* the map from client to cached answer
    order,      \* the recency list of the map's keys
    flight,     \* the singleflight group
    caller      \* the calls in progress

vars == <<now, exists, changes, entry, order, flight, caller>>

Mode == {"cached", "fresh"}
FlightKey == Clients \X Mode

Flight == [state : {"asked"}, deadline : Nat]
     \cup [state : {"read"}, deadline : Nat, value : BOOLEAN, asOf : Nat]

Idle == [pc |-> "idle"]

Caller == {Idle}
     \cup [pc : {"called", "missed", "waiting", "failed"},
           client : Clients, mode : Mode, began : Nat]
     \cup [pc : {"answered"}, client : Clients, mode : Mode, began : Nat,
           value : BOOLEAN, asOf : Nat]

Init ==
    /\ now = 0
    /\ exists \in [Clients -> BOOLEAN]
    /\ changes = 0
    /\ entry = [k \in Clients |-> None]
    /\ order = <<>>
    /\ flight = [f \in FlightKey |-> None]
    /\ caller = [c \in Callers |-> Idle]

--------------------------------------------------------------------------------
\* Mutant: a fill leaves the old element of the key in the list.
FillOnTop(k) == PushFront(order, k)

\* The list after putClient: the old element removed, the new one in front.
Fill(k) == PushFront(IF entry[k] # None THEN RemoveKey(order, k) ELSE order, k)

\* The lifetime of a definitive answer.
Lifetime(value) == IF value THEN TTL ELSE NegativeTTL

Answer(c, value, asOf) ==
    [pc |-> "answered", client |-> caller[c].client, mode |-> caller[c].mode,
     began |-> caller[c].began, value |-> value, asOf |-> asOf]

At(c, pc) == [caller[c] EXCEPT !.pc = pc]

\* The callers that wait on a flight.
Waiters(f) == {c \in Callers : caller[c].pc = "waiting"
                                 /\ <<caller[c].client, caller[c].mode>> = f}

--------------------------------------------------------------------------------
\* A request asks for a client: clientExists reads the clock first.
Call(c, k, mode) ==
    /\ caller[c] = Idle
    /\ caller' = [caller EXCEPT ![c] =
                    [pc |-> "called", client |-> k, mode |-> mode, began |-> now]]
    /\ UNCHANGED <<now, exists, changes, entry, order, flight>>

\* The entry is younger than the reading of the clock the call took.
Live(c, k) == entry[k] # None /\ caller[c].began < entry[k].expires

\* Mutant: every call may use the cache.
MayUseCacheAlways(c) == TRUE

\* Fresh calls bypass the cache.
MayUseCache(c) == caller[c].mode = "cached"

\* The lookup under the mutex: a hit answers and becomes the most recent, an
\* expired entry is removed, anything else goes on to the query.
Lookup(c) ==
    LET k == caller[c].client IN
    /\ caller[c].pc = "called"
    /\ \/ /\ MayUseCache(c) /\ Live(c, k)
          /\ order' = MoveToFront(order, k)
          /\ caller' = [caller EXCEPT ![c] = Answer(c, entry[k].value, entry[k].asOf)]
          /\ entry' = entry
       \/ /\ MayUseCache(c) /\ entry[k] # None /\ ~Live(c, k)
          /\ order' = RemoveKey(order, k)
          /\ entry' = [entry EXCEPT ![k] = None]
          /\ caller' = [caller EXCEPT ![c] = At(c, "missed")]
       \/ /\ ~MayUseCache(c) \/ entry[k] = None
          /\ caller' = [caller EXCEPT ![c] = At(c, "missed")]
          /\ UNCHANGED <<entry, order>>
    /\ UNCHANGED <<now, exists, changes, flight>>

\* flight.Do: wait for the flight of this key, or lead one and ask the
\* database under query_timeout.
Do(c) ==
    LET f == <<caller[c].client, caller[c].mode>> IN
    /\ caller[c].pc = "missed"
    /\ flight' = IF flight[f] = None
                 THEN [flight EXCEPT ![f] =
                         [state |-> "asked", deadline |-> now + QueryTimeout]]
                 ELSE flight
    /\ caller' = [caller EXCEPT ![c] = At(c, "waiting")]
    /\ UNCHANGED <<now, exists, changes, entry, order>>

\* External: the database reads the row on behalf of the query.
Read(f) ==
    /\ flight[f] # None /\ flight[f].state = "asked"
    /\ flight' = [flight EXCEPT ![f] =
                    [state |-> "read", deadline |-> flight[f].deadline,
                     value |-> exists[f[1]], asOf |-> now]]
    /\ UNCHANGED <<now, exists, changes, entry, order, caller>>

\* Every caller waiting on the flight gets its result.
Deliver(f, outcome(_)) ==
    caller' = [c \in Callers |-> IF c \in Waiters(f) THEN outcome(c) ELSE caller[c]]

\* Only cached resolutions fill the cache.
Fills(f) == f[2] = "cached"

\* The query answers with a well-formed row: the flight fills the cache,
\* trims it and ends.
Finish(f) ==
    LET k == f[1]
        r == flight[f]
    IN
    /\ r # None /\ r.state = "read"
    /\ IF Fills(f)
       THEN /\ order' = Kept(Fill(k), MaxEntries)
            /\ entry' = [x \in Clients |->
                          IF x \in Dropped(Fill(k), MaxEntries) THEN None
                          ELSE IF x = k
                               THEN [value |-> r.value, asOf |-> r.asOf,
                                     expires |-> now + Lifetime(r.value)]
                               ELSE entry[x]]
       ELSE UNCHANGED <<entry, order>>
    /\ Deliver(f, LAMBDA c : Answer(c, r.value, r.asOf))
    /\ flight' = [flight EXCEPT ![f] = None]
    /\ UNCHANGED <<now, exists, changes>>

\* The query fails, times out, returns a malformed row, or the leader's own
\* request is cancelled: every waiting caller gets the error, none is cached.
Fail(f) ==
    /\ flight[f] # None
    /\ Deliver(f, LAMBDA c : At(c, "failed"))
    /\ flight' = [flight EXCEPT ![f] = None]
    /\ UNCHANGED <<now, exists, changes, entry, order>>

\* The request uses its answer and ends.
Return(c) ==
    /\ caller[c].pc \in {"answered", "failed"}
    /\ caller' = [caller EXCEPT ![c] = Idle]
    /\ UNCHANGED <<now, exists, changes, entry, order, flight>>

\* External: an administrator adds or removes a client.
Change(k) ==
    /\ changes < MaxChanges
    /\ changes' = changes + 1
    /\ exists' = [exists EXCEPT ![k] = ~exists[k]]
    /\ UNCHANGED <<now, entry, order, flight, caller>>

\* Time passes; a query never outlives its deadline.
Tick ==
    /\ now < MaxTime
    /\ \A f \in FlightKey : flight[f] # None => now < flight[f].deadline
    /\ now' = now + 1
    /\ UNCHANGED <<exists, changes, entry, order, flight, caller>>

Next ==
    \/ \E c \in Callers, k \in Clients, mode \in Mode : Call(c, k, mode)
    \/ \E c \in Callers : Lookup(c) \/ Do(c) \/ Return(c)
    \/ \E f \in FlightKey : Read(f) \/ Finish(f) \/ Fail(f)
    \/ \E k \in Clients : Change(k)
    \/ Tick

Spec == Init /\ [][Next]_vars

--------------------------------------------------------------------------------
\* The state has its type.
TypeOK ==
    /\ now \in Nat /\ changes \in Nat
    /\ exists \in [Clients -> BOOLEAN]
    /\ entry \in [Clients -> Entry \cup {None}]
    /\ flight \in [FlightKey -> Flight \cup {None}]
    /\ caller \in [Callers -> Caller]

\* What the cache promises of its own structure (putClient, removeClient and
\* the hit path of clientExists): the map and the recency list hold the same
\* clients, each once, and never more than max_entries of them.
MapAndListAgree ==
    /\ NoDuplicates(order) /\ Len(order) <= MaxEntries
    /\ Listed(order) = {k \in Clients : entry[k] # None}

\* How old an answer may be when it is used for a call that began at t: a
\* fresh one was read at most one query timeout before the call (it may have
\* joined a query already running), a cached one at most its lifetime and one
\* query timeout before (clientExists stamps the entry after the query).
AnswerAge ==
    \A c \in Callers : caller[c].pc = "answered" =>
        caller[c].began <= caller[c].asOf + QueryTimeout
            + (IF caller[c].mode = "fresh" THEN 0
               ELSE IF caller[c].value THEN TTL ELSE NegativeTTL)

================================================================================
