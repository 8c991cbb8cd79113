------------------------------ MODULE ReplayCache ------------------------------
(***************************************************************************)
(* The process-local cache of DPoP proof hashes (src/internal/dpop) and    *)
(* the endpoints that consult it.                                          *)
(*                                                                         *)
(* An endpoint first checks the proof's iat claim against one reading of   *)
(* the clock and later reserves the proof's hash with another reading      *)
(* (token, userinfo, PAR) or with the same one (revocation).  Only Reserve *)
(* itself runs under the cache's mutex: readings are taken outside it, so  *)
(* reservations may arrive with readings that are out of order.            *)
(*                                                                         *)
(* A proof stands for its hash: thumbprint, jti, method and target.        *)
(***************************************************************************)
EXTENDS Integers, FiniteSets

CONSTANTS
    Requests,     \* the concurrent HTTP requests
    Proofs,       \* the proofs clients can present, any number of times
    MaxEntries,   \* capacity of the cache: 65536 in the server
    Past,         \* a proof is accepted this long after its iat: 10 s
    Future,       \* and this long before it: 5 s
    MaxTime       \* bound on the clock

\* replayRetention, 15 s: the length of the acceptance window.
Retention == Past + Future

ASSUME CacheAssumption ==
    /\ MaxEntries \in Nat \ {0}
    /\ Past \in Nat /\ Future \in Nat /\ Retention > 0
    /\ MaxTime \in Nat

VARIABLES
    clock,
    iat,        \* the iat claim of each proof, chosen by its client
    entries,    \* the map from hash to expiry; 0 where there is no entry
    expiries,   \* the heap of (hash, expiry) pairs, ordered by expiry
    req,        \* the requests in progress
    accepted    \* history: how often this process has accepted each proof

vars == <<clock, iat, entries, expiries, req, accepted>>

Reservation == [hash : Proofs, exp : Nat]

Request == [pc : {"idle"}]
      \cup [pc : {"verified", "stamped"}, proof : Proofs, now : Nat]

Idle == [pc |-> "idle"]

Init ==
    /\ clock = 0
    /\ iat \in [Proofs -> 0..MaxTime]
    /\ entries = [p \in Proofs |-> 0]
    /\ expiries = {}
    /\ req = [r \in Requests |-> Idle]
    /\ accepted = [p \in Proofs |-> 0]

\* Mutant: proofs from any future are taken.
InWindowUnbounded(p, now) == now - Past <= iat[p]

\* The acceptance window of a proof, closed at both ends.
InWindow(p, now) == now - Past <= iat[p] /\ iat[p] <= now + Future

\* parseAndVerify: everything about the proof but its iat is right.
Verify(r, p) ==
    /\ req[r].pc = "idle"
    /\ InWindow(p, clock)
    /\ req' = [req EXCEPT ![r] = [pc |-> "verified", proof |-> p, now |-> clock]]
    /\ UNCHANGED <<clock, iat, entries, expiries, accepted>>

\* The thumbprint does not fit the token, or the client disconnects.
Mismatch(r) ==
    /\ req[r].pc = "verified"
    /\ req' = [req EXCEPT ![r] = Idle]
    /\ UNCHANGED <<clock, iat, entries, expiries, accepted>>

\* The token, userinfo and PAR endpoints read the clock again.
ReadClock(r) ==
    /\ req[r].pc = "verified"
    /\ req' = [req EXCEPT ![r].pc = "stamped", ![r].now = clock]
    /\ UNCHANGED <<clock, iat, entries, expiries, accepted>>

\* removeExpired: what it pops from the heap, and the map it leaves.
Popped(now) == {e \in expiries : e.exp <= now}

Kept(now) ==
    [p \in Proofs |->
        IF \E e \in Popped(now) : e.hash = p /\ e.exp = entries[p] THEN 0 ELSE entries[p]]

Size(map) == Cardinality({p \in Proofs : map[p] # 0})

\* Reserve refuses: the hash is there, or the cache is full.
Reject(r) ==
    LET now == req[r].now
    IN  /\ req[r].pc \in {"verified", "stamped"}
        /\ Kept(now)[req[r].proof] # 0 \/ Size(Kept(now)) >= MaxEntries
        /\ entries' = Kept(now)
        /\ expiries' = expiries \ Popped(now)
        /\ req' = [req EXCEPT ![r] = Idle]
        /\ UNCHANGED <<clock, iat, accepted>>

\* Reserve records the hash and the endpoint goes on with the request.
Accept(r) ==
    LET p == req[r].proof
        now == req[r].now
    IN  /\ req[r].pc \in {"verified", "stamped"}
        /\ Kept(now)[p] = 0
        /\ Size(Kept(now)) < MaxEntries
        /\ entries' = [Kept(now) EXCEPT ![p] = now + Retention]
        /\ expiries' = (expiries \ Popped(now)) \cup {[hash |-> p, exp |-> now + Retention]}
        /\ accepted' = [accepted EXCEPT ![p] = @ + 1]
        /\ req' = [req EXCEPT ![r] = Idle]
        /\ UNCHANGED <<clock, iat>>

Tick ==
    /\ clock < MaxTime
    /\ clock' = clock + 1
    /\ UNCHANGED <<iat, entries, expiries, req, accepted>>

Next ==
    \/ \E r \in Requests, p \in Proofs : Verify(r, p)
    \/ \E r \in Requests : Mismatch(r) \/ ReadClock(r) \/ Reject(r) \/ Accept(r)
    \/ Tick

Spec == Init /\ [][Next]_vars

-----------------------------------------------------------------------------
(* Properties.                                                              *)

\* The map, the heap and the requests keep their types.
TypeOK ==
    /\ clock \in Nat
    /\ iat \in [Proofs -> Nat]
    /\ entries \in [Proofs -> Nat]
    /\ expiries \subseteq Reservation
    /\ req \in [Requests -> Request]
    /\ accepted \in [Proofs -> Nat]

\* The heap and the map describe the same entries, so that removeExpired
\* neither leaves an entry behind for ever nor removes one it should keep,
\* although reservations come with readings of the clock that are out of order.
HeapMatchesMap ==
    expiries = {[hash |-> p, exp |-> entries[p]] : p \in {q \in Proofs : entries[q] # 0}}

\* The cache never holds more than its capacity.
WithinCapacity == Size(entries) <= MaxEntries

\* Until the acceptance window of a proof closes, every further use of it is
\* rejected, also when the cache is full or other requests purge it meanwhile.
NoReplayInWindow ==
    [][\A p \in Proofs : accepted[p] > 0 /\ accepted'[p] # accepted[p] =>
          clock >= iat[p] + Past]_vars

\* docs/dpop.md: a replay reaching the same process is always rejected.
ReplayAlwaysRejected ==
    \A p \in Proofs : accepted[p] <= 1

=============================================================================
