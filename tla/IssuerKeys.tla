------------------------------- MODULE IssuerKeys -------------------------------
(***************************************************************************)
(* The cache of external issuers' keys (loadIssuer in                      *)
(* src/internal/trust/service.go) and the two loads VerifyAndEvaluate      *)
(* makes for one token: an ordinary one and, when the token's key is not   *)
(* in the set, a forced one that is throttled by refreshWait.              *)
(*                                                                         *)
(* All loads of an issuer share one singleflight key, forced or not, and   *)
(* the flight behaves as its first caller asked.  An issuer stands for a   *)
(* cache key ("static:" or "dynamic:" and the URL).  The issuer's server   *)
(* is external: it rotates its keys at any time, and version v of its set  *)
(* holds the one key v.                                                    *)
(***************************************************************************)
EXTENDS Integers, FiniteSets

CONSTANTS
    Issuers,       \* cache keys
    Callers,       \* concurrent verifications
    MaxCached,     \* maxCachedIssuers: 1024
    CacheTTL,      \* cacheTTL: 5 min
    RefreshWait,   \* refreshWait: 30 s
    FetchTimeout,  \* the HTTP client's timeout, 5 s for each of two requests
    MaxTime,       \* bound on the clock
    MaxRotations,  \* bound on key rotations of an issuer
    Prompt,        \* a goroutine that can run takes no time between two steps
    None           \* no entry, no flight, no time

VARIABLES
    now,
    published,   \* the version of each issuer's key set (external)
    cache,       \* the map from cache key to validated keys
    flight,      \* the singleflight group
    caller,      \* the verifications in progress
    lastForced   \* history: when a forced load of the issuer last went upstream
                 \* while it was cached; forgotten when the issuer is evicted

vars == <<now, published, cache, flight, caller, lastForced>>

\* The zero time: long enough ago that no refresh is throttled by it.
Never == 0 - RefreshWait

Version == 0..MaxRotations

\* A key no issuer ever publishes.
Unknown == MaxRotations + 1

Keys == [version : Version, expires : Nat, asOf : Nat, lastRefresh : Int]

Flight == [phase : {"check"}, force : BOOLEAN]
     \cup [phase : {"fetch"}, force : BOOLEAN, refreshed : Int, deadline : Nat]
     \cup [phase : {"fetched"}, force : BOOLEAN, refreshed : Int, deadline : Nat,
           version : Version, asOf : Nat]

Idle == [pc |-> "idle"]

\* asOf is when the keys a call last looked at were published; None before.
Caller == {Idle}
     \cup [pc : {"lookup", "missed", "waiting", "accepted", "refused", "error"},
           issuer : Issuers, kid : Version \cup {Unknown}, force : BOOLEAN,
           began : Nat, asOf : Nat \cup {None}]

Init ==
    /\ now = 0
    /\ published = [i \in Issuers |-> 0]
    /\ cache = [i \in Issuers |-> None]
    /\ flight = [i \in Issuers |-> None]
    /\ caller = [c \in Callers |-> Idle]
    /\ lastForced = [i \in Issuers |-> Never]

--------------------------------------------------------------------------------
\* Mutant: an ordinary load uses any keys it finds.
UsableExpired(i, force) ==
    /\ cache[i] # None
    /\ force => now - cache[i].lastRefresh < RefreshWait

\* The cached keys may be used: still valid for an ordinary load, refreshed
\* less than refreshWait ago for a forced one.
Usable(i, force) ==
    /\ cache[i] # None
    /\ IF force THEN now - cache[i].lastRefresh < RefreshWait
                ELSE now < cache[i].expires

\* What a call does with a key set: selectKey finds the token's key, or an
\* ordinary load is followed by a forced one, or the token is refused.
Select(c, keys) ==
    LET r == caller[c] IN
    IF r.kid = keys.version
    THEN [r EXCEPT !.pc = "accepted", !.asOf = keys.asOf]
    ELSE IF ~r.force
    THEN [r EXCEPT !.pc = "lookup", !.force = TRUE, !.asOf = keys.asOf]
    ELSE [r EXCEPT !.pc = "refused", !.asOf = keys.asOf]

\* A load that fails: the verification ends with the error, or is refused
\* because the token's key is still unknown.
LoadError(c) ==
    [caller[c] EXCEPT !.pc = IF caller[c].force THEN "refused" ELSE "error"]

\* The calls waiting on an issuer's flight.
Waiters(i) == {c \in Callers : caller[c] # Idle /\ caller[c].pc = "waiting"
                                 /\ caller[c].issuer = i}

Deliver(i, outcome(_)) ==
    /\ caller' = [c \in Callers |-> IF c \in Waiters(i) THEN outcome(c) ELSE caller[c]]
    /\ flight' = [flight EXCEPT ![i] = None]

--------------------------------------------------------------------------------
\* A token of the issuer arrives, signed with a key it has published or with
\* an unknown one; the ordinary load comes first.
Verify(c, i, kid) ==
    /\ caller[c] = Idle
    /\ kid \in 0..published[i] \cup {Unknown}
    /\ caller' = [caller EXCEPT ![c] =
                    [pc |-> "lookup", issuer |-> i, kid |-> kid, force |-> FALSE,
                     began |-> now, asOf |-> None]]
    /\ UNCHANGED <<now, published, cache, flight, lastForced>>

\* The lookup under the mutex.
Lookup(c) ==
    LET r == caller[c] IN
    /\ r.pc = "lookup"
    /\ caller' = [caller EXCEPT ![c] =
                    IF Usable(r.issuer, r.force) THEN Select(c, cache[r.issuer])
                    ELSE [r EXCEPT !.pc = "missed"]]
    /\ UNCHANGED <<now, published, cache, flight, lastForced>>

\* loads.Do: join the issuer's flight or lead it.
Do(c) ==
    LET r == caller[c] IN
    /\ r.pc = "missed"
    /\ flight' = IF flight[r.issuer] = None
                 THEN [flight EXCEPT ![r.issuer] = [phase |-> "check", force |-> r.force]]
                 ELSE flight
    /\ caller' = [caller EXCEPT ![c].pc = "waiting"]
    /\ UNCHANGED <<now, published, cache, lastForced>>

\* Mutant: a refresh is stamped only when it succeeds.
StampLate(i) == cache[i]

\* The entry of an issuer whose forced refresh begins.
Stamp(i) == [cache[i] EXCEPT !.lastRefresh = now]

\* The flight looks again under the mutex; a forced one stamps the entry
\* before it goes upstream, so that failures are throttled too.
Recheck(i) ==
    LET f == flight[i] IN
    /\ f # None /\ f.phase = "check"
    /\ \/ /\ Usable(i, f.force)
          /\ Deliver(i, LAMBDA c : Select(c, cache[i]))
          /\ UNCHANGED <<cache, lastForced>>
       \/ /\ ~Usable(i, f.force)
          /\ flight' = [flight EXCEPT ![i] =
                          [phase |-> "fetch", force |-> f.force,
                           refreshed |-> IF f.force THEN now
                                         ELSE IF cache[i] = None THEN Never
                                         ELSE cache[i].lastRefresh,
                           deadline |-> now + FetchTimeout]]
          /\ cache' = IF f.force /\ cache[i] # None
                      THEN [cache EXCEPT ![i] = Stamp(i)] ELSE cache
          /\ lastForced' = IF f.force /\ cache[i] # None
                           THEN [lastForced EXCEPT ![i] = now] ELSE lastForced
          /\ UNCHANGED caller
    /\ UNCHANGED <<now, published>>

\* External: the issuer's server answers the request for its keys.
Serve(i) ==
    LET f == flight[i] IN
    /\ f # None /\ f.phase = "fetch"
    /\ flight' = [flight EXCEPT ![i] =
                    [phase |-> "fetched", force |-> f.force, refreshed |-> f.refreshed,
                     deadline |-> f.deadline, version |-> published[i], asOf |-> now]]
    /\ UNCHANGED <<now, published, cache, caller, lastForced>>

Cached == {i \in Issuers : cache[i] # None}

\* A new issuer does not fit.
Full(i) == cache[i] = None /\ Cardinality(Cached) >= MaxCached

\* The entries that expire first: the map's order decides between equals.
Oldest == {o \in Cached : \A x \in Cached : cache[o].expires <= cache[x].expires}

\* The document and the keys are valid: make room, insert, answer.
Finish(i) ==
    LET f == flight[i]
        keys == [version |-> f.version, expires |-> now + CacheTTL, asOf |-> f.asOf,
                 lastRefresh |-> f.refreshed]
    IN
    /\ f # None /\ f.phase = "fetched"
    /\ \E gone \in IF Full(i) THEN {{o} : o \in Oldest} ELSE {{}} :
          /\ cache' = [x \in Issuers |-> IF x = i THEN keys
                                         ELSE IF x \in gone THEN None ELSE cache[x]]
          /\ lastForced' = [x \in Issuers |-> IF x \in gone THEN Never ELSE lastForced[x]]
    /\ Deliver(i, LAMBDA c : Select(c, keys))
    /\ UNCHANGED <<now, published>>

\* The server is unreachable, slow or answers with something unacceptable, or
\* the leading request is cancelled.
Fail(i) ==
    /\ flight[i] # None /\ flight[i].phase # "check"
    /\ Deliver(i, LoadError)
    /\ UNCHANGED <<now, published, cache, lastForced>>

\* The verification is over.
Return(c) ==
    /\ caller[c].pc \in {"accepted", "refused", "error"}
    /\ caller' = [caller EXCEPT ![c] = Idle]
    /\ UNCHANGED <<now, published, cache, flight, lastForced>>

\* External: the issuer rotates its key.
Rotate(i) ==
    /\ published[i] < MaxRotations
    /\ published' = [published EXCEPT ![i] = published[i] + 1]
    /\ UNCHANGED <<now, cache, flight, caller, lastForced>>

\* A goroutine has a step to take that waits for nobody.
Runnable ==
    \/ \E c \in Callers : caller[c].pc \in {"lookup", "missed"}
    \/ \E i \in Issuers : flight[i] # None /\ flight[i].phase = "check"

\* Time passes; an upstream request never outlives its deadline.
Tick ==
    /\ now < MaxTime
    /\ Prompt => ~Runnable
    /\ \A i \in Issuers :
          flight[i] # None /\ flight[i].phase # "check" => now < flight[i].deadline
    /\ now' = now + 1
    /\ UNCHANGED <<published, cache, flight, caller, lastForced>>

Next ==
    \/ \E c \in Callers, i \in Issuers, kid \in Version \cup {Unknown} : Verify(c, i, kid)
    \/ \E c \in Callers : Lookup(c) \/ Do(c) \/ Return(c)
    \/ \E i \in Issuers : Recheck(i) \/ Serve(i) \/ Finish(i) \/ Fail(i) \/ Rotate(i)
    \/ Tick

Spec == Init /\ [][Next]_vars

--------------------------------------------------------------------------------
\* The state has its type.
TypeOK ==
    /\ now \in Nat
    /\ published \in [Issuers -> Version]
    /\ cache \in [Issuers -> Keys \cup {None}]
    /\ flight \in [Issuers -> Flight \cup {None}]
    /\ caller \in [Callers -> Caller]
    /\ lastForced \in [Issuers -> Int]

\* Whatever a token's verification concludes, it concludes from keys that were
\* published at most cacheTTL and one fetch before it began: a withdrawn key
\* is accepted, and a new one refused, no longer than that, also when the
\* forced load is throttled or joins a flight under way (loadIssuer).
KeysFresh ==
    \A c \in Callers :
        caller[c] # Idle /\ caller[c].asOf # None
            => caller[c].began <= caller[c].asOf + CacheTTL + FetchTimeout

\* Tokens with unknown keys make the server ask an issuer at most once every
\* refreshWait while it is cached, also when the issuer fails (the stamp that
\* loadIssuer sets before it goes upstream).
ForcedLoadsSpaced ==
    [][\A i \in Issuers :
         lastForced'[i] # lastForced[i] /\ lastForced'[i] # Never
             => lastForced'[i] - lastForced[i] >= RefreshWait]_vars

================================================================================
