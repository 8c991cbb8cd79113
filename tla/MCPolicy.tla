------------------------------- MODULE MCPolicy --------------------------------
(* A small instance for TLC of what a token exchange looks up: its client   *)
(* (ClientCache), its issuer's keys (IssuerKeys), and the issuer and the    *)
(* bindings (TrustExchange).  Each module abstracts from the others, so one *)
(* of them moves in a behaviour and the others rest.                        *)
EXTENDS ClientCache, TLC

CONSTANTS c1, c2, k1, k2, v1, v2, i1, i2,
          Issuers, MaxCached, CacheTTL, RefreshWait, FetchTimeout, KeysMaxTime, MaxRotations, Prompt,
          Requests, Values, Rows, StaticRows, MaxAge, MaxPolicyChanges, Unset

\* A table holds finitely many rows, and tokens have an age limit.
ASSUME ExchangeAssumption ==
    IsFiniteSet(Rows) /\ IsFiniteSet(StaticRows) /\ MaxAge \in Nat

VARIABLE part   \* the part that moves
VARIABLES keysNow, published, cache, keysFlight, verifier, lastForced
VARIABLES exchangeNow, client, issuerRow, rows, policyChanges, req

keysVars == <<keysNow, published, cache, keysFlight, verifier, lastForced>>
exchangeVars == <<exchangeNow, client, issuerRow, rows, policyChanges, req>>

IssuerCache == INSTANCE IssuerKeys
                 WITH now <- keysNow, flight <- keysFlight, caller <- verifier, MaxTime <- KeysMaxTime
Exchange == INSTANCE TrustExchange
                 WITH now <- exchangeNow, changes <- policyChanges, MaxChanges <- MaxPolicyChanges

\* The times of the issuers' keys are numbers; a nil entry is no key set.
ASSUME KeysAssumption ==
    /\ CacheTTL \in Nat /\ RefreshWait \in Nat /\ FetchTimeout \in Nat
    /\ KeysMaxTime \in Nat /\ MaxRotations \in Nat
    /\ None \notin IssuerCache!Keys

Row(id, issuer, required, pol, override, bad) ==
    [id |-> id, issuer |-> issuer, required |-> required, policy |-> pol,
     override |-> override, bad |-> bad]

\* A row that requires v1 and overrides its policy with both values, rows
\* that overlap with it, a malformed one, and one of the static issuer.
MCRows == {Row("b1", "d", {v1}, {v1}, {v1, v2}, FALSE),
           Row("b2", "d", Unset, {v1}, Unset, FALSE),
           Row("b2", "d", Unset, {v2}, Unset, TRUE),
           Row("b1", "s", Unset, {v2}, Unset, FALSE)}

MCStaticRows == {Row("b1", "s", {v1, v2}, Unset, {v1}, FALSE),
                 Row("b2", "s", Unset, {v1}, {v2}, FALSE)}

\* The parts that rest stay in one of their initial states.  Only one of the
\* issuers rotates its keys.
MCInit ==
    /\ IssuerCache!Init /\ Init /\ Exchange!Init
    /\ part \in {"clients", "keys", "exchange"}
    /\ part # "clients" => exists = [k \in Clients |-> TRUE]
    /\ part # "exchange" => client /\ issuerRow = None /\ rows = {}

MCNext ==
    /\ UNCHANGED part
    /\ \/ part = "clients" /\ Next /\ UNCHANGED <<keysVars, exchangeVars>>
       \/ part = "keys" /\ IssuerCache!Next /\ published'[i2] = 0
            /\ UNCHANGED <<vars, exchangeVars>>
       \/ part = "exchange" /\ Exchange!Next /\ UNCHANGED <<vars, keysVars>>

MCSpec == MCInit /\ [][MCNext]_<<part, vars, keysVars, exchangeVars>>

\* A verification concludes from keys that were published at most cacheTTL and
\* one fetch before it began (loadIssuer).
KeysFresh == IssuerCache!KeysFresh

\* Forced loads of a cached issuer are refreshWait apart (loadIssuer).
ForcedLoadsSpaced == IssuerCache!ForcedLoadsSpaced

\* The binding is the only one of the issuer that admits the token, and none of
\* the issuer's rows was malformed (VerifyAndEvaluate, compileBindings).
OnlyBinding == Exchange!OnlyBinding

\* The token was current when its signature was verified (validateStandardClaims).
TokenCurrent == Exchange!TokenCurrent

\* Bindings of a static issuer are only granted to tokens its own keys verified
\* (ResolveTrustIssuer).
StaticIssuerKeys == Exchange!StaticIssuerKeys

Symmetry == Permutations({c1, c2}) \cup Permutations({k1, k2})

================================================================================
