----------------------------- MODULE TrustExchange -----------------------------
(***************************************************************************)
(* A token exchange (exchangeTrustedToken in                               *)
(* src/internal/oidc/handle_token_exchange.go and VerifyAndEvaluate in     *)
(* src/internal/trust/service.go) against a policy database that changes   *)
(* while the request runs: the client, the issuer and the bindings are     *)
(* read one after the other, each as it is at that moment.                 *)
(*                                                                         *)
(* There is one static issuer, "s", and one URL the database may give an   *)
(* issuer for.  A claim fragment is the set of values it admits.  Keys are *)
(* abstracted to whether the token's signature verifies (IssuerKeys says   *)
(* what they are), and a malformed row to the flag "bad".                  *)
(***************************************************************************)
EXTENDS Integers, FiniteSets

CONSTANTS
    Requests,     \* concurrent exchanges
    Values,       \* values of the claim the policies look at
    Rows,         \* the rows trust_bindings may hold
    StaticRows,   \* the effective bindings of the static client
    MaxAge,       \* max_token_age of the issuer
    MaxTime,      \* bound on the clock
    MaxChanges,   \* bound on changes of the policy
    Unset,        \* a fragment that is not given
    None          \* no row; a claim the token lacks

Fragment == SUBSET Values \cup {Unset}

Binding == [id : {"b1", "b2"}, issuer : {"s", "d"}, required : Fragment,
            policy : Fragment, override : Fragment, bad : BOOLEAN]

VARIABLES
    now,
    client,      \* the dynamic client exists
    issuerRow,   \* the issuer_id the database has for the dynamic URL, or None
    rows,        \* the rows of trust_bindings
    changes,     \* how often the policy has changed
    req          \* the exchanges

policy == <<client, issuerRow, rows, changes>>
vars == <<now, client, issuerRow, rows, changes, req>>

\* Times are positive; 0 is the epoch, which a token may state.
Token == [iss : {"static", "dynamic"}, claim : Values \cup {None},
          iat : 0..MaxTime, exp : 0..(MaxTime + 1)]

Idle == [pc |-> "idle"]

Init ==
    /\ now = 1
    /\ client \in BOOLEAN
    /\ issuerRow \in {None, "s", "d"}
    /\ rows \in SUBSET Rows
    /\ changes = 0
    /\ req = [r \in Requests |-> Idle]

End(r, how) == req' = [req EXCEPT ![r].pc = how]

--------------------------------------------------------------------------------
\* External: what jwt.Validate checks of the times. It skips times that are
\* zero, present or not.
LibraryAccepts(tok) ==
    /\ tok.exp = 0 \/ now < tok.exp
    /\ tok.iat = 0 \/ tok.iat <= now

\* Mutant: the zero dates that the library skips are not looked at.
ValidUnlessZero(tok) == LibraryAccepts(tok)

\* validateStandardClaims: the audience, the subject and the authorized party
\* are those of the client, and the dates are usable.
ValidStandardClaims(tok) == LibraryAccepts(tok) /\ tok.exp # 0 /\ tok.iat # 0

\* The token is no older than its issuer allows.
Young(tok) == now - tok.iat <= MaxAge

\* The effective schema of a binding (BuildSchema): its own fragment replaces
\* the policy's, the required one is added to either; a claim with a fragment
\* must be present.
Accepts(b, claim) ==
    LET given == IF b.override # Unset THEN b.override ELSE b.policy IN
    /\ given # Unset => claim \in given
    /\ b.required # Unset => claim \in b.required

\* The rows of an issuer are well formed and name each binding once.
WellFormed(set) ==
    /\ \A b \in set : ~b.bad
    /\ \A a, b \in set : a.id = b.id => a = b

--------------------------------------------------------------------------------
\* The request passes the checks that need no policy, or is turned away.
Begin(r, tok, kind) ==
    /\ req[r] = Idle
    /\ req' = [req EXCEPT ![r] =
                 [pc |-> IF ValidStandardClaims(tok) THEN "client" ELSE "denied",
                  kind |-> kind, tok |-> tok]]
    /\ UNCHANGED <<now, policy>>

\* ResolveClient, fresh: static clients come first; a database that fails is
\* not a denial.
ResolveClient(r) ==
    /\ req[r].pc = "client"
    /\ \/ (req[r].kind = "static" \/ client) /\ End(r, "issuer")
       \/ req[r].kind = "dynamic" /\ ~client /\ End(r, "denied")
       \/ req[r].kind = "dynamic" /\ End(r, "unavailable")
    /\ UNCHANGED <<now, policy>>

\* Mutant: an issuer_id of the database may be that of a static issuer.
ConflictNever == FALSE

\* The database gives the dynamic URL the id of a static issuer.
Conflict == issuerRow = "s"

Resolved(r, issuer) ==
    req' = [req EXCEPT ![r] = [pc |-> "keys", kind |-> req[r].kind, tok |-> req[r].tok,
                               issuer |-> issuer]]

\* Resolver.ResolveTrustIssuer: the static issuer by URL; a static client has
\* no other.
ResolveIssuer(r) ==
    /\ req[r].pc = "issuer"
    /\ \/ req[r].tok.iss = "static" /\ Resolved(r, "s")
       \/ req[r].tok.iss = "dynamic" /\ req[r].kind = "static" /\ End(r, "denied")
    /\ UNCHANGED <<now, policy>>

\* PostgreSQL.ResolveTrustIssuer: no row is a denial; a query that fails, a
\* row that is malformed or that names a static issuer is not.
ResolveDynamicIssuer(r) ==
    /\ req[r].pc = "issuer" /\ req[r].tok.iss = "dynamic" /\ req[r].kind = "dynamic"
    /\ \/ issuerRow = None /\ End(r, "denied")
       \/ End(r, "unavailable")
       \/ issuerRow # None /\ ~Conflict /\ Resolved(r, issuerRow)
    /\ UNCHANGED <<now, policy>>

\* The keys are loaded and the signature verified, or not; the standard claims
\* and the age are then checked at the time it is by now.
VerifySignature(r) ==
    /\ req[r].pc = "keys"
    /\ \/ /\ ValidStandardClaims(req[r].tok) /\ Young(req[r].tok)
          /\ req' = [req EXCEPT ![r] = [pc |-> "bindings", kind |-> req[r].kind,
                                        tok |-> req[r].tok, issuer |-> req[r].issuer,
                                        verifiedAt |-> now]]
       \/ End(r, "denied")
    /\ UNCHANGED <<now, policy>>

\* Mutant: malformed rows are skipped.
ReadableSkipping(set) == {b \in set : ~b.bad}

\* What is evaluated of the rows of an issuer.
Readable(set) == set

\* The bindings of the client for the issuer, static or in the database.
Bindings(r) ==
    {b \in IF req[r].kind = "static" THEN StaticRows ELSE rows : b.issuer = req[r].issuer}

\* PostgreSQL.ResolveTrustBindings fails: the query, or a row that cannot be
\* decoded or compiled.
BindingsUnavailable(r) ==
    /\ req[r].pc = "bindings" /\ req[r].kind = "dynamic"
    /\ End(r, "unavailable")
    /\ UNCHANGED <<now, policy>>

\* The bindings are evaluated: exactly one must match.
Evaluate(r) ==
    LET read == Readable(Bindings(r))
        matching == {b \in read : Accepts(b, req[r].tok.claim)}
    IN
    /\ req[r].pc = "bindings" /\ WellFormed(read)
    /\ \/ Cardinality(matching) # 1 /\ End(r, "denied")
       \/ /\ Cardinality(matching) = 1
          /\ req' = [req EXCEPT ![r] = [pc |-> "sign", tok |-> req[r].tok,
                                        issuer |-> req[r].issuer,
                                        verifiedAt |-> req[r].verifiedAt,
                                        among |-> Bindings(r),
                                        binding |-> CHOOSE b \in matching : TRUE]]
    /\ UNCHANGED <<now, policy>>

\* The downstream token is signed, or signing fails.
Sign(r) ==
    /\ req[r].pc = "sign"
    /\ End(r, "issued") \/ End(r, "failed")
    /\ UNCHANGED <<now, policy>>

Return(r) ==
    /\ req[r].pc \in {"denied", "unavailable", "failed", "issued"}
    /\ req' = [req EXCEPT ![r] = Idle]
    /\ UNCHANGED <<now, policy>>

\* External: an administrator edits one row of the policy.
ChangePolicy ==
    /\ changes < MaxChanges
    /\ changes' = changes + 1
    /\ \/ client' = ~client /\ UNCHANGED <<issuerRow, rows>>
       \/ issuerRow' \in {None, "s", "d"} /\ UNCHANGED <<client, rows>>
       \/ \E b \in Rows : /\ rows' = IF b \in rows THEN rows \ {b} ELSE rows \cup {b}
                          /\ UNCHANGED <<client, issuerRow>>
    /\ UNCHANGED <<now, req>>

Tick ==
    /\ now < MaxTime
    /\ now' = now + 1
    /\ UNCHANGED <<policy, req>>

Next ==
    \/ \E r \in Requests, tok \in Token, kind \in {"static", "dynamic"} : Begin(r, tok, kind)
    \/ \E r \in Requests : \/ ResolveClient(r) \/ ResolveIssuer(r) \/ ResolveDynamicIssuer(r)
                           \/ VerifySignature(r) \/ BindingsUnavailable(r) \/ Evaluate(r)
                           \/ Sign(r) \/ Return(r)
    \/ ChangePolicy
    \/ Tick

Spec == Init /\ [][Next]_vars

--------------------------------------------------------------------------------
Granted(r) == req[r].pc \in {"sign", "issued"}

\* The binding is the only one of the issuer that admits the token, and none
\* of the issuer's rows was malformed: a row that cannot be read might have
\* matched too (VerifyAndEvaluate's count and compileBindings' errors).
OnlyBinding ==
    \A r \in Requests : Granted(r) =>
        \A b \in req[r].among : ~b.bad /\ (Accepts(b, req[r].tok.claim) => b = req[r].binding)

\* When the signature was verified the token had not expired, was not from
\* the future and was no older than the issuer allows, however long the
\* lookups before took and also for dates the JWT library skips
\* (validateStandardClaims and VerifyAndEvaluate).
TokenCurrent ==
    \A r \in Requests : Granted(r) =>
        LET tok == req[r].tok IN
        /\ tok.iat \in (req[r].verifiedAt - MaxAge)..req[r].verifiedAt
        /\ req[r].verifiedAt < tok.exp

\* Bindings of a static issuer are only granted to tokens that the static
\* issuer's own keys verified, whichever issuer_id the database returns for
\* another URL (the conflict check of PostgreSQL.ResolveTrustIssuer).
StaticIssuerKeys ==
    \A r \in Requests : Granted(r) /\ req[r].binding.issuer = "s" => req[r].tok.iss = "static"

================================================================================
