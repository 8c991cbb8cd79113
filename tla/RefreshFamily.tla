----------------------------- MODULE RefreshFamily -----------------------------
(***************************************************************************)
(* One refresh-token family: the refresh_grants row, its refresh_tokens    *)
(* rows, the upstream provider's view of the credential stored in the row, *)
(* and the concurrent token requests that rotate it.                       *)
(*                                                                         *)
(* Every method of the state store (src/internal/statedb/refresh.go) runs  *)
(* in one transaction that takes the write lock (SQLite) or locks the      *)
(* grant row first (PostgreSQL), so each is one step here.  Everything a   *)
(* request does between two store calls, and every call to the upstream    *)
(* provider, may interleave with the steps of other requests, with the     *)
(* passing of time, with a revocation, with the cleanup and with a crash.  *)
(*                                                                         *)
(* Families do not share rows, so one family is modelled.  A token handle  *)
(* is an element of Tokens; a request that names an unknown handle, a      *)
(* wrong secret or another client's token reads nothing and changes        *)
(* nothing, and is left out.                                               *)
(***************************************************************************)
EXTENDS Integers

CONSTANTS
    Requests,       \* the concurrent token requests (HTTP handler goroutines)
    Tokens,         \* the refresh tokens that can be generated
    None,           \* SQL NULL
    Profiles,       \* what a provider may say of a credential it hands out
    CodeTTL,        \* lifetime of an authorization code
    IdleTTL,        \* the client's idle TTL
    AbsoluteTTL,    \* the client's absolute TTL
    AccessTTL,      \* lifetime of the access and ID tokens Truster signs
    ClaimTTL,       \* lifetime of a claim: 30 s in the code
    UpstreamMargin, \* upstream calls end this long before the claim: 5 s
    RenewWindow,    \* an upstream access token this close to its end is renewed
    ExpiryDelta,    \* the oauth2 client renews one this close to its end by itself
    Latency,        \* the lookups of a request or login are over after this long
    MaxTime,        \* bound on the clock
    MaxGen          \* bound on the generations of the upstream credential

\* A profile gives the lifetimes a provider states, 0 when it states none.
Profile == [access : Nat, renewable : BOOLEAN, until : Nat, permanent : BOOLEAN]

ASSUME FamilyAssumption ==
    /\ None \notin Requests \cup Tokens
    /\ Profiles \subseteq Profile
    /\ CodeTTL \in Nat /\ IdleTTL \in Nat /\ AbsoluteTTL \in Nat
    /\ AccessTTL \in Nat /\ ClaimTTL \in Nat /\ UpstreamMargin \in Nat
    /\ RenewWindow \in Nat /\ ExpiryDelta \in Nat /\ Latency \in Nat
    /\ MaxTime \in Nat /\ MaxGen \in Nat

VARIABLES
    clock,      \* the time every store call and handler reads
    grant,      \* the refresh_grants row
    tokens,     \* the refresh_tokens rows
    provider,   \* the upstream provider's side of the credential
    req         \* the requests in progress: program counter and locals

vars == <<clock, grant, tokens, provider, req>>

-----------------------------------------------------------------------------
(* Upstream credentials. gen is the generation of its refresh token; access *)
(* and until are the stated expiries of the access and the refresh token,   *)
(* 0 standing for Go's zero time.                                           *)

Credential == [gen : Nat, access : Nat, renewable : BOOLEAN, until : Nat, permanent : BOOLEAN]

NoCredential == [gen |-> 0, access |-> 0, renewable |-> FALSE, until |-> 0, permanent |-> FALSE]

After(life, now) == IF life = 0 THEN 0 ELSE now + life

\* A credential of the given generation handed out at time now.
HandOut(p, g, now) ==
    [gen |-> g, access |-> After(p.access, now), renewable |-> p.renewable,
     until |-> After(p.until, now), permanent |-> p.permanent]

\* Nothing says how long the access token lives and nothing can renew it.
UnknownExpiry(c) == ~c.renewable /\ c.access = 0 /\ ~c.permanent

\* Mutant: the access token is renewed only once it has ended.
ExpiringOnceOver(c, now) == c.access # 0 /\ c.access <= now

\* The access token is about to end.
Expiring(c, now) == c.access # 0 /\ c.access <= now + RenewWindow

Lesser(a, b) == IF a <= b THEN a ELSE b

\* min(a, b) where b = 0 is the zero time and does not bound a.
Bounded(a, b) == IF b = 0 THEN a ELSE Lesser(a, b)

\* Mutant: the end of the upstream refresh token is ignored.
FamilyEndUnbounded(c, abs) == Bounded(abs, IF c.renewable THEN 0 ELSE c.access)

\* The absolute expiry that a credential leaves of the absolute expiry abs.
FamilyEnd(c, abs) == Bounded(Bounded(abs, c.until), IF c.renewable THEN 0 ELSE c.access)

-----------------------------------------------------------------------------
(* Rows and requests.                                                       *)

TokenRow == [state : {"none", "active", "spent"}, exp : Nat]

Grant == [status    : {"none", "live", "revoked", "deleted"},
          kind      : {"connector", "email"},
          cred      : Credential,               \* the plaintext of the stored ciphertext
          key       : Tokens \cup {None},       \* the token whose secret encrypts it
          idleExp   : Nat,
          absExp    : Nat,
          claim     : Requests \cup {None},     \* claim_id: known to its holder only
          claimExp  : Nat,
          started   : BOOLEAN]                  \* upstream_refresh_started

NoGrant == [status |-> "none", kind |-> "email", cred |-> NoCredential, key |-> None,
            idleExp |-> 0, absExp |-> 0, claim |-> None, claimExp |-> 0, started |-> FALSE]

Location == {"idle", "refused", "inspected", "replaying", "prepared", "direct", "claiming",
             "claimed", "marking", "refreshing", "answered", "identity", "signed",
             "revoking", "releasing", "aborting"}

Request == [pc       : Location,
            token    : Tokens \cup {None},  \* the refresh token presented
            cred     : Credential,          \* the credential in memory
            begun    : BOOLEAN,             \* the local variable started
            lease    : Nat,                 \* claim.ExpiresAt
            access   : Nat,                 \* expiry of the tokens signed
            expiry   : Nat,                 \* expiry expected for the replacement
            absolute : Nat]                 \* absolute expiry read, then lowered

Idle == [pc |-> "idle", token |-> None, cred |-> NoCredential, begun |-> FALSE,
         lease |-> 0, access |-> 0, expiry |-> 0, absolute |-> 0]

Init ==
    /\ clock = 0
    /\ grant = NoGrant
    /\ tokens = [t \in Tokens |-> [state |-> "none", exp |-> 0]]
    /\ provider = [gen |-> 0, stray |-> FALSE]
    /\ req = [r \in Requests |-> Idle]

Live == grant.status = "live"

At(r, l) == req[r].pc = l

\* The row of the token that request r presented.
Row(r) == tokens[req[r].token]

\* The three expiry checks every store method makes of a token row.
Unexpired(row) == clock < row.exp /\ clock < grant.idleExp /\ clock < grant.absExp

Usable(row) == Live /\ row.state = "active" /\ Unexpired(row)

Goto(r, l) == req' = [req EXCEPT ![r].pc = l]

\* The request answers and its goroutine ends.
Return(r) == req' = [req EXCEPT ![r] = Idle]

\* Code that could leave a rotation unaccounted for revokes; code that could
\* not releases its claim.
GiveUp(r) == Goto(r, IF req[r].begun THEN "revoking" ELSE "releasing")

\* UPDATE ... SET revoked_at WHERE ... revoked_at IS NULL.
Revoked(g) == IF g.status = "live" THEN [g EXCEPT !.status = "revoked"] ELSE g

Unclaimed(g) == [g EXCEPT !.claim = None, !.claimExp = 0, !.started = FALSE]

-----------------------------------------------------------------------------
(* Creation of the family by the authorization-code exchange.               *)

\* External: the oauth2 client of the login's lookup finds the access token just
\* handed out too close to its end and renews it.
RenewsAtLogin(p) == p.renewable /\ p.access # 0 /\ p.access < Latency + ExpiryDelta

\* The credential-backed or direct-email grant that exchangeCode builds and
\* ConsumeAuthCode inserts with its first token; the user authenticated at
\* time 0 and the code is still valid. The credential is the one the callback
\* was given, whatever its lookup made of it.
CreateGrant(t, kind, p) ==
    LET cred == IF kind = "email" THEN NoCredential ELSE HandOut(p, 0, clock)
        abs  == IF kind = "email" THEN AbsoluteTTL ELSE FamilyEnd(cred, AbsoluteTTL)
        end  == Lesser(clock + IdleTTL, abs)
    IN  /\ grant.status = "none"
        /\ clock < CodeTTL
        /\ kind = "email" \/ ~UnknownExpiry(cred)
        /\ Bounded(Lesser(clock + AccessTTL, end), cred.access) > clock
        /\ grant' = [NoGrant EXCEPT !.status = "live", !.kind = kind, !.cred = cred,
                                    !.key = IF kind = "email" THEN None ELSE t,
                                    !.idleExp = end, !.absExp = abs]
        /\ tokens' = [tokens EXCEPT ![t] = [state |-> "active", exp |-> end]]
        /\ \/ UNCHANGED provider
           \/ /\ kind = "connector" /\ RenewsAtLogin(p) /\ provider.gen < MaxGen
              /\ provider' = [provider EXCEPT !.gen = @ + 1]
        /\ UNCHANGED <<clock, req>>

-----------------------------------------------------------------------------
(* The token endpoint and Service.Exchange, up to the claim.                *)

\* The handler reads the grant. A replay is let through to Exchange; any
\* other unusable token is answered invalid_grant at once.
Inspect(r, t) ==
    /\ At(r, "idle")
    /\ Live /\ tokens[t].state # "none"
    /\ tokens[t].state = "spent" \/ Unexpired(tokens[t])
    /\ req' = [req EXCEPT ![r] = [Idle EXCEPT !.pc = "inspected", !.token = t]]
    /\ UNCHANGED <<clock, grant, tokens, provider>>

\* The handler resolves the client and is told that it is denied.
RefuseClient(r) ==
    /\ At(r, "inspected")
    /\ Goto(r, "refused")
    /\ UNCHANGED <<clock, grant, tokens, provider>>

AnswerRefused(r) ==
    /\ At(r, "refused")
    /\ Return(r)
    /\ UNCHANGED <<clock, grant, tokens, provider>>

\* Exchange calls PrepareRefresh again: the grant may have changed.
Prepare(r) ==
    LET end == Lesser(clock + IdleTTL, grant.absExp)
    IN  /\ At(r, "inspected")
        /\ \/ /\ Usable(Row(r))
              /\ req' = [req EXCEPT ![r].pc = "prepared",
                                    ![r].access = Lesser(clock + AccessTTL, end),
                                    ![r].expiry = end]
           \/ /\ Live /\ Row(r).state = "spent"
              /\ Goto(r, "replaying")
           \/ /\ ~Usable(Row(r)) /\ ~(Live /\ Row(r).state = "spent")
              /\ Return(r)
        /\ UNCHANGED <<clock, grant, tokens, provider>>

\* RotateRefreshToken with empty replacement material: the family of a
\* replayed token is revoked. Its claim is left in place.
RevokeReplayed(r) ==
    /\ At(r, "replaying")
    /\ grant' = IF Row(r).state = "spent" THEN Revoked(grant) ELSE grant
    /\ Return(r)
    /\ UNCHANGED <<clock, tokens, provider>>

\* A definitive denial by client, refresh or user policy, or a connector that
\* no longer fits the grant.
DenyPolicy(r) ==
    /\ At(r, "prepared")
    /\ Goto(r, "revoking")
    /\ UNCHANGED <<clock, grant, tokens, provider>>

AllowPolicy(r) ==
    /\ At(r, "prepared")
    /\ Goto(r, IF grant.kind = "email" THEN "direct" ELSE "claiming")
    /\ UNCHANGED <<clock, grant, tokens, provider>>

-----------------------------------------------------------------------------
(* direct(): rotation of a direct-email grant.                              *)

\* Row updates of a rotation at the current time.
SpendAndIssue(t, new, end) ==
    tokens' = [tokens EXCEPT ![t].state = "spent", ![new] = [state |-> "active", exp |-> end]]

\* Mutant: the transaction trusts what PrepareRefresh read.
DirectRotateUnchecked(r, new) ==
    LET end == Lesser(clock + IdleTTL, grant.absExp)
    IN  /\ At(r, "direct")
        /\ req[r].access > clock
        /\ Live /\ Unexpired(Row(r))
        /\ tokens[new].state = "none"
        /\ SpendAndIssue(req[r].token, new, end)
        /\ grant' = [grant EXCEPT !.idleExp = end]
        /\ Return(r)
        /\ UNCHANGED <<clock, provider>>

DirectRotate(r, new) ==
    LET end == Lesser(clock + IdleTTL, grant.absExp)
    IN  /\ At(r, "direct")
        /\ req[r].access > clock
        /\ Usable(Row(r))
        /\ tokens[new].state = "none"
        /\ SpendAndIssue(req[r].token, new, end)
        /\ grant' = [grant EXCEPT !.idleExp = end]
        /\ Return(r)
        /\ UNCHANGED <<clock, provider>>

\* The presented token was spent by a request that overtook this one.
DirectReplay(r) ==
    /\ At(r, "direct")
    /\ req[r].access > clock
    /\ Live /\ Row(r).state = "spent"
    /\ grant' = Revoked(grant)
    /\ Return(r)
    /\ UNCHANGED <<clock, tokens, provider>>

\* Signed tokens that ended meanwhile, a revoked, expired or deleted grant,
\* or three handle collisions.
DirectReject(r) ==
    /\ At(r, "direct")
    /\ Return(r)
    /\ UNCHANGED <<clock, grant, tokens, provider>>

-----------------------------------------------------------------------------
(* ClaimRefresh and the busy loop around it.                                *)

Claimed == grant.claim # None

\* A consumed token revokes the family and clears the claim in the same step.
ClaimReplay(r) ==
    /\ At(r, "claiming")
    /\ Live /\ Row(r).state = "spent"
    /\ grant' = Unclaimed(Revoked(grant))
    /\ Return(r)
    /\ UNCHANGED <<clock, tokens, provider>>

\* A claim that lapsed after its holder marked an upstream refresh: whether
\* the provider rotated is unknown, so the family ends.
ClaimFenced(r) ==
    /\ At(r, "claiming")
    /\ Usable(Row(r))
    /\ Claimed /\ clock >= grant.claimExp /\ grant.started
    /\ grant' = [Revoked(grant) EXCEPT !.claim = None, !.claimExp = 0]
    /\ Return(r)
    /\ UNCHANGED <<clock, tokens, provider>>

\* Mutant: any lapsed claim is taken over.
ClaimGrantedAfterLapse(r) ==
    /\ At(r, "claiming")
    /\ Usable(Row(r))
    /\ Claimed => clock >= grant.claimExp
    /\ grant' = [grant EXCEPT !.claim = r, !.claimExp = clock + ClaimTTL, !.started = FALSE]
    /\ req' = [req EXCEPT ![r].pc = IF grant.key = req[r].token THEN "claimed" ELSE "revoking",
                          ![r].cred = grant.cred,
                          ![r].lease = clock + ClaimTTL, ![r].absolute = grant.absExp]
    /\ UNCHANGED <<clock, tokens, provider>>

\* The claim is taken and the credential decrypted with the presented token's
\* secret; a failure to decrypt ends the family.
ClaimGranted(r) ==
    /\ At(r, "claiming")
    /\ Usable(Row(r))
    /\ Claimed => clock >= grant.claimExp /\ ~grant.started
    /\ grant' = [grant EXCEPT !.claim = r, !.claimExp = clock + ClaimTTL, !.started = FALSE]
    /\ req' = [req EXCEPT ![r].pc = IF grant.key = req[r].token THEN "claimed" ELSE "revoking",
                          ![r].cred = grant.cred,
                          ![r].lease = clock + ClaimTTL, ![r].absolute = grant.absExp]
    /\ UNCHANGED <<clock, tokens, provider>>

\* The token is no longer usable, or the claim stayed busy for the whole wait
\* or until the request was cancelled. A poll that finds it busy changes nothing.
ClaimRejected(r) ==
    /\ At(r, "claiming")
    /\ \/ ~Usable(Row(r)) /\ ~(Live /\ Row(r).state = "spent")
       \/ Usable(Row(r)) /\ Claimed /\ clock < grant.claimExp
    /\ Return(r)
    /\ UNCHANGED <<clock, grant, tokens, provider>>

-----------------------------------------------------------------------------
(* connector(): the upstream part of a claimed refresh.                     *)

\* The choice to renew the access token, to go on with it, or to end the family.
Decide(r) ==
    LET c == req[r].cred
    IN  /\ At(r, "claimed")
        /\ Goto(r, CASE Expiring(c, clock) /\ c.renewable -> "marking"
                     [] ~Expiring(c, clock) /\ ~UnknownExpiry(c) -> "identity"
                     [] OTHER -> "revoking")
        /\ UNCHANGED <<clock, grant, tokens, provider>>

\* Mutant: the claim is checked but the mark is not written.
MarkStartedUnwritten(r) ==
    /\ At(r, "marking")
    /\ \/ /\ Live /\ grant.claim = r /\ grant.claimExp > clock
          /\ req' = [req EXCEPT ![r].pc = "refreshing", ![r].begun = TRUE]
       \/ /\ ~(Live /\ grant.claim = r /\ grant.claimExp > clock)
          /\ Goto(r, "revoking")
    /\ UNCHANGED <<clock, grant, tokens, provider>>

\* MarkUpstreamRefreshStarted, before the provider is called. A claim that was
\* lost counts as indeterminate.
MarkStarted(r) ==
    /\ At(r, "marking")
    /\ \/ /\ Live /\ grant.claim = r /\ grant.claimExp > clock
          /\ grant' = [grant EXCEPT !.started = TRUE]
          /\ req' = [req EXCEPT ![r].pc = "refreshing", ![r].begun = TRUE]
       \/ /\ ~(Live /\ grant.claim = r /\ grant.claimExp > clock)
          /\ Goto(r, "revoking")
          /\ UNCHANGED grant
    /\ UNCHANGED <<clock, tokens, provider>>

\* The provider handles the call, made with the refresh token it knows, and
\* hands out a credential, of a new generation when it rotates refresh tokens.
\* The answer is on its way.
ProviderAnswers(r, p, rotates) ==
    LET g == IF rotates THEN provider.gen + 1 ELSE provider.gen
    IN  /\ At(r, "refreshing")
        /\ req[r].cred.gen = provider.gen /\ g <= MaxGen
        /\ provider' = [provider EXCEPT !.gen = g]
        /\ req' = [req EXCEPT ![r].pc = "answered",
                              ![r].cred = [HandOut(p, g, clock) EXCEPT !.renewable = TRUE]]
        /\ UNCHANGED <<clock, grant, tokens>>

\* The answer arrives before the context's deadline.
ReceiveAnswer(r) ==
    /\ At(r, "answered")
    /\ clock + UpstreamMargin <= req[r].lease
    /\ Goto(r, "identity")
    /\ UNCHANGED <<clock, grant, tokens, provider>>

\* The provider names a configuration error, which proves no rotation.
RefreshRefused(r) ==
    /\ At(r, "refreshing")
    /\ Goto(r, "aborting")
    /\ UNCHANGED <<clock, grant, tokens, provider>>

\* Mutant: every failure is taken to prove that nothing was rotated.
RefreshFailsSafely(r) ==
    /\ req[r].pc \in {"refreshing", "answered"}
    /\ provider' \in {provider} \cup
            (IF At(r, "refreshing") THEN {[provider EXCEPT !.stray = TRUE]} ELSE {})
    /\ Goto(r, "aborting")
    /\ UNCHANGED <<clock, grant, tokens>>

\* Any other failure: an error answer, a lost answer, or a deadline that
\* passes while the provider may still be going to handle the call.
RefreshFails(r) ==
    /\ req[r].pc \in {"refreshing", "answered"}
    /\ provider' \in {provider} \cup
            (IF At(r, "refreshing") THEN {[provider EXCEPT !.stray = TRUE]} ELSE {})
    /\ Goto(r, "revoking")
    /\ UNCHANGED <<clock, grant, tokens>>

\* A call whose caller is gone reaches the provider, or never does.
StrayCall ==
    /\ provider.stray
    /\ \E g \in {provider.gen, provider.gen + 1} :
          g <= MaxGen /\ provider' = [gen |-> g, stray |-> FALSE]
    /\ UNCHANGED <<clock, grant, tokens, req>>

\* GetIdentity is given the refresh token too, and its oauth2 client renews an
\* access token that is about to end when a call of the lookup begins: the call
\* is made at most Latency after the claim, which was taken ClaimTTL before the
\* end of its lease.
Renews(r) ==
    LET c == req[r].cred
    IN  /\ At(r, "identity") /\ c.renewable
        /\ c.access # 0 /\ c.access < clock + ExpiryDelta
        /\ clock + ClaimTTL <= req[r].lease + Latency

\* The provider handles such a renewal and rotates the refresh token. The
\* connector is not told: the credential in memory is still the old one. (A
\* renewal without a rotation changes nothing here.)
RenewQuietly(r) ==
    /\ Renews(r)
    /\ req[r].cred.gen = provider.gen /\ provider.gen < MaxGen
    /\ provider' = [provider EXCEPT !.gen = @ + 1]
    /\ UNCHANGED <<clock, grant, tokens, req>>

\* Mutant: the access token is renewed as often as it is rejected, the claim
\* having been marked already.
IdentityUnauthorizedAgain(r) ==
    /\ At(r, "identity")
    /\ Goto(r, IF req[r].cred.renewable THEN "marking" ELSE "revoking")
    /\ UNCHANGED <<clock, grant, tokens, provider>>

\* The provider rejects the access token: renew it, once, or end the family.
IdentityUnauthorized(r) ==
    /\ At(r, "identity")
    /\ Goto(r, IF ~req[r].begun /\ req[r].cred.renewable THEN "marking" ELSE "revoking")
    /\ UNCHANGED <<clock, grant, tokens, provider>>

\* A temporary upstream error, also of a renewal that the provider may still be
\* going to handle, or a failed lookup of local verification.
IdentityUnavailable(r) ==
    /\ At(r, "identity")
    /\ provider' \in {provider} \cup
            (IF Renews(r) THEN {[provider EXCEPT !.stray = TRUE]} ELSE {})
    /\ GiveUp(r)
    /\ UNCHANGED <<clock, grant, tokens>>

\* Another subject, an email no longer asserted, or a terminal error.
IdentityMismatch(r) ==
    /\ At(r, "identity")
    /\ Goto(r, "revoking")
    /\ UNCHANGED <<clock, grant, tokens, provider>>

\* Mutant: signed tokens are not bounded by the upstream access token.
IdentityAcceptedUnbounded(r) ==
    LET abs == FamilyEnd(req[r].cred, req[r].absolute)
        end == Lesser(clock + IdleTTL, abs)
        acc == Lesser(clock + AccessTTL, end)
    IN  /\ At(r, "identity")
        /\ clock + UpstreamMargin <= req[r].lease
        /\ IF acc > clock
           THEN req' = [req EXCEPT ![r].pc = "signed", ![r].access = acc,
                                   ![r].expiry = end, ![r].absolute = abs]
           ELSE Goto(r, "revoking")
        /\ UNCHANGED <<clock, grant, tokens, provider>>

\* The identity arrives before the context's deadline and is accepted: expiries
\* are computed and the tokens are signed.
IdentityAccepted(r) ==
    LET c   == req[r].cred
        abs == FamilyEnd(c, req[r].absolute)
        end == Lesser(clock + IdleTTL, abs)
        acc == Bounded(Lesser(clock + AccessTTL, end), c.access)
    IN  /\ At(r, "identity")
        /\ clock + UpstreamMargin <= req[r].lease
        /\ IF acc > clock
           THEN req' = [req EXCEPT ![r].pc = "signed", ![r].access = acc,
                                   ![r].expiry = end, ![r].absolute = abs]
           ELSE Goto(r, "revoking")
        /\ UNCHANGED <<clock, grant, tokens, provider>>

-----------------------------------------------------------------------------
(* CompleteClaimedRefresh and the ways out of connector().                  *)

\* Mutant: the claim is checked, a revocation that came meanwhile is not.
CompletableIfClaimed(r) ==
    /\ req[r].access > clock /\ req[r].expiry > clock
    /\ Row(r).state = "active" /\ Unexpired(Row(r))
    /\ grant.claim = r /\ grant.claimExp > clock

\* The conditions under which the completing transaction commits.
Completable(r) ==
    /\ req[r].access > clock /\ req[r].expiry > clock
    /\ Usable(Row(r))
    /\ grant.claim = r /\ grant.claimExp > clock

\* Mutant: the absolute expiry slides with use.
CommitSliding(r, new) ==
    LET abs == clock + AbsoluteTTL
        end == Lesser(clock + IdleTTL, abs)
    IN  /\ tokens[new].state = "none"
        /\ SpendAndIssue(req[r].token, new, end)
        /\ grant' = [Unclaimed(grant) EXCEPT !.cred = req[r].cred, !.key = new,
                                             !.absExp = abs, !.idleExp = end]

\* Its effect: the token is spent, its replacement inserted, the credential
\* re-encrypted under the replacement, the claim cleared.
Commit(r, new) ==
    LET abs == Lesser(req[r].absolute, grant.absExp)
        end == Lesser(clock + IdleTTL, abs)
    IN  /\ tokens[new].state = "none"
        /\ SpendAndIssue(req[r].token, new, end)
        /\ grant' = [Unclaimed(grant) EXCEPT !.cred = req[r].cred, !.key = new,
                                             !.absExp = abs, !.idleExp = end]

Complete(r, new) ==
    /\ At(r, "signed")
    /\ Completable(r)
    /\ Commit(r, new)
    /\ Return(r)
    /\ UNCHANGED <<clock, provider>>

\* The commit took effect but its acknowledgement was an error.
CompleteUnacknowledged(r, new) ==
    /\ At(r, "signed")
    /\ Completable(r)
    /\ Commit(r, new)
    /\ GiveUp(r)
    /\ UNCHANGED <<clock, provider>>

\* The transaction rolls back: one of its conditions fails, storage fails, or
\* three generated handles collided; or the signed tokens ended meanwhile.
CompleteFails(r) ==
    /\ At(r, "signed")
    /\ GiveUp(r)
    /\ UNCHANGED <<clock, grant, tokens, provider>>

\* Service.revoke. The claim columns are left as they are.
RevokeGrant(r) ==
    /\ At(r, "revoking")
    /\ grant' = Revoked(grant)
    /\ Return(r)
    /\ UNCHANGED <<clock, tokens, provider>>

\* Only the holder's own claim is released, and only before it is marked.
ReleaseClaim(r) ==
    /\ At(r, "releasing")
    /\ grant' = IF grant.claim = r /\ ~grant.started THEN Unclaimed(grant) ELSE grant
    /\ Return(r)
    /\ UNCHANGED <<clock, tokens, provider>>

AbortUpstreamRefresh(r) ==
    /\ At(r, "aborting")
    /\ grant' = IF grant.claim = r /\ Live THEN Unclaimed(grant) ELSE grant
    /\ Return(r)
    /\ UNCHANGED <<clock, tokens, provider>>

\* A crash, a store or policy error answered "temporarily_unavailable", a DPoP
\* proof that is refused, or a scope that exceeds the grant: the request ends
\* and the rows stay as they are. A call that was on its way upstream may
\* still arrive.
Abandon(r) ==
    /\ req[r].pc \notin {"idle", "refused"}
    /\ Return(r)
    /\ provider' = [provider EXCEPT !.stray = @ \/ At(r, "refreshing") \/ Renews(r)]
    /\ UNCHANGED <<clock, grant, tokens>>

-----------------------------------------------------------------------------
(* The rest of the system.                                                  *)

\* The revocation endpoint with a refresh token, or with a token that names
\* the session; or the owner's self-service page.
RevokeCredential ==
    /\ Live
    /\ clock < grant.idleExp /\ clock < grant.absExp
    /\ grant' = Revoked(grant)
    /\ UNCHANGED <<clock, tokens, provider, req>>

\* Background cleanup of a family past its absolute expiry.
Cleanup ==
    /\ grant.status \in {"live", "revoked"}
    /\ grant.absExp <= clock
    /\ grant' = [NoGrant EXCEPT !.status = "deleted", !.kind = grant.kind]
    /\ tokens' = [t \in Tokens |-> [state |-> "none", exp |-> 0]]
    /\ UNCHANGED <<clock, provider, req>>

Tick ==
    /\ clock < MaxTime
    /\ clock' = clock + 1
    /\ UNCHANGED <<grant, tokens, provider, req>>

\* The steps of one request, and of the provider on its behalf.
Step(r) ==
    \/ RefuseClient(r) \/ AnswerRefused(r) \/ Prepare(r) \/ RevokeReplayed(r)
    \/ DenyPolicy(r) \/ AllowPolicy(r)
    \/ \E new \in Tokens : DirectRotate(r, new)
    \/ DirectReplay(r) \/ DirectReject(r)
    \/ ClaimReplay(r) \/ ClaimFenced(r) \/ ClaimGranted(r) \/ ClaimRejected(r)
    \/ Decide(r) \/ MarkStarted(r)
    \/ \E p \in Profiles, rotates \in BOOLEAN : ProviderAnswers(r, p, rotates)
    \/ ReceiveAnswer(r) \/ RefreshRefused(r) \/ RefreshFails(r)
    \/ RenewQuietly(r) \/ IdentityUnauthorized(r) \/ IdentityUnavailable(r) \/ IdentityMismatch(r)
    \/ IdentityAccepted(r)
    \/ \E new \in Tokens : Complete(r, new) \/ CompleteUnacknowledged(r, new)
    \/ CompleteFails(r)
    \/ RevokeGrant(r) \/ ReleaseClaim(r) \/ AbortUpstreamRefresh(r)

Next ==
    \/ \E t \in Tokens, kind \in {"connector", "email"}, p \in Profiles : CreateGrant(t, kind, p)
    \/ \E r \in Requests, t \in Tokens : Inspect(r, t)
    \/ \E r \in Requests : Step(r) \/ Abandon(r)
    \/ StrayCall
    \/ RevokeCredential
    \/ Cleanup
    \/ Tick

Spec == Init /\ [][Next]_vars

\* A request that does not crash keeps taking steps: every wait in it, for a
\* busy claim or for the provider, has a deadline. Nothing is assumed of clients.
FairSpec == Spec /\ \A r \in Requests : WF_vars(Step(r))

-----------------------------------------------------------------------------
(* Properties.                                                              *)

\* Rows, requests and the provider keep their types.
TypeOK ==
    /\ clock \in Nat
    /\ grant \in Grant
    /\ tokens \in [Tokens -> TokenRow]
    /\ provider \in [gen : Nat, stray : BOOLEAN]
    /\ req \in [Requests -> Request]

\* Requests whose upstream refresh was marked and has not been settled.
Rotating(r) ==
    \/ req[r].pc \in {"refreshing", "answered", "aborting"}
    \/ req[r].pc \in {"identity", "signed"} /\ req[r].begun

\* The lookups of a request or a login are over before their oauth2 client could
\* find the access token too close to its end: the renewal window covers the
\* delay and the client's own margin (20 s and 10 s of 30 s), and no provider's
\* access tokens are shorter than that window.
AnswersSoon ==
    /\ Latency + ExpiryDelta <= RenewWindow
    /\ \A p \in Profiles : p.access = 0 \/ p.access > RenewWindow

\* The credential fence, of providers that answer soon. A live family that is
\* not marked as rotating keeps the credential that the provider accepts, and no
\* call that could replace it is anywhere on its way, whatever crashed, lapsed or
\* was lost before (MarkUpstreamRefreshStarted and the renewal window of
\* Service.connector). Of slower providers it does not hold: the oauth2 client
\* of a lookup may rotate the refresh token and nobody records it.
CredentialFence ==
    AnswersSoon /\ Live /\ ~grant.started =>
        /\ grant.cred.gen = provider.gen
        /\ ~provider.stray
        /\ \A r \in Requests : ~Rotating(r)

\* At most one request of a live family is at work on an upstream refresh, it is
\* the holder of the claim, and no abandoned call competes with it; of a provider
\* that does not answer soon, a lookup's own renewal may.
OneUpstreamCaller ==
    Live => \A r \in Requests : Rotating(r) =>
        /\ grant.claim = r /\ grant.started
        /\ AnswersSoon => ~provider.stray
        /\ \A s \in Requests : Rotating(s) => s = r

\* A live family has exactly one current token. Its stored credential can be
\* decrypted with that token and with no other, and the token ends with the
\* idle expiry of the row.
OneCurrentToken ==
    Live => \E t \in Tokens :
        /\ tokens[t] = [state |-> "active", exp |-> grant.idleExp]
        /\ \A u \in Tokens : tokens[u].state = "active" => u = t
        /\ grant.kind = "connector" => grant.key = t

\* A family never outlives its absolute expiry, and a credential-backed one
\* never outlives the upstream credential it rests on.
ExpiryOrder ==
    Live =>
        /\ grant.idleExp <= grant.absExp /\ grant.absExp <= AbsoluteTTL
        /\ grant.cred.until # 0 => grant.absExp <= grant.cred.until
        /\ ~grant.cred.renewable /\ grant.cred.access # 0 => grant.absExp <= grant.cred.access

\* A token is issued only when the family is created, or in exchange for the
\* current token of a family that is live and unexpired at that very moment,
\* however long ago the request that presents it was admitted.
IssueFromLiveOnly ==
    [][\A t \in Tokens : tokens[t].state # "active" /\ tokens'[t].state = "active" =>
          \/ grant.status = "none"
          \/ /\ Live /\ Live' /\ clock < grant.idleExp /\ clock < grant.absExp
             /\ \E u \in Tokens : tokens[u].state = "active" /\ tokens'[u].state = "spent"]_vars

\* The access token a request hands out ends no later than the refresh token
\* issued with it, the family, and the upstream access token behind it.
IssuedWithinFamily ==
    [][\A r \in Requests : req[r].pc \in {"direct", "signed"} /\ tokens' # tokens
                              /\ req' # req /\ req'[r].pc = "idle" /\ Live' =>
          /\ clock < req[r].access
          /\ req[r].access <= grant'.idleExp /\ req[r].access <= grant'.absExp
          /\ grant'.cred.access # 0 => req[r].access <= grant'.cred.access]_vars

\* Using a family never moves its absolute expiry later.
AbsoluteNeverExtends ==
    [][Live /\ Live' => grant'.absExp <= grant.absExp]_vars

\* Every request comes to an end without a crash having to end it: the busy
\* loop gives up, and an access token is renewed at most once per request.
RequestsEnd ==
    \A r \in Requests : req[r].pc # "idle" ~> req[r].pc = "idle"

\* docs/policy-database.md: during refresh a definitive client denial revokes
\* the family. The request is then refused with the family ended.
ClientDenialRevokes ==
    \A r \in Requests : At(r, "refused") => ~Live

\* The phase of the ledger: "rotating" while the row is marked.
LedgerPhase ==
    CASE grant.status = "live" -> IF grant.started THEN "rotating" ELSE "live"
      [] grant.status = "revoked" -> "ended"
      [] grant.status = "deleted" -> "purged"
      [] grant.status = "none" -> "none"

InState(state) == {t \in Tokens : tokens[t].state = state}

\* The family as its abstract ledger.
Ledger == INSTANCE RefreshLedger WITH
    phase    <- LedgerPhase,
    current  <- InState("active"),
    spent    <- InState("spent"),
    stored   <- grant.cred.gen,
    upstream <- provider.gen

\* The transactions, claims and upstream calls together implement the ledger when
\* providers answer soon (AnswersSoon).
ImplementsLedger == Ledger!Spec

=============================================================================
