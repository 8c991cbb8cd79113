---------------------------- MODULE UpstreamClient ----------------------------
(***************************************************************************)
(* How the connectors (src/internal/upstream) use a provider: the code     *)
(* exchange of a login, the explicit refresh of a stored credential, and   *)
(* the identity lookup, whose HTTP client renews an expiring access token  *)
(* on its own (oauth2.Config.Client).  Their failures are classified, and  *)
(* the refresh service (src/internal/refresh/service.go) decides from the  *)
(* class whether a family lives on.  Times are seconds.                    *)
(*                                                                         *)
(* A refresh token is its generation at the provider; 0 is no refresh      *)
(* token.  Of an access token it is known how long it will be valid, unless *)
(* its lifetime was not stated.                                            *)
(* Claims, crashes and failures of the store are the business of           *)
(* RefreshFamily.                                                          *)
(***************************************************************************)
EXTENDS Integers

CONSTANTS
    Types,         \* connector types to consider
    Lifetimes,     \* lifetimes of access tokens, 0 for unstated
    Latencies,     \* how long a call may take
    Pauses,        \* time between two uses of the family
    RenewWindow,   \* a credential this close to its expiry is refreshed first
    ExpiryDelta,   \* the oauth2 client renews tokens this close to their expiry
    Budget,        \* a refresh gives up its upstream calls after this long
    Patience,      \* a browser gives up a login after this long
    MaxGen         \* bound on rotations

VARIABLES
    type,      \* the connector's type
    current,   \* the refresh token the provider accepts
    family,    \* the refresh family
    marked,    \* upstream_refresh_started of the family
    call       \* the login or refresh in progress

vars == <<type, current, family, marked, call>>

NoFamily == [status |-> "none"]
Live(cred) == [status |-> "live", cred |-> cred]

\* Revoked after the provider refused something, once a refresh had begun, or
\* because the access token is over and nothing can renew it.
Revoked(refused, started, over) ==
    [status |-> "revoked", refused |-> refused, started |-> started, over |-> over]

Idle == [pc |-> "idle"]

\* What an OAuth token endpoint answers: an error code, an HTTP status; 0 is no
\* response. What an identity endpoint answers.
TokenAnswers == [code : {"invalid_grant", "invalid_client", "access_denied",
                         "invalid_token", "other"}, status : {400, 401, 429, 500}]
                \cup {[code |-> "other", status |-> 0]}
IdentityAnswers == {"ok", "mismatch", "malformed", "limited", "401", "403", "429", "500", "lost"}

\* A login or a refresh: the credential it will store, the token its HTTP
\* client uses, the time left, whether it has begun to refresh the credential
\* and whether the provider has refused anything.
Calling(purpose, cred, pc) ==
    [pc |-> pc, purpose |-> purpose, cred |-> cred, token |-> cred, started |-> FALSE,
     refused |-> FALSE, left |-> IF purpose = "login" THEN Patience ELSE Budget]

Init ==
    /\ type \in Types
    /\ current = 0
    /\ family = NoFamily
    /\ marked = FALSE
    /\ call = Idle

--------------------------------------------------------------------------------
\* ClassifyError on an answer of the token endpoint.
ClassifyError(a) ==
    CASE a.code = "invalid_grant" -> "no_rotation"
      [] a.code = "invalid_client" -> "configuration"
      [] a.code = "access_denied" -> "terminal"
      [] a.code = "invalid_token" \/ (a.code = "other" /\ a.status = 401) -> "unauthorized"
      [] a.code = "other" /\ a.status = 429 -> "rate_limit"
      [] OTHER -> "temporary"

\* ClassifyHTTPStatus and classifyGitHubStatus on an answer of an identity
\* endpoint; "limited" is GitHub's 403 with rate limit headers.
ClassifyHTTPStatus(a) ==
    CASE a = "401" -> "unauthorized"
      [] a = "429" \/ (a = "limited" /\ type = "github") -> "rate_limit"
      [] OTHER -> "temporary"

\* External: the oauth2 client uses a token until shortly before its expiry.
Valid(token) == token.stated => token.left >= ExpiryDelta

\* NormalizeCredential: the lifetime counts from the moment the answer is read.
NormalizeCredential(refresh, life) == [refresh |-> refresh, stated |-> life # 0, left |-> life]

Elapse(c, d) == [c EXCEPT !.left = IF @ > d THEN @ - d ELSE 0]

\* The call and the family d seconds later.
Later(d) == [call EXCEPT !.cred = Elapse(@, d), !.token = Elapse(@, d), !.left = @ - d]
Aged(d) == IF family.status = "live" THEN Live(Elapse(family.cred, d)) ELSE family

\* A call takes this long: the deadline cuts off what takes longer.
Takes(lat) == IF lat < call.left THEN lat ELSE call.left
InTime(lat) == lat < call.left

\* Mutant: a rate limit is not a reason to try again later.
TransientUnlimited == {"temporary", "configuration"}

\* The kinds of failure that leave the family as it is.
Transient == {"temporary", "rate_limit", "configuration"}

\* An identity lookup fails: a login ends; a refresh renews a credential that
\* was not accepted, gives its claim back, or revokes the family.
IdentityFails(d, kind, refused) ==
    LET renew == kind = "unauthorized" /\ call.cred.refresh # 0 IN
    \/ /\ call.purpose = "login"
       /\ call' = Idle
       /\ UNCHANGED <<family, marked>>
    \/ /\ call.purpose = "refresh" /\ ~call.started /\ renew
       /\ call' = [Later(d) EXCEPT !.pc = "mark", !.refused = refused]
       /\ family' = Aged(d)
       /\ UNCHANGED marked
    \/ /\ call.purpose = "refresh" /\ ~call.started /\ kind \in Transient
       /\ call' = Idle
       /\ family' = Aged(d)
       /\ UNCHANGED marked
    \/ /\ call.purpose = "refresh"
       /\ call.started \/ (kind \notin Transient /\ ~renew)
       /\ call' = Idle
       /\ family' = Revoked(refused, call.started, FALSE)
       /\ marked' = FALSE

--------------------------------------------------------------------------------
\* HandleCallback: the code is exchanged and the credential stored with the
\* flow before the identity is looked up. The generations of a new
\* authorization are counted from 1.
Login(life, renewable) ==
    /\ call = Idle /\ family.status # "live"
    /\ current' = IF renewable THEN 1 ELSE 0
    /\ family' = NoFamily
    /\ call' = Calling("login", NormalizeCredential(current', life), "identity")
    /\ UNCHANGED <<type, marked>>

\* Mutant: the credential is refreshed only once it has expired.
ExpiringLate(c) == c.stated /\ c.left = 0

\* The access token expires too soon to be used.
Expiring(c) == c.stated /\ c.left <= RenewWindow

\* No expiry is known; a GitHub token without a refresh token has none.
UnknownExpiry(c) == c.refresh = 0 /\ ~c.stated /\ type # "github"

\* Service.connector claims the family and decides what its credential needs.
Begin ==
    LET c == family.cred IN
    /\ call = Idle /\ family.status = "live"
    /\ \/ /\ ~Expiring(c) /\ ~UnknownExpiry(c)
          /\ call' = Calling("refresh", c, "identity")
          /\ UNCHANGED family
       \/ /\ Expiring(c) /\ c.refresh # 0
          /\ call' = Calling("refresh", c, "mark")
          /\ UNCHANGED family
       \/ /\ (Expiring(c) /\ c.refresh = 0) \/ UnknownExpiry(c)
          /\ family' = Revoked(FALSE, FALSE, TRUE)
          /\ UNCHANGED call
    /\ UNCHANGED <<type, current, marked>>

MarkStarted ==
    /\ call.pc = "mark"
    /\ marked' = TRUE
    /\ call' = [call EXCEPT !.pc = "refresh", !.started = TRUE]
    /\ UNCHANGED <<type, current, family>>

\* External: the provider issues an access token for its current refresh token,
\* and may rotate that.
Grant(gen) ==
    /\ gen = current
    /\ current' \in {current, current + 1}
    /\ current' <= MaxGen

\* External: of a request without an answer nobody knows whether it was served.
MayGrant(gen) == (gen # 0 /\ Grant(gen)) \/ UNCHANGED current

\* Connector.Refresh succeeds; a refresh token that is not repeated is kept.
RefreshSucceeds(lat, life) ==
    /\ call.pc = "refresh" /\ InTime(lat)
    /\ Grant(call.cred.refresh)
    /\ LET c == NormalizeCredential(current', life) IN
       call' = [Later(lat) EXCEPT !.pc = "identity", !.cred = c, !.token = c]
    /\ family' = Aged(lat)
    /\ UNCHANGED <<type, marked>>

\* Connector.Refresh fails: a configuration error is known to have changed
\* nothing, all else leaves the credential in doubt.
RefreshFails(lat, a) ==
    /\ call.pc = "refresh"
    /\ a.status # 0 => InTime(lat)
    /\ IF a.status = 0 THEN MayGrant(call.cred.refresh) ELSE UNCHANGED current
    /\ call' = Idle
    /\ marked' = FALSE
    /\ family' = IF ClassifyError(a) = "configuration" THEN Aged(lat)
                 ELSE Revoked(call.refused, TRUE, FALSE)
    /\ UNCHANGED type

\* The identity client renews its token before a call; the credential that is
\* stored afterwards is not the one it now uses.
RenewQuietly(lat, life) ==
    /\ call.pc \in {"identity", "emails"} /\ ~Valid(call.token)
    /\ call.token.refresh # 0 /\ InTime(lat)
    /\ Grant(call.token.refresh)
    /\ call' = [Later(lat) EXCEPT !.token = NormalizeCredential(current', life)]
    /\ family' = Aged(lat)
    /\ UNCHANGED <<type, marked>>

\* The identity client cannot renew its token: the lookup fails.
RenewFails(lat, a) ==
    /\ call.pc \in {"identity", "emails"} /\ ~Valid(call.token)
    /\ a.status # 0 => InTime(lat) /\ call.token.refresh # 0
    /\ IF a.status = 0 THEN MayGrant(call.token.refresh) ELSE UNCHANGED current
    /\ IdentityFails(Takes(lat), ClassifyError(a),
                     call.refused \/ a.code # "other" \/ a.status = 401)
    /\ UNCHANGED type

\* GetIdentity: one call to the userinfo endpoint, two to GitHub. Google's may
\* state another hosted domain than the configured one, which is terminal; the
\* service treats an identity other than the family's in the same way.
Identify(lat, a) ==
    /\ call.pc \in {"identity", "emails"} /\ Valid(call.token)
    /\ a # "lost" => InTime(lat)
    /\ \/ /\ a = "ok"
          /\ call' = [Later(lat) EXCEPT !.pc = IF type = "github" /\ call.pc = "identity"
                                               THEN "emails" ELSE "finish"]
          /\ family' = Aged(lat)
          /\ UNCHANGED marked
       \/ /\ a = "mismatch"
          /\ IdentityFails(lat, "terminal", TRUE)
       \/ /\ a \notin {"ok", "mismatch"}
          /\ IdentityFails(Takes(lat), ClassifyHTTPStatus(a), call.refused \/ a = "401")
    /\ UNCHANGED <<type, current>>

\* The access token has expired: nothing may be issued on it.
Over(c) == c.stated /\ c.left = 0

\* The login creates the family, or the refresh stores the credential it has,
\* unless its access token is over by now: that login fails, and that family
\* is revoked.
Finish ==
    /\ call.pc = "finish"
    /\ family' = IF ~Over(call.cred) THEN Live(call.cred)
                 ELSE IF call.purpose = "login" THEN NoFamily
                 ELSE Revoked(call.refused, call.started, TRUE)
    /\ marked' = FALSE
    /\ call' = Idle
    /\ UNCHANGED <<type, current>>

Pause(d) ==
    /\ call = Idle /\ family.status = "live"
    /\ family' = Aged(d)
    /\ UNCHANGED <<type, current, marked, call>>

Next ==
    \/ \E life \in Lifetimes, renewable \in BOOLEAN : Login(life, renewable)
    \/ Begin \/ MarkStarted \/ Finish
    \/ \E lat \in Latencies :
         \/ \E life \in Lifetimes : RefreshSucceeds(lat, life) \/ RenewQuietly(lat, life)
         \/ \E a \in TokenAnswers : RefreshFails(lat, a) \/ RenewFails(lat, a)
         \/ \E a \in IdentityAnswers : Identify(lat, a)
    \/ \E d \in Pauses : Pause(d)

Spec == Init /\ [][Next]_vars

--------------------------------------------------------------------------------
\* While the stored refresh token is not the provider's, the family is marked
\* as being refreshed: a rotation never happens unrecorded
\* (MarkUpstreamRefreshStarted). It rests on the renewal window being wide
\* enough for the identity client never to renew by itself.
RotationRecorded ==
    family.status = "live" /\ family.cred.refresh \notin {0, current} => marked

\* A family is revoked only after the provider refused something, once a
\* refresh of its credential had begun, or because its access token is over and
\* cannot be renewed: rate limits, outages, malformed answers and timeouts of a
\* mere lookup leave it alone (Service.connector, ClassifyError,
\* classifyGitHubStatus).
OutagesKeepFamily ==
    family.status = "revoked" => family.refused \/ family.started \/ family.over

================================================================================
