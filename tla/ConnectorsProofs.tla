--------------------------- MODULE ConnectorsProofs ----------------------------
(***************************************************************************)
(* Theorems about the connectors, for any connectors, documents, providers *)
(* and times:                                                              *)
(*   UpstreamClient  no rotation goes unrecorded at a provider that        *)
(*                   answers soon, and outages keep a family;              *)
(*   Configuration   what an accepted document promises to the sign-ins    *)
(*                   that run under it, restarted or not.                  *)
(***************************************************************************)
EXTENDS MCConnectors, TLAPS

--------------------------------------------------------------------------------
(* UpstreamClient *)

\* Only a refusal or a begun refresh makes a failed lookup end a family.
LEMMA FailuresKeepFamily ==
    ASSUME Client!OutagesKeepFamily, NEW d, NEW kind, NEW refused,
           Client!IdentityFails(d, kind, refused), kind \notin Client!Transient => refused
    PROVE  Client!OutagesKeepFamily'
BY DEF Client!IdentityFails, Client!OutagesKeepFamily, Client!Aged, Client!Live, Client!Revoked

\* For any provider: rate limits, outages, malformed answers and timeouts of a
\* lookup leave the family alone, whatever their order and number; it is revoked
\* only after a refusal, once a refresh of its credential had begun, or with an
\* access token that is over (Service.connector, ClassifyError, classifyGitHubStatus).
THEOREM OutagesKeepFamilyHolds == Client!Spec => []OutagesKeepFamily
<1>1. Client!Init => Client!OutagesKeepFamily
  BY DEF Client!Init, Client!OutagesKeepFamily, Client!NoFamily
<1>2. Client!OutagesKeepFamily /\ [Client!Next]_Client!vars => Client!OutagesKeepFamily'
  <2> SUFFICES ASSUME Client!OutagesKeepFamily, [Client!Next]_Client!vars
               PROVE  Client!OutagesKeepFamily'
    OBVIOUS
  <2>1. ASSUME NEW d, family' = Client!Aged(d) PROVE Client!OutagesKeepFamily'
    BY <2>1 DEF Client!Aged, Client!Live, Client!OutagesKeepFamily
  <2>2. ASSUME family' = family PROVE Client!OutagesKeepFamily'
    BY <2>2 DEF Client!OutagesKeepFamily
  <2>3. ASSUME NEW life, NEW renewable, Client!Login(life, renewable)
        PROVE  Client!OutagesKeepFamily'
    BY <2>3 DEF Client!Login, Client!NoFamily, Client!OutagesKeepFamily
  <2>4. CASE Client!Begin
    BY <2>2, <2>4 DEF Client!Begin, Client!Revoked, Client!OutagesKeepFamily
  <2>5. CASE Client!MarkStarted \/ UNCHANGED Client!vars
    BY <2>2, <2>5 DEF Client!MarkStarted, Client!vars
  <2>6. CASE Client!Finish
    BY <2>6 DEF Client!Finish, Client!Live, Client!NoFamily, Client!Revoked, Client!OutagesKeepFamily
  <2>7. ASSUME NEW lat, NEW life, Client!RefreshSucceeds(lat, life) \/ Client!RenewQuietly(lat, life)
        PROVE  Client!OutagesKeepFamily'
    BY <2>1, <2>7 DEF Client!RefreshSucceeds, Client!RenewQuietly
  <2>8. ASSUME NEW lat, NEW a, Client!RefreshFails(lat, a) PROVE Client!OutagesKeepFamily'
    BY <2>1, <2>8 DEF Client!RefreshFails, Client!Revoked, Client!OutagesKeepFamily
  <2>9. ASSUME NEW lat, NEW a \in Client!TokenAnswers, Client!RenewFails(lat, a)
        PROVE  Client!OutagesKeepFamily'
    <3>1. Client!ClassifyError(a) \notin Client!Transient =>
             call.refused \/ a.code # "other" \/ a.status = 401
      BY DEF Client!ClassifyError, Client!Transient, Client!TokenAnswers
    <3> QED
      BY <2>9, <3>1, FailuresKeepFamily DEF Client!RenewFails
  <2>10. ASSUME NEW lat, NEW a \in Client!IdentityAnswers, Client!Identify(lat, a)
         PROVE  Client!OutagesKeepFamily'
    <3>1. CASE family' = Client!Aged(lat)
      BY <2>1, <3>1
    <3>2. CASE Client!IdentityFails(lat, "terminal", TRUE)
      BY <3>2, FailuresKeepFamily
    <3>3. CASE Client!IdentityFails(Client!Takes(lat), Client!ClassifyHTTPStatus(a),
                                    call.refused \/ a = "401")
      <4>1. Client!ClassifyHTTPStatus(a) \notin Client!Transient => call.refused \/ a = "401"
        BY DEF Client!ClassifyHTTPStatus, Client!Transient, Client!IdentityAnswers
      <4> QED
        BY <3>3, <4>1, FailuresKeepFamily
    <3> QED
      BY <2>10, <3>1, <3>2, <3>3 DEF Client!Identify
  <2>11. ASSUME NEW d, Client!Pause(d) PROVE Client!OutagesKeepFamily'
    BY <2>1, <2>11 DEF Client!Pause
  <2> QED
    BY <2>3, <2>4, <2>5, <2>6, <2>7, <2>8, <2>9, <2>10, <2>11 DEF Client!Next
<1> QED
  BY <1>1, <1>2, PTL DEF Client!Spec, OutagesKeepFamily

\* A provider that answers soon: a call ends within what the renewal window leaves
\* of a token before the HTTP client would renew it, and tokens live longer than
\* the window, or for a time that is not stated.
AnswersSoon ==
    /\ \A lat \in Latencies : lat + ExpiryDelta <= RenewWindow
    /\ \A life \in Lifetimes : life = 0 \/ life > RenewWindow

Credential == [refresh : Nat, stated : BOOLEAN, left : Nat]
Call == [pc : {"identity", "emails", "mark", "refresh", "finish"}, purpose : {"login", "refresh"},
         cred : Credential, token : Credential, started : BOOLEAN, refused : BOOLEAN, left : Int]

ClientTypeOK ==
    /\ current \in Nat
    /\ call \in Call \cup {Client!Idle}
    /\ family.status = "live" => family = Client!Live(family.cred) /\ family.cred \in Credential

\* The refresh token of a live family is the provider's.
FamilyCurrent == family.status = "live" => family.cred.refresh \in {0, current}

\* What a call in progress relies on: it holds the provider's refresh token; until
\* it has marked the family, and as long as it has not heard from the provider
\* since, the family does too; and the token of its lookups is out of reach of the
\* HTTP client's renewal.
CallInv ==
    /\ call.cred.refresh \in {0, current}
    /\ call.purpose = "login" => family.status # "live"
    /\ ~call.started \/ call.pc = "refresh" => FamilyCurrent
    /\ call.started => marked
    /\ call.pc = "mark" => ~call.started
    /\ call.pc = "refresh" => call.started
    /\ call.pc = "identity" /\ call.token.stated => call.token.left > RenewWindow
    /\ call.pc = "emails" /\ call.token.stated => call.token.left >= ExpiryDelta

RotationInv ==
    /\ ClientTypeOK
    /\ call = Client!Idle => FamilyCurrent
    /\ call # Client!Idle => CallInv

\* Time changes only what is left of a credential.
LEMMA ElapseKeeps ==
    ASSUME NEW c \in Credential, NEW d \in Int
    PROVE  /\ Client!Elapse(c, d) \in Credential
           /\ Client!Elapse(c, d).refresh = c.refresh
           /\ Client!Elapse(c, d).stated = c.stated
           /\ Client!Elapse(c, d).left = IF c.left > d THEN c.left - d ELSE 0
BY DEF Client!Elapse, Credential

\* A family that ages stays what it is and keeps its refresh token.
LEMMA AgedKeeps ==
    ASSUME ClientTypeOK, NEW d \in Int, family' = Client!Aged(d)
    PROVE  /\ family'.status = family.status
           /\ family.status = "live" =>
                 /\ family' = Client!Live(family'.cred) /\ family'.cred \in Credential
                 /\ family'.cred.refresh = family.cred.refresh
<1>1. CASE family.status = "live"
  <2> DEFINE c == Client!Elapse(family.cred, d)
  <2>1. c \in Credential /\ c.refresh = family.cred.refresh
    BY <1>1, ElapseKeeps DEF ClientTypeOK
  <2>2. family' = Client!Live(c)
    BY <1>1 DEF Client!Aged
  <2> HIDE DEF c
  <2> QED
    BY <1>1, <2>1, <2>2 DEF Client!Live
<1>2. CASE family.status # "live"
  BY <1>2 DEF Client!Aged
<1> QED
  BY <1>1, <1>2

\* A call some time later is the same call.
LEMMA LaterKeeps ==
    ASSUME call \in Call, NEW d \in Int
    PROVE  /\ Client!Later(d) \in Call
           /\ Client!Later(d).pc = call.pc /\ Client!Later(d).purpose = call.purpose
           /\ Client!Later(d).started = call.started
           /\ Client!Later(d).cred.refresh = call.cred.refresh
           /\ Client!Later(d).token.stated = call.token.stated
           /\ Client!Later(d).token.left =
                 IF call.token.left > d THEN call.token.left - d ELSE 0
<1> DEFINE cred == Client!Elapse(call.cred, d)
           token == Client!Elapse(call.token, d)
<1>1. cred \in Credential /\ cred.refresh = call.cred.refresh
  BY ElapseKeeps DEF Call
<1>2. /\ token \in Credential /\ token.stated = call.token.stated
      /\ token.left = IF call.token.left > d THEN call.token.left - d ELSE 0
  BY ElapseKeeps DEF Call
<1> DEFINE left == call.left - d
<1>3. Client!Later(d) = [call EXCEPT !.cred = cred, !.token = token, !.left = left]
  BY DEF Client!Later
<1>4. left \in Int
  BY DEF Call
<1> HIDE DEF cred, token, left
<1>5. Client!Later(d) \in Call
  BY <1>1, <1>2, <1>3, <1>4, Zenon DEF Call
<1>6. Client!Later(d).pc = call.pc /\ Client!Later(d).purpose = call.purpose
  BY <1>3 DEF Call
<1>7. Client!Later(d).started = call.started
  BY <1>3 DEF Call
<1>8. Client!Later(d).cred = cred /\ Client!Later(d).token = token
  BY <1>3 DEF Call
<1> QED
  BY <1>1, <1>2, <1>5, <1>6, <1>7, <1>8

\* A credential as the token endpoint's answer gives it.
LEMMA NormalizedCredential ==
    ASSUME NEW refresh \in Nat, NEW life \in Nat
    PROVE  LET c == Client!NormalizeCredential(refresh, life)
           IN  c \in Credential /\ c.refresh = refresh /\ (c.stated => life # 0) /\ c.left = life
<1>1. (life # 0) \in BOOLEAN
  BY Zenon
<1> QED
  BY <1>1 DEF Client!NormalizeCredential, Credential

\* A call begins with its credential as its token.
LEMMA CallingIs ==
    ASSUME NEW c \in Credential, NEW purpose \in {"login", "refresh"}, NEW at \in {"identity", "mark"}
    PROVE  LET k == Client!Calling(purpose, c, at)
           IN  /\ k \in Call /\ k.purpose = purpose /\ k.pc = at /\ k.cred = c /\ k.token = c
               /\ ~k.started
BY ClientAssumption DEF Client!Calling, Call

\* A lookup that fails ends the call, or turns to the refresh of a credential that
\* was not accepted: the family keeps its refresh token or is revoked.
LEMMA FailureKeepsRotation ==
    ASSUME RotationInv, call # Client!Idle, current' = current,
           NEW d \in Int, NEW kind, NEW refused \in BOOLEAN,
           Client!IdentityFails(d, kind, refused)
    PROVE  RotationInv'
<1> USE DEF RotationInv
<1>1. call \in Call /\ CallInv /\ ClientTypeOK /\ current' \in Nat
  BY DEF ClientTypeOK
<1>2. CASE call.purpose = "login" /\ call' = Client!Idle /\ family' = family
  BY <1>1, <1>2 DEF ClientTypeOK, CallInv, FamilyCurrent
<1>3. ASSUME call.purpose = "refresh", ~call.started, family' = Client!Aged(d), marked' = marked
      PROVE  FamilyCurrent' /\ family'.status = family.status
             /\ (family'.status = "live" =>
                    family' = Client!Live(family'.cred) /\ family'.cred \in Credential)
  BY <1>1, <1>3, AgedKeeps DEF CallInv, FamilyCurrent
<1>4. CASE /\ call.purpose = "refresh" /\ ~call.started
           /\ call' = [Client!Later(d) EXCEPT !.pc = "mark", !.refused = refused]
           /\ family' = Client!Aged(d) /\ marked' = marked
  <2> DEFINE later == Client!Later(d)
  <2>1. /\ later \in Call /\ later.purpose = call.purpose /\ later.started = call.started
        /\ later.cred.refresh = call.cred.refresh
    BY <1>1, LaterKeeps
  <2>2. call' = [later EXCEPT !.pc = "mark", !.refused = refused]
    BY <1>4
  <2> HIDE DEF later
  <2>3. call' \in Call
    BY <2>1, <2>2, Zenon DEF Call
  <2>4. /\ call'.pc = "mark" /\ call'.purpose = later.purpose /\ call'.started = later.started
        /\ call'.cred = later.cred
    BY <2>1, <2>2 DEF Call
  <2>5. ClientTypeOK'
    BY <1>1, <1>3, <1>4, <2>3 DEF ClientTypeOK
  <2>6. CallInv'
    BY <1>1, <1>3, <1>4, <2>1, <2>4 DEF CallInv
  <2> QED
    BY <2>4, <2>5, <2>6 DEF Client!Idle
<1>5. CASE /\ call.purpose = "refresh" /\ ~call.started
           /\ call' = Client!Idle /\ family' = Client!Aged(d) /\ marked' = marked
  BY <1>1, <1>3, <1>5 DEF ClientTypeOK
<1>6. CASE call' = Client!Idle /\ family' = Client!Revoked(refused, call.started, FALSE)
  BY <1>1, <1>6 DEF ClientTypeOK, FamilyCurrent, Client!Revoked
<1> QED
  BY <1>2, <1>4, <1>5, <1>6 DEF Client!IdentityFails

\* Each step of a login, a refresh, the provider and time keeps the invariant at a
\* provider that answers soon.
LEMMA RotationInvNext ==
    ASSUME AnswersSoon, RotationInv, [Client!Next]_Client!vars
    PROVE  RotationInv'
<1> USE ClientAssumption DEF RotationInv
<1>1. ClientTypeOK /\ (call = Client!Idle \/ (call \in Call /\ CallInv))
  BY Zenon DEF ClientTypeOK
<1>2. ASSUME NEW life \in Lifetimes, NEW renewable \in BOOLEAN, Client!Login(life, renewable)
      PROVE  RotationInv'
  <2> DEFINE c == Client!NormalizeCredential(current', life)
  <2>1. current' \in Nat
    BY <1>2 DEF Client!Login
  <2>2. c \in Credential /\ c.refresh = current' /\ (c.stated => life # 0) /\ c.left = life
    BY <2>1, NormalizedCredential
  <2>3. call' = Client!Calling("login", c, "identity")
    BY <1>2 DEF Client!Login
  <2> HIDE DEF c
  <2>4. call' \in Call /\ call'.purpose = "login" /\ call'.pc = "identity" /\ call'.cred = c
        /\ call'.token = c /\ ~call'.started
    BY <2>2, <2>3, CallingIs
  <2>5. family'.status # "live"
    BY <1>2 DEF Client!Login, Client!NoFamily
  <2> QED
    BY <2>1, <2>2, <2>4, <2>5 DEF ClientTypeOK, CallInv, FamilyCurrent, Client!Idle, AnswersSoon
<1>3. CASE Client!Begin
  <2> DEFINE c == family.cred
  <2>1. c \in Credential /\ c.refresh \in {0, current} /\ current' = current /\ call = Client!Idle
    BY <1>1, <1>3 DEF Client!Begin, ClientTypeOK, FamilyCurrent
  <2>2. ASSUME NEW at \in {"identity", "mark"}, call' = Client!Calling("refresh", c, at),
               family' = family, at = "identity" /\ c.stated => c.left > RenewWindow
        PROVE  RotationInv'
    <3> HIDE DEF c
    <3>1. call' \in Call /\ call'.purpose = "refresh" /\ call'.pc = at /\ call'.cred = c
          /\ call'.token = c /\ ~call'.started
      BY <2>1, <2>2, CallingIs
    <3> QED
      BY <1>1, <2>1, <2>2, <3>1 DEF ClientTypeOK, CallInv, FamilyCurrent, Client!Idle
  <2>3. CASE ~Client!Expiring(c) /\ call' = Client!Calling("refresh", c, "identity")
             /\ family' = family
    BY <2>1, <2>2, <2>3 DEF Client!Expiring, Credential
  <2>4. CASE call' = Client!Calling("refresh", c, "mark") /\ family' = family
    BY <2>2, <2>4
  <2>5. CASE family' = Client!Revoked(FALSE, FALSE, TRUE) /\ call' = call
    BY <1>1, <2>1, <2>5 DEF ClientTypeOK, FamilyCurrent, Client!Revoked
  <2> QED
    BY <1>3, <2>3, <2>4, <2>5 DEF Client!Begin
<1>4. CASE Client!MarkStarted
  <2>1. call \in Call /\ CallInv
    BY <1>1, <1>4 DEF Client!MarkStarted, Client!Idle
  <2>2. call' \in Call
    BY <1>4, <2>1, Zenon DEF Client!MarkStarted, Call
  <2>3. /\ call'.pc = "refresh" /\ call'.started /\ call'.cred = call.cred
        /\ call'.purpose = call.purpose
    BY <1>4, <2>1 DEF Client!MarkStarted, Call
  <2> QED
    BY <1>1, <1>4, <2>1, <2>2, <2>3
       DEF Client!MarkStarted, ClientTypeOK, CallInv, FamilyCurrent, Client!Idle
<1>5. CASE Client!Finish
  <2>1. call \in Call /\ CallInv
    BY <1>1, <1>5 DEF Client!Finish, Client!Idle
  <2>2. call.cred \in Credential
    BY <2>1 DEF Call
  <2> QED
    BY <1>1, <1>5, <2>1, <2>2
       DEF Client!Finish, ClientTypeOK, CallInv, FamilyCurrent, Client!Live, Client!NoFamily,
           Client!Revoked
<1>6. ASSUME NEW lat \in Latencies, NEW life \in Lifetimes, Client!RefreshSucceeds(lat, life)
      PROVE  RotationInv'
  <2> DEFINE c == Client!NormalizeCredential(current', life)
             later == Client!Later(lat)
  <2>1. call \in Call /\ CallInv /\ call.pc = "refresh"
    BY <1>1, <1>6 DEF Client!RefreshSucceeds, Client!Idle
  <2>2. current' \in Nat
    BY <1>1, <1>6 DEF Client!RefreshSucceeds, Client!Grant, ClientTypeOK
  <2>3. c \in Credential /\ c.refresh = current' /\ (c.stated => life # 0) /\ c.left = life
    BY <2>2, NormalizedCredential
  <2>4. later \in Call /\ later.purpose = call.purpose /\ later.started = call.started
    BY <2>1, LaterKeeps
  <2>5. call' = [later EXCEPT !.pc = "identity", !.cred = c, !.token = c]
    BY <1>6 DEF Client!RefreshSucceeds
  <2> HIDE DEF c, later
  <2>6. call' \in Call
    BY <2>3, <2>4, <2>5, Zenon DEF Call
  <2>7. /\ call'.pc = "identity" /\ call'.cred = c /\ call'.token = c
        /\ call'.purpose = call.purpose /\ call'.started = call.started
    BY <2>4, <2>5 DEF Call
  <2>8. family'.status = family.status
        /\ (family'.status = "live" =>
               family' = Client!Live(family'.cred) /\ family'.cred \in Credential)
    BY <1>1, <1>6, AgedKeeps DEF Client!RefreshSucceeds
  <2>9. ClientTypeOK'
    BY <2>2, <2>6, <2>8 DEF ClientTypeOK
  <2>10. CallInv'
    BY <1>6, <2>1, <2>3, <2>7, <2>8
       DEF Client!RefreshSucceeds, CallInv, AnswersSoon
  <2> QED
    BY <2>7, <2>9, <2>10 DEF Client!Idle
<1>7. ASSUME NEW lat \in Latencies, NEW a \in Client!TokenAnswers, Client!RefreshFails(lat, a)
      PROVE  RotationInv'
  <2>1. call \in Call /\ CallInv /\ call.pc = "refresh"
    BY <1>1, <1>7 DEF Client!RefreshFails, Client!Idle
  <2>2. current' \in Nat
    BY <1>1, <1>7 DEF Client!RefreshFails, Client!MayGrant, Client!Grant, ClientTypeOK
  <2>3. CASE Client!ClassifyError(a) = "configuration"
    <3>1. a.status # 0
      BY <2>3 DEF Client!ClassifyError, Client!TokenAnswers
    <3>2. current' = current /\ call' = Client!Idle /\ family' = Client!Aged(lat)
      BY <1>7, <2>3, <3>1 DEF Client!RefreshFails
    <3>3. FamilyCurrent' /\ (family'.status = "live" =>
               family' = Client!Live(family'.cred) /\ family'.cred \in Credential)
      BY <1>1, <2>1, <3>2, AgedKeeps DEF CallInv, FamilyCurrent
    <3> QED
      BY <2>2, <3>2, <3>3 DEF ClientTypeOK
  <2>4. CASE Client!ClassifyError(a) # "configuration"
    BY <1>7, <2>2, <2>4
       DEF Client!RefreshFails, Client!Revoked, ClientTypeOK, FamilyCurrent
  <2> QED
    BY <2>3, <2>4
<1>8. ASSUME NEW lat \in Latencies, call.pc \in {"identity", "emails"}
      PROVE  Client!Valid(call.token)
  <2>1. call \in Call /\ CallInv
    BY <1>1, <1>8 DEF Client!Idle
  <2>2. call.token.left \in Nat /\ ExpiryDelta <= RenewWindow
    BY <2>1 DEF Call, Credential, AnswersSoon
  <2> QED
    BY <1>8, <2>1, <2>2 DEF CallInv, Client!Valid
<1>9. ASSUME NEW lat \in Latencies, NEW a \in Client!IdentityAnswers, Client!Identify(lat, a)
      PROVE  RotationInv'
  <2>1. call \in Call /\ CallInv /\ call # Client!Idle /\ current' = current
    BY <1>1, <1>9 DEF Client!Identify, Client!Idle
  <2>2. Client!Takes(lat) \in Int
    BY <2>1 DEF Client!Takes, Call
  <2>3. CASE Client!IdentityFails(lat, "terminal", TRUE)
    <3>1. lat \in Int /\ TRUE \in BOOLEAN
      OBVIOUS
    <3> QED
      BY <2>1, <2>3, <3>1, FailureKeepsRotation, Zenon
  <2>4. CASE Client!IdentityFails(Client!Takes(lat), Client!ClassifyHTTPStatus(a),
                                  call.refused \/ a = "401")
    <3>1. (call.refused \/ a = "401") \in BOOLEAN
      BY Zenon
    <3> QED
      BY <2>1, <2>2, <2>4, <3>1, FailureKeepsRotation
  <2>5. CASE /\ call' = [Client!Later(lat) EXCEPT
                            !.pc = IF type = "github" /\ call.pc = "identity"
                                   THEN "emails" ELSE "finish"]
             /\ family' = Client!Aged(lat) /\ marked' = marked
    <3> DEFINE later == Client!Later(lat)
               next == IF type = "github" /\ call.pc = "identity" THEN "emails" ELSE "finish"
    <3>1. /\ later \in Call /\ later.purpose = call.purpose /\ later.started = call.started
          /\ later.cred.refresh = call.cred.refresh /\ later.token.stated = call.token.stated
          /\ later.token.left = IF call.token.left > lat THEN call.token.left - lat ELSE 0
      BY <2>1, LaterKeeps
    <3>2. next \in {"emails", "finish"} /\ (next = "emails" => call.pc = "identity")
      OBVIOUS
    <3>3. call' = [later EXCEPT !.pc = next]
      BY <2>5
    <3> HIDE DEF later, next
    <3>4. call' \in Call
      BY <3>1, <3>2, <3>3 DEF Call
    <3>5. /\ call'.pc = next /\ call'.purpose = later.purpose /\ call'.started = later.started
          /\ call'.cred = later.cred /\ call'.token = later.token
      BY <3>1, <3>3 DEF Call
    <3>6. /\ family'.status = family.status
          /\ family.status = "live" =>
                /\ family' = Client!Live(family'.cred) /\ family'.cred \in Credential
                /\ family'.cred.refresh = family.cred.refresh
      BY <1>1, <2>5, AgedKeeps
    <3>7. ClientTypeOK'
      BY <1>1, <2>1, <3>4, <3>6 DEF ClientTypeOK
    <3>8. call'.pc = "emails" /\ call'.token.stated => call'.token.left >= ExpiryDelta
      BY <2>1, <3>1, <3>2, <3>5 DEF CallInv, AnswersSoon, Call, Credential
    <3>9. ~call.started => FamilyCurrent'
      BY <2>1, <3>6 DEF CallInv, FamilyCurrent
    <3>10. CallInv'
      BY <2>1, <2>5, <3>1, <3>2, <3>5, <3>6, <3>8, <3>9 DEF CallInv
    <3> QED
      BY <3>2, <3>5, <3>7, <3>10 DEF Client!Idle
  <2> QED
    BY <1>9, <2>3, <2>4, <2>5 DEF Client!Identify
<1>10. ASSUME NEW d \in Pauses, Client!Pause(d) PROVE RotationInv'
  BY <1>1, <1>10, AgedKeeps DEF Client!Pause, ClientTypeOK, FamilyCurrent
<1>11. CASE UNCHANGED Client!vars
  BY <1>1, <1>11 DEF Client!vars, ClientTypeOK, CallInv, FamilyCurrent
<1> QED
  BY <1>2, <1>3, <1>4, <1>5, <1>6, <1>7, <1>8, <1>9, <1>10, <1>11
     DEF Client!Next, Client!RenewQuietly, Client!RenewFails

\* At a provider that answers soon, for every renewal window, expiry delta and
\* budget: while the stored refresh token is not the provider's, the family is
\* marked as being refreshed, so a crash never leaves a rotation unnoticed
\* (MarkUpstreamRefreshStarted).
THEOREM RotationRecordedHolds ==
    ASSUME AnswersSoon
    PROVE  Client!Spec => []Client!RotationRecorded /\ []RotationRecorded
<1>1. Client!Init => RotationInv
  BY DEF Client!Init, RotationInv, ClientTypeOK, FamilyCurrent, Client!NoFamily
<1>2. RotationInv /\ [Client!Next]_Client!vars => RotationInv'
  BY RotationInvNext
<1>3. RotationInv => Client!RotationRecorded
  BY DEF RotationInv, ClientTypeOK, CallInv, FamilyCurrent, Client!RotationRecorded
<1>4. RotationInv => RotationRecorded
  BY <1>3 DEF RotationRecorded
<1> QED
  BY <1>1, <1>2, <1>3, <1>4, PTL DEF Client!Spec

--------------------------------------------------------------------------------
(* Configuration *)

Encryption == {document.encryption : document \in Documents}

\* A refresh policy and an email section whose durations have their defaults.
EffectivePolicy ==
    [enabled : BOOLEAN, offline : BOOLEAN, sessionIdle : Nat \ {0}, sessionAbsolute : Nat \ {0},
     offlineIdle : Nat \ {0}, offlineAbsolute : Nat \ {0}]
EffectiveEmail ==
    [mode : {"disabled", "provider", "strict"}, secret : BOOLEAN, smtp : BOOLEAN, ttl : Nat \ {0}]
Effective ==
    [connectors : [ConnectorIDs -> ConnectorTypes \cup {None}], encryption : Encryption,
     email : EffectiveEmail \cup {None}, clients : [Clients -> EffectivePolicy \cup {None}]]

\* A server runs with a configuration that was completed and then validated.
RunningInv == running # None => running \in Effective /\ Valid(running)

\* The defaults make an accepted document a complete one (Parse).
LEMMA DefaultsComplete ==
    ASSUME NEW document \in Documents
    PROVE  WithDefaults(document) \in Effective
<1> DEFINE email == IF document.email = None THEN None ELSE EmailDefaults(document.email)
           clients == [c \in Clients |-> IF document.clients[c] = None THEN None
                                         ELSE RefreshDefaults(document.clients[c])]
<1>1. document \in [connectors : [ConnectorIDs -> ConnectorTypes \cup {None}],
                    encryption : {document.encryption},
                    email : EmailSection \cup {None},
                    clients : [Clients -> RefreshPolicy \cup {None}]]
  BY ConfigurationAssumption
<1>2. ASSUME NEW policy \in RefreshPolicy PROVE RefreshDefaults(policy) \in EffectivePolicy
  <2> DEFINE si == Default(policy.sessionIdle, 30)
             sa == Default(policy.sessionAbsolute, 600)
             oi == Default(policy.offlineIdle, 43200)
             oa == Default(policy.offlineAbsolute, 129600)
  <2>1. /\ policy.sessionIdle \in Nat /\ policy.sessionAbsolute \in Nat
        /\ policy.offlineIdle \in Nat /\ policy.offlineAbsolute \in Nat
    BY DEF RefreshPolicy, Duration
  <2>2. si \in Nat \ {0} /\ sa \in Nat \ {0} /\ oi \in Nat \ {0} /\ oa \in Nat \ {0}
    BY <2>1 DEF Default
  <2>3. RefreshDefaults(policy) =
           [policy EXCEPT !.sessionIdle = si, !.sessionAbsolute = sa, !.offlineIdle = oi,
                          !.offlineAbsolute = oa]
    BY DEF RefreshDefaults
  <2> HIDE DEF si, sa, oi, oa
  <2> QED
    BY <2>2, <2>3, Zenon DEF RefreshPolicy, EffectivePolicy
<1>3. ASSUME NEW section \in EmailSection PROVE EmailDefaults(section) \in EffectiveEmail
  <2> DEFINE mode == IF section.mode = "" THEN "disabled" ELSE section.mode
             ttl == Default(section.ttl, 5)
  <2>1. mode \in {"disabled", "provider", "strict"}
    BY DEF EmailSection
  <2>2. ttl \in Nat \ {0}
    <3>1. section.ttl \in Nat
      BY DEF EmailSection, Duration
    <3> QED
      BY <3>1 DEF Default
  <2>3. EmailDefaults(section) = [section EXCEPT !.mode = mode, !.ttl = ttl]
    BY DEF EmailDefaults
  <2> HIDE DEF mode, ttl
  <2> QED
    BY <2>1, <2>2, <2>3, Zenon DEF EmailSection, EffectiveEmail
<1>4. email \in EffectiveEmail \cup {None}
  BY <1>1, <1>3
<1>5. clients \in [Clients -> EffectivePolicy \cup {None}]
  BY <1>1, <1>2
<1>6. WithDefaults(document) = [document EXCEPT !.email = email, !.clients = clients]
  BY DEF WithDefaults
<1> HIDE DEF email, clients
<1>7. document.encryption \in Encryption
  BY DEF Encryption
<1> QED
  BY <1>1, <1>4, <1>5, <1>6, <1>7, Zenon DEF Effective

\* A server that may send codes has what it takes (validate and serve agree).
LEMMA CodesCanBeSent ==
    ASSUME running \in Effective, Valid(running),
           \/ \E id \in ConnectorIDs : TypeOf(id) = "email"
           \/ running.email # None /\ NeedsEmailDelivery(running)
    PROVE  Mailer /\ OTPSecret /\ running.email # None /\ running.email.ttl \in 1 .. 10
<1>1. ASSUME NEW id \in ConnectorIDs, TypeOf(id) = "email" PROVE "email" \in TypesOf(running)
  BY <1>1, ConfigurationAssumption DEF TypeOf, TypesOf, ConnectorTypes
<1>2. running.email # None /\ NeedsEmailDelivery(running)
  BY <1>1 DEF Valid, ValidEmail, NeedsEmailDelivery
<1> QED
  BY <1>2 DEF Valid, ValidEmail, Mailer, OTPSecret

\* A client whose sign-ins may be refreshed, at a connector with a provider, has an
\* encryption key to seal the credential with.
LEMMA CredentialsCanBeSealed ==
    ASSUME running \in Effective, Valid(running), NEW c \in Clients, ClientOf(c) # None,
           ClientOf(c).enabled, NEW id \in ConnectorIDs, TypeOf(id) \notin {None, "email"}
    PROVE  running.encryption # None
<1>1. RefreshEnabled(running)
  BY DEF RefreshEnabled, ClientOf
<1>2. TypeOf(id) \in TypesOf(running) \ {"email"}
  BY DEF TypesOf, TypeOf
<1> QED
  BY <1>1, <1>2 DEF Valid, NeedsEncryption

Credentials == [key : Encryption, whole : BOOLEAN, from : ConnectorTypes] \cup {None}

\* A code that was sent, and a family, as SignInBacked wants them.
SentCode == [mailer : {TRUE}, secret : {TRUE}, ttl : 1 .. 10]
BackedFamily ==
    {f \in [type : ConnectorTypes, credential : Credentials, idle : Nat, absolute : Nat] :
        /\ f.type = "email" => f.credential = None
        /\ f.type # "email" => f.credential # None /\ f.credential.whole
        /\ 0 < f.idle /\ f.idle <= f.absolute}

Flow ==
    [pc : {"selecting", "upstream", "challenge", "code", "done", "failed"}, client : Clients,
     connector : ConnectorIDs \cup {None}, credential : Credentials,
     mode : {"", "session", "offline"}, sent : SentCode \cup {None},
     family : BackedFamily \cup {None}, undisturbed : BOOLEAN]

\* A sign-in past the selection of its connector has one.
FlowInv ==
    /\ flow \in Flow \cup {NoFlow}
    /\ flow.pc \in {"upstream", "challenge", "code"} => flow.connector \in ConnectorIDs

\* The credential of a sign-in is the one its connector's type and its mode ask for,
\* readable with the running server's key.
Kept(f) ==
    /\ TypeOf(f.connector) # None
    /\ f.mode = "" => f.credential = None
    /\ f.mode # "" => Fits(f)
    /\ f.credential # None =>
          /\ running.encryption # None
          /\ f.credential = [key |-> running.encryption, whole |-> TRUE,
                             from |-> TypeOf(f.connector)]

\* The family holds the credential of its connector's type.
OwnCredential(f) ==
    f.family # None => f.family.type = "email" \/ f.family.credential.from = f.family.type

\* What a sign-in can rely on at each of its steps while its first server runs.
Undisturbed(f) ==
    f # NoFlow /\ f.undisturbed =>
        /\ running # None
        /\ f.pc # "failed"
        /\ SatisfiesPolicy(f)
        /\ f.pc = "selecting" => f.credential = None
        /\ f.pc = "upstream" => TypeOf(f.connector) \notin {None, "email"}
        /\ f.pc \in {"challenge", "code"} => Kept(f)
        /\ f.pc = "challenge" => Mailer /\ OTPSecret
        /\ f.pc = "done" => OwnCredential(f)

UndisturbedInv == Undisturbed(flow)

ConfigInv == RunningInv /\ FlowInv /\ UndisturbedInv

\* The client's policy is about its name and the sign-in's mode.
LEMMA SameClient ==
    ASSUME NEW f, NEW g, f.client = g.client, f.mode = g.mode
    PROVE  SatisfiesPolicy(f) <=> SatisfiesPolicy(g)
BY DEF SatisfiesPolicy

\* A whole credential, sealed with a key, of a type of provider.
LEMMA CredentialParts ==
    ASSUME NEW credential, NEW key, NEW from,
           credential = [key |-> key, whole |-> TRUE, from |-> from]
    PROVE  credential.whole /\ credential.key = key /\ credential.from = from
OBVIOUS

\* The credential of a sign-in is of its connector's type.
LEMMA KeptIsOwn ==
    ASSUME NEW f, Kept(f), f.credential # None
    PROVE  f.credential.from = TypeOf(f.connector)
<1>1. f.credential = [key |-> running.encryption, whole |-> TRUE, from |-> TypeOf(f.connector)]
  BY Zenon DEF Kept
<1> QED
  BY <1>1, CredentialParts

\* complete stores a code or refuses, and does not refuse a sign-in with all it needs.
LEMMA CompleteKeeps ==
    ASSUME running \in Effective, NEW f \in Flow
    PROVE  LET g == Complete(f)
           IN  /\ g \in Flow /\ g.pc \in {"code", "failed"} /\ g.connector = f.connector
               /\ g.client = f.client /\ g.mode = f.mode /\ g.undisturbed = f.undisturbed
               /\ SatisfiesPolicy(f) /\ Kept(f) => g.pc = "code" /\ Kept(g)
<1> DEFINE g == Complete(f)
           refused == \/ ~SatisfiesPolicy(f)
                      \/ f.credential # None /\ running.encryption = None
                      \/ f.mode # "" /\ (TypeOf(f.connector) = None \/ ~Fits(f))
           whole == f.credential.whole /\ f.credential.key = running.encryption
           credential == IF f.credential = None THEN None
                         ELSE [key |-> running.encryption, whole |-> whole,
                               from |-> f.credential.from]
<1>1. CASE refused
  <2>1. g = [f EXCEPT !.pc = "failed"]
    BY <1>1 DEF Complete, Failed
  <2>2. g \in Flow
    BY <2>1, Zenon DEF Flow
  <2>3. /\ g.pc = "failed" /\ g.connector = f.connector
        /\ g.client = f.client /\ g.mode = f.mode /\ g.undisturbed = f.undisturbed
    BY <2>1 DEF Flow
  <2>4. ~(SatisfiesPolicy(f) /\ Kept(f))
    BY <1>1 DEF Kept
  <2> QED
    BY <2>2, <2>3, <2>4
<1>2. CASE ~refused
  <2>1. g = [f EXCEPT !.pc = "code", !.credential = credential]
    BY <1>2 DEF Complete
  <2>2. whole \in BOOLEAN
    BY Zenon
  <2>3. running.encryption \in Encryption
    BY DEF Effective
  <2>4. credential \in Credentials
    <3>1. f.credential # None => f.credential.from \in ConnectorTypes
      BY DEF Flow, Credentials
    <3> QED
      BY <2>2, <2>3, <3>1, Zenon DEF Credentials
  <2>5. Kept(f) => credential = f.credential
    <3>1. CASE f.credential = None
      BY <3>1
    <3>2. CASE f.credential # None
      <4>1. Kept(f) => f.credential = [key |-> running.encryption, whole |-> TRUE,
                                       from |-> TypeOf(f.connector)]
        BY <3>2 DEF Kept
      <4>2. Kept(f) => whole = TRUE
        BY <4>1
      <4>3. Kept(f) => f.credential.from = TypeOf(f.connector)
        BY <3>2, KeptIsOwn
      <4> HIDE DEF whole
      <4> QED
        BY <3>2, <4>1, <4>2, <4>3
    <3> QED
      BY <3>1, <3>2
  <2> HIDE DEF credential
  <2>6. g \in Flow
    BY <2>1, <2>4, Zenon DEF Flow
  <2>7. /\ g.pc = "code" /\ g.connector = f.connector /\ g.credential = credential
        /\ g.client = f.client /\ g.mode = f.mode /\ g.undisturbed = f.undisturbed
    BY <2>1 DEF Flow
  <2>8. Kept(f) => Kept(g)
    BY <2>5, <2>7 DEF Kept, Fits
  <2> QED
    BY <2>6, <2>7, <2>8
<1> QED
  BY <1>1, <1>2

\* beginOTP's code is one that can be sent and checked.
LEMMA BeginOTPKeeps ==
    ASSUME running \in Effective, Mailer, OTPSecret, running.email # None,
           running.email.ttl \in 1 .. 10, NEW f \in Flow
    PROVE  LET g == BeginOTP(f)
           IN  /\ g \in Flow /\ g.pc = "challenge" /\ g.connector = f.connector
               /\ g.client = f.client /\ g.mode = f.mode /\ g.undisturbed = f.undisturbed
               /\ g.credential = f.credential
<1> DEFINE g == BeginOTP(f)
           sent == [mailer |-> TRUE, secret |-> TRUE, ttl |-> running.email.ttl]
<1>1. Mailer = TRUE /\ OTPSecret = TRUE
  BY Zenon DEF Mailer, OTPSecret
<1>2. g = [f EXCEPT !.pc = "challenge", !.sent = sent]
  BY <1>1, Zenon DEF BeginOTP
<1>3. sent \in SentCode
  BY DEF SentCode
<1> HIDE DEF sent
<1>4. g \in Flow
  BY <1>2, <1>3, Zenon DEF Flow
<1>5. /\ g.pc = "challenge" /\ g.connector = f.connector
      /\ g.client = f.client /\ g.mode = f.mode /\ g.undisturbed = f.undisturbed
      /\ g.credential = f.credential
  BY <1>2 DEF Flow
<1> QED
  BY <1>4, <1>5

\* acceptOrChallenge completes the sign-in or sends a code; what it needs for that an
\* accepted document has.
LEMMA AcceptKeeps ==
    ASSUME running \in Effective, Valid(running), NEW f \in Flow,
           NEW verified \in BOOLEAN, NEW local \in BOOLEAN
    PROVE  LET g == AcceptOrChallenge(f, verified, local)
           IN  /\ g \in Flow /\ g.pc \in {"code", "challenge", "failed"}
               /\ g.connector = f.connector /\ g.client = f.client /\ g.mode = f.mode
               /\ g.undisturbed = f.undisturbed
               /\ SatisfiesPolicy(f) /\ Kept(f) => g.pc # "failed" /\ Kept(g)
               /\ g.pc = "challenge" => Mailer /\ OTPSecret
<1> DEFINE g == AcceptOrChallenge(f, verified, local)
<1>1. CASE VerificationAccepted(verified, local)
  <2>1. g = Complete(f)
    BY <1>1 DEF AcceptOrChallenge
  <2> HIDE DEF g
  <2> QED
    <3>1. /\ g \in Flow /\ g.pc \in {"code", "failed"} /\ g.connector = f.connector
          /\ g.client = f.client /\ g.mode = f.mode /\ g.undisturbed = f.undisturbed
          /\ SatisfiesPolicy(f) /\ Kept(f) => g.pc = "code" /\ Kept(g)
      BY <2>1, CompleteKeeps, Zenon
    <3> QED
      BY <3>1 DEF g
<1>2. CASE ~VerificationAccepted(verified, local) /\ Mailer
  <2>1. g = BeginOTP(f)
    BY <1>2 DEF AcceptOrChallenge
  <2>2. Mailer /\ OTPSecret /\ running.email # None /\ running.email.ttl \in 1 .. 10
    BY <1>2, CodesCanBeSent DEF Mailer
  <2> HIDE DEF g
  <2>3. /\ g \in Flow /\ g.pc = "challenge" /\ g.connector = f.connector
        /\ g.client = f.client /\ g.mode = f.mode /\ g.undisturbed = f.undisturbed
        /\ g.credential = f.credential
    BY <2>1, <2>2, BeginOTPKeeps
  <2>4. Kept(f) => Kept(g)
    BY <2>3 DEF Kept, Fits
  <2> QED
    BY <2>2, <2>3, <2>4 DEF g
<1>3. CASE ~VerificationAccepted(verified, local) /\ ~Mailer
  <2>1. running.email # None /\ running.email.mode \in {"provider", "strict"}
    BY <1>3 DEF VerificationAccepted, Effective, EffectiveEmail
  <2>2. Mailer
    BY <2>1, CodesCanBeSent DEF NeedsEmailDelivery
  <2> QED
    BY <1>3, <2>2
<1> QED
  BY <1>1, <1>2, <1>3

\* While the server runs, its configuration is what it was.
LEMMA SameServer ==
    ASSUME running' = running
    PROVE  UndisturbedInv' <=> Undisturbed(flow')
BY Zenon DEF UndisturbedInv, Undisturbed, SatisfiesPolicy, Kept, Fits, TypeOf, ClientOf, Mailer,
   OTPSecret, NeedsEmailDelivery, TypesOf

\* A server starts with a completed and validated document, on a sign-in that another
\* server began.
LEMMA StartKeeps == ASSUME ConfigInv, Start PROVE ConfigInv'
<1>1. PICK document \in Documents : Accepted(document) /\ running' = WithDefaults(document)
  BY DEF Start
<1>2. RunningInv'
  BY <1>1, DefaultsComplete DEF RunningInv, Accepted, Valid, TypesOf, NeedsEncryption,
     RefreshEnabled, ValidEmail, NeedsEmailDelivery
<1>3. flow' = flow /\ running = None
  BY DEF Start
<1>4. FlowInv'
  BY <1>3 DEF ConfigInv, FlowInv
<1>5. UndisturbedInv'
  BY <1>3, Zenon DEF ConfigInv, UndisturbedInv, Undisturbed
<1> QED
  BY <1>2, <1>4, <1>5 DEF ConfigInv

\* A server that stops disturbs the sign-in it was carrying out.
LEMMA StopKeeps == ASSUME ConfigInv, Stop PROVE ConfigInv'
<1>1. RunningInv'
  BY DEF Stop, RunningInv
<1>2. CASE flow = NoFlow /\ flow' = NoFlow
  BY <1>1, <1>2 DEF ConfigInv, FlowInv, UndisturbedInv, Undisturbed
<1>3. CASE flow # NoFlow /\ flow' = [flow EXCEPT !.undisturbed = FALSE]
  <2>1. flow \in Flow
    BY <1>3 DEF ConfigInv, FlowInv
  <2>2. flow' \in Flow
    BY <1>3, <2>1, Zenon DEF Flow
  <2>3. flow'.pc = flow.pc /\ flow'.connector = flow.connector /\ ~flow'.undisturbed
    BY <1>3, <2>1 DEF Flow
  <2> QED
    BY <1>1, <2>2, <2>3 DEF ConfigInv, FlowInv, UndisturbedInv, Undisturbed
<1> QED
  BY <1>2, <1>3 DEF Stop

\* A step of the sign-in under a running server need only be about the sign-in.
LEMMA FlowStepKeeps ==
    ASSUME ConfigInv, running' = running, flow' \in Flow,
           flow'.pc \in {"upstream", "challenge", "code"} => flow'.connector \in ConnectorIDs,
           Undisturbed(flow')
    PROVE  ConfigInv'
<1>1. UndisturbedInv'
  BY SameServer
<1>2. FlowInv'
  BY DEF FlowInv
<1>3. RunningInv'
  BY Zenon DEF ConfigInv, RunningInv, Valid, TypesOf, NeedsEncryption, RefreshEnabled, ValidEmail,
     NeedsEmailDelivery
<1> QED
  BY <1>1, <1>2, <1>3 DEF ConfigInv

\* HandleAuthorize takes the mode from the client's policy.
LEMMA AuthorizeKeeps ==
    ASSUME ConfigInv, NEW client \in Clients, NEW offline \in BOOLEAN, Authorize(client, offline)
    PROVE  ConfigInv'
<1> DEFINE mode == IF offline THEN "offline"
                   ELSE IF ClientOf(client).enabled THEN "session" ELSE ""
<1>1. flow' = [pc |-> "selecting", client |-> client, connector |-> None, credential |-> None,
               mode |-> mode, sent |-> None, family |-> None, undisturbed |-> TRUE]
  BY DEF Authorize
<1>2. mode \in {"", "session", "offline"}
  OBVIOUS
<1>3. (mode # "" => ClientOf(client).enabled) /\ (mode = "offline" => ClientOf(client).offline)
  BY DEF Authorize
<1> HIDE DEF mode
<1>4. flow' \in Flow
  BY <1>1, <1>2 DEF Flow, Credentials
<1>5. /\ flow'.pc = "selecting" /\ flow'.client = client /\ flow'.mode = mode
      /\ flow'.credential = None
  BY <1>1
<1>6. Undisturbed(flow')
  BY <1>3, <1>5 DEF Undisturbed, SatisfiesPolicy, Authorize
<1> QED
  BY <1>4, <1>5, <1>6, FlowStepKeeps DEF Authorize

\* The choice of a connector that leads to a provider.
LEMMA SelectKeeps ==
    ASSUME ConfigInv, NEW id \in ConnectorIDs, SelectConnector(id)
    PROVE  ConfigInv'
<1>1. flow \in Flow
  BY DEF ConfigInv, FlowInv, SelectConnector, NoFlow
<1>2. flow' \in Flow
  BY <1>1, Zenon DEF SelectConnector, Flow
<1>3. /\ flow'.pc = "upstream" /\ flow'.connector = id /\ flow'.client = flow.client
      /\ flow'.mode = flow.mode /\ flow'.undisturbed = flow.undisturbed
  BY <1>1 DEF SelectConnector, Flow
<1>4. flow.undisturbed => SatisfiesPolicy(flow)
  BY DEF ConfigInv, UndisturbedInv, Undisturbed, SelectConnector, NoFlow
<1>5. SatisfiesPolicy(flow) <=> SatisfiesPolicy(flow')
  BY <1>3 DEF SatisfiesPolicy
<1>6. Undisturbed(flow')
  BY <1>3, <1>4, <1>5 DEF Undisturbed, SelectConnector
<1> QED
  BY <1>2, <1>3, <1>6, FlowStepKeeps DEF SelectConnector

\* The choice of an email connector: the loader has seen to the mailer and the secret.
LEMMA EmailStartKeeps ==
    ASSUME ConfigInv, NEW id \in ConnectorIDs, HandleEmailStart(id)
    PROVE  ConfigInv'
<1> DEFINE f == [flow EXCEPT !.connector = id]
<1>1. flow \in Flow /\ flow.pc = "selecting" /\ flow # NoFlow
  BY DEF ConfigInv, FlowInv, HandleEmailStart, NoFlow
<1>2. f \in Flow
  BY <1>1, Zenon DEF Flow
<1>3. /\ f.connector = id /\ f.client = flow.client /\ f.mode = flow.mode
      /\ f.undisturbed = flow.undisturbed /\ f.credential = flow.credential
  BY <1>1 DEF Flow
<1>4. flow' = BeginOTP(f)
  BY DEF HandleEmailStart
<1>5. running \in Effective /\ Valid(running) /\ running # None /\ TypeOf(id) = "email"
  BY DEF HandleEmailStart, ConfigInv, RunningInv
<1>6. Mailer /\ OTPSecret /\ running.email # None /\ running.email.ttl \in 1 .. 10
  BY <1>5, CodesCanBeSent
<1> HIDE DEF f
<1>7. /\ flow' \in Flow /\ flow'.pc = "challenge" /\ flow'.connector = f.connector
      /\ flow'.client = f.client /\ flow'.mode = f.mode /\ flow'.undisturbed = f.undisturbed
      /\ flow'.credential = f.credential
  BY <1>2, <1>4, <1>5, <1>6, BeginOTPKeeps, Zenon
<1>8. flow.undisturbed => SatisfiesPolicy(flow) /\ flow.credential = None
  BY <1>1 DEF ConfigInv, UndisturbedInv, Undisturbed
<1>9. flow.undisturbed => SatisfiesPolicy(flow')
  BY <1>3, <1>7, <1>8 DEF SatisfiesPolicy
<1>10. flow.undisturbed => Kept(flow')
  BY <1>3, <1>5, <1>7, <1>8, ConfigurationAssumption DEF Kept, Fits, ConnectorTypes
<1>11. Undisturbed(flow')
  BY <1>3, <1>5, <1>6, <1>7, <1>9, <1>10 DEF Undisturbed
<1> QED
  BY <1>3, <1>7, <1>11, FlowStepKeeps DEF HandleEmailStart

\* HandleCallback keeps the provider's tokens under the server's key when the sign-in
\* may be refreshed; the loader has seen to the key.
LEMMA CallbackKeeps ==
    ASSUME ConfigInv, NEW verified \in BOOLEAN, NEW local \in BOOLEAN,
           HandleCallback(verified, local)
    PROVE  ConfigInv'
<1> DEFINE refused == \/ TypeOf(flow.connector) \in {None, "email"}
                      \/ flow.mode # "" /\ running.encryption = None
           kept == IF flow.mode = "" THEN None ELSE [key |-> running.encryption, whole |-> TRUE,
                                                 from |-> TypeOf(flow.connector)]
           f == [flow EXCEPT !.credential = kept]
<1>1. flow \in Flow /\ flow.pc = "upstream" /\ flow # NoFlow /\ flow.connector \in ConnectorIDs
  <2>1. flow.pc = "upstream"
    BY DEF HandleCallback
  <2> QED
    BY <2>1 DEF ConfigInv, FlowInv, NoFlow
<1>2. running \in Effective /\ Valid(running) /\ running # None /\ running' = running
  BY DEF HandleCallback, ConfigInv, RunningInv
<1>3. flow.undisturbed => SatisfiesPolicy(flow) /\ TypeOf(flow.connector) \notin {None, "email"}
  BY <1>1 DEF ConfigInv, UndisturbedInv, Undisturbed
<1>4. CASE refused
  <2>1. flow' = [flow EXCEPT !.pc = "failed"]
    BY <1>4 DEF HandleCallback, Failed
  <2>2. flow' \in Flow
    BY <1>1, <2>1, Zenon DEF Flow
  <2>3. flow'.pc = "failed" /\ flow'.undisturbed = flow.undisturbed
    BY <1>1, <2>1 DEF Flow
  <2>4. ~flow.undisturbed
    <3> SUFFICES ASSUME flow.undisturbed PROVE FALSE
      OBVIOUS
    <3>1. flow.mode # "" /\ running.encryption = None
      BY <1>3, <1>4
    <3>2. flow.client \in Clients
      BY <1>1 DEF Flow
    <3>3. ClientOf(flow.client) # None /\ ClientOf(flow.client).enabled
      BY <1>3, <3>1 DEF SatisfiesPolicy
    <3> QED
      BY <1>1, <1>2, <1>3, <3>1, <3>2, <3>3, CredentialsCanBeSealed
  <2>5. Undisturbed(flow')
    BY <2>3, <2>4 DEF Undisturbed
  <2> QED
    BY <1>2, <2>2, <2>3, <2>5, FlowStepKeeps
<1>5. CASE ~refused
  <2>1. flow' = AcceptOrChallenge(f, verified, local)
    BY <1>5 DEF HandleCallback
  <2>2. kept \in Credentials
    <3>1. running.encryption \in Encryption
      BY <1>2 DEF Effective
    <3>2. TypeOf(flow.connector) \in ConnectorTypes
      BY <1>1, <1>2, <1>5 DEF Effective, TypeOf
    <3> QED
      BY <3>1, <3>2 DEF Credentials
  <2>3. flow.mode # "" => kept # None
    <3>1. PICK document \in Documents : running.encryption = document.encryption
      BY <1>2 DEF Effective, Encryption
    <3>2. TypeOf(flow.connector) \in ConnectorTypes
      BY <1>1, <1>2, <1>5 DEF Effective, TypeOf
    <3> QED
      BY <3>1, <3>2, ConfigurationAssumption
  <2>4. kept # None => /\ running.encryption # None
                       /\ kept = [key |-> running.encryption, whole |-> TRUE,
                                  from |-> TypeOf(flow.connector)]
    BY <1>5
  <2>5. flow.mode = "" => kept = None
    OBVIOUS
  <2> HIDE DEF kept
  <2>6. f \in Flow
    BY <1>1, <2>2, Zenon DEF Flow
  <2>7. /\ f.connector = flow.connector /\ f.client = flow.client /\ f.mode = flow.mode
        /\ f.undisturbed = flow.undisturbed /\ f.credential = kept
    BY <1>1 DEF Flow
  <2> HIDE DEF f
  <2>8. Kept(f)
    BY <1>5, <2>3, <2>4, <2>5, <2>7 DEF Kept, Fits
  <2>9. /\ flow' \in Flow /\ flow'.pc \in {"code", "challenge", "failed"}
        /\ flow'.connector = f.connector /\ flow'.client = f.client /\ flow'.mode = f.mode
        /\ flow'.undisturbed = f.undisturbed
        /\ SatisfiesPolicy(f) /\ Kept(f) => flow'.pc # "failed" /\ Kept(flow')
        /\ flow'.pc = "challenge" => Mailer /\ OTPSecret
    BY <1>2, <2>1, <2>6, AcceptKeeps, Zenon
  <2>10. flow.undisturbed => SatisfiesPolicy(f) /\ SatisfiesPolicy(flow')
    BY <1>3, <2>7, <2>9 DEF SatisfiesPolicy
  <2>11. Undisturbed(flow')
    BY <1>2, <2>7, <2>8, <2>9, <2>10 DEF Undisturbed
  <2> QED
    BY <1>1, <1>2, <2>7, <2>9, <2>11, FlowStepKeeps
<1> QED
  BY <1>4, <1>5

\* HandleEmailVerify completes the sign-in.
LEMMA EmailVerifyKeeps == ASSUME ConfigInv, HandleEmailVerify PROVE ConfigInv'
<1>1. /\ flow \in Flow /\ flow.pc = "challenge" /\ flow # NoFlow
      /\ flow.connector \in ConnectorIDs
  BY DEF ConfigInv, FlowInv, HandleEmailVerify, NoFlow
<1>2. running \in Effective /\ running # None /\ running' = running /\ flow' = Complete(flow)
  BY DEF HandleEmailVerify, ConfigInv, RunningInv
<1>3. flow.undisturbed => SatisfiesPolicy(flow) /\ Kept(flow)
  BY <1>1 DEF ConfigInv, UndisturbedInv, Undisturbed
<1>4. /\ flow' \in Flow /\ flow'.pc \in {"code", "failed"} /\ flow'.connector = flow.connector
      /\ flow'.client = flow.client /\ flow'.mode = flow.mode
      /\ flow'.undisturbed = flow.undisturbed
      /\ SatisfiesPolicy(flow) /\ Kept(flow) => flow'.pc = "code" /\ Kept(flow')
  BY <1>1, <1>2, CompleteKeeps, Zenon
<1>5. flow.undisturbed => SatisfiesPolicy(flow')
  BY <1>3, <1>4 DEF SatisfiesPolicy
<1>6. Undisturbed(flow')
  BY <1>2, <1>3, <1>4, <1>5 DEF Undisturbed
<1> QED
  BY <1>1, <1>2, <1>4, <1>6, FlowStepKeeps

\* The lifetimes of a policy that was completed and validated.
LEMMA LifetimesInOrder ==
    ASSUME NEW policy \in EffectivePolicy, ValidRefresh(policy)
    PROVE  /\ policy.sessionIdle \in Nat /\ policy.sessionAbsolute \in Nat
           /\ 0 < policy.sessionIdle /\ policy.sessionIdle <= policy.sessionAbsolute
           /\ policy.offlineIdle \in Nat /\ policy.offlineAbsolute \in Nat
           /\ 0 < policy.offlineIdle /\ policy.offlineIdle <= policy.offlineAbsolute
<1>1. /\ policy.sessionIdle \in Nat \ {0} /\ policy.sessionAbsolute \in Nat \ {0}
      /\ policy.offlineIdle \in Nat \ {0} /\ policy.offlineAbsolute \in Nat \ {0}
  BY DEF EffectivePolicy
<1> QED
  BY <1>1 DEF ValidRefresh

\* HandleToken creates a family of the connector's kind, with a policy's lifetimes.
LEMMA TokenKeeps == ASSUME ConfigInv, HandleToken PROVE ConfigInv'
<1> DEFINE policy == ClientOf(flow.client)
           family0 == [type |-> TypeOf(flow.connector), credential |-> flow.credential,
                       idle |-> IF flow.mode = "offline" THEN policy.offlineIdle
                                ELSE policy.sessionIdle,
                       absolute |-> IF flow.mode = "offline" THEN policy.offlineAbsolute
                                    ELSE policy.sessionAbsolute]
           created == IF flow.mode = "" THEN None ELSE family0
<1>1. /\ flow \in Flow /\ flow.pc = "code" /\ flow # NoFlow /\ flow.connector \in ConnectorIDs
      /\ Redeemable(flow)
  BY DEF ConfigInv, FlowInv, HandleToken, NoFlow
<1>2. running \in Effective /\ Valid(running) /\ running # None /\ running' = running
  BY DEF HandleToken, ConfigInv, RunningInv
<1>3. flow' = [flow EXCEPT !.pc = "done", !.family = created]
  BY DEF HandleToken
<1>4. flow.mode # "" => family0 \in BackedFamily
  <2> SUFFICES ASSUME flow.mode # "" PROVE family0 \in BackedFamily
    OBVIOUS
  <2>1. TypeOf(flow.connector) \in ConnectorTypes
    BY <1>1, <1>2 DEF Redeemable, TypeOf, Effective
  <2>2. flow.credential \in Credentials
    BY <1>1 DEF Flow
  <2>3. flow.client \in Clients
    BY <1>1 DEF Flow
  <2>4. policy \in EffectivePolicy
    BY <1>1, <1>2, <2>3 DEF Redeemable, Effective, ClientOf
  <2>5. ValidRefresh(policy)
    BY <1>1, <1>2, <2>3 DEF Redeemable, Valid, ClientOf
  <2>6. /\ policy.sessionIdle \in Nat /\ policy.sessionAbsolute \in Nat
        /\ 0 < policy.sessionIdle /\ policy.sessionIdle <= policy.sessionAbsolute
        /\ policy.offlineIdle \in Nat /\ policy.offlineAbsolute \in Nat
        /\ 0 < policy.offlineIdle /\ policy.offlineIdle <= policy.offlineAbsolute
    BY <2>4, <2>5, LifetimesInOrder, Zenon
  <2>7. /\ family0.idle \in Nat /\ family0.absolute \in Nat
        /\ 0 < family0.idle /\ family0.idle <= family0.absolute
    <3>1. CASE flow.mode = "offline"
      <4>1. family0.idle = policy.offlineIdle /\ family0.absolute = policy.offlineAbsolute
        BY <3>1
      <4> QED
        BY <2>6, <4>1, Zenon
    <3>2. CASE flow.mode # "offline"
      <4>1. family0.idle = policy.sessionIdle /\ family0.absolute = policy.sessionAbsolute
        BY <3>2
      <4> QED
        BY <2>6, <4>1, Zenon
    <3> QED
      BY <3>1, <3>2
  <2>8. Fits(flow) /\ (flow.credential # None => flow.credential.whole)
    BY <1>1 DEF Redeemable
  <2>9. /\ family0.type = "email" => family0.credential = None
        /\ family0.type # "email" => family0.credential # None /\ family0.credential.whole
    BY <2>8 DEF Fits
  <2>10. family0 \in [type : ConnectorTypes, credential : Credentials, idle : Nat, absolute : Nat]
    BY <2>1, <2>2, <2>7
  <2> HIDE DEF family0
  <2> QED
    BY <2>7, <2>9, <2>10 DEF BackedFamily
<1>5. created \in BackedFamily \cup {None}
  BY <1>4, Zenon
<1> HIDE DEF created
<1>6. flow' \in Flow
  BY <1>1, <1>3, <1>5, Zenon DEF Flow
<1>7. /\ flow'.pc = "done" /\ flow'.client = flow.client /\ flow'.mode = flow.mode
      /\ flow'.undisturbed = flow.undisturbed
  BY <1>1, <1>3 DEF Flow
<1>8. flow.undisturbed => SatisfiesPolicy(flow')
  BY <1>1, <1>7 DEF ConfigInv, UndisturbedInv, Undisturbed, SatisfiesPolicy
<1>9. flow.undisturbed => OwnCredential(flow')
  <2> SUFFICES ASSUME flow.undisturbed, flow.mode # "", TypeOf(flow.connector) # "email"
               PROVE  flow.credential.from = TypeOf(flow.connector)
    <3>1. flow'.family = created
      BY <1>1, <1>3 DEF Flow
    <3>2. created # None => flow.mode # "" /\ created = family0
      BY Zenon DEF created
    <3>3. family0.type = TypeOf(flow.connector) /\ family0.credential = flow.credential
      OBVIOUS
    <3> HIDE DEF family0
    <3> QED
      BY <3>1, <3>2, <3>3 DEF OwnCredential
  <2>1. Kept(flow)
    BY <1>1 DEF ConfigInv, UndisturbedInv, Undisturbed
  <2>2. flow.credential # None
    BY <1>1 DEF Redeemable, Fits
  <2> QED
    BY <2>1, <2>2, KeptIsOwn, Zenon
<1>10. Undisturbed(flow')
  BY <1>2, <1>7, <1>8, <1>9 DEF Undisturbed
<1> QED
  BY <1>2, <1>6, <1>7, <1>10, FlowStepKeeps

\* A server runs only with a document that Parse completed and validate accepted, and
\* a sign-in holds what its step asks for, whatever was restarted in between.
THEOREM ConfigInvariant == Spec => []ConfigInv
<1>1. Init => ConfigInv
  BY DEF Init, ConfigInv, RunningInv, FlowInv, UndisturbedInv, Undisturbed, NoFlow
<1>2. ConfigInv /\ [Next]_vars => ConfigInv'
  <2> SUFFICES ASSUME ConfigInv, [Next]_vars PROVE ConfigInv'
    OBVIOUS
  <2>1. CASE Again
    <3>1. running' = running /\ flow' = NoFlow
      BY <2>1 DEF Again
    <3>2. RunningInv'
      BY <3>1, Zenon DEF ConfigInv, RunningInv, Valid, TypesOf, NeedsEncryption, RefreshEnabled,
         ValidEmail, NeedsEmailDelivery
    <3>3. FlowInv' /\ UndisturbedInv'
      BY <3>1 DEF FlowInv, UndisturbedInv, Undisturbed, NoFlow
    <3> QED
      BY <3>2, <3>3 DEF ConfigInv
  <2>2. CASE UNCHANGED vars
    <3>1. running' = running /\ flow' = flow
      BY <2>2 DEF vars
    <3>2. RunningInv'
      BY <3>1, Zenon DEF ConfigInv, RunningInv, Valid, TypesOf, NeedsEncryption, RefreshEnabled,
         ValidEmail, NeedsEmailDelivery
    <3>3. UndisturbedInv' /\ FlowInv'
      BY <3>1, SameServer DEF ConfigInv, UndisturbedInv, FlowInv
    <3> QED
      BY <3>2, <3>3 DEF ConfigInv
  <2> QED
    BY <2>1, <2>2, StartKeeps, StopKeeps, AuthorizeKeeps, SelectKeeps, EmailStartKeeps,
       CallbackKeeps, EmailVerifyKeeps, TokenKeeps DEF Next
<1> QED
  BY <1>1, <1>2, PTL DEF Spec

\* For any connectors and documents: a sign-in that one server carries out from its
\* beginning is never refused for something the configuration lacks.  The loader's
\* rules, what serve builds and what the handlers ask for agree.
THEOREM UndisturbedSignInSucceedsHolds == Spec => []UndisturbedSignInSucceeds
<1>1. ConfigInv => UndisturbedSignInSucceeds
  <2> SUFFICES ASSUME ConfigInv, flow # NoFlow, running # None, flow.undisturbed
               PROVE  /\ flow.pc # "failed"
                      /\ flow.pc = "code" => Redeemable(flow)
                      /\ flow.pc = "challenge" => Mailer /\ OTPSecret
    BY DEF UndisturbedSignInSucceeds
  <2>1. /\ flow.pc # "failed" /\ SatisfiesPolicy(flow)
        /\ flow.pc \in {"challenge", "code"} => Kept(flow)
        /\ flow.pc = "challenge" => Mailer /\ OTPSecret
    BY DEF ConfigInv, UndisturbedInv, Undisturbed
  <2>2. flow.pc = "code" => Redeemable(flow)
    <3> SUFFICES ASSUME flow.pc = "code" PROVE Redeemable(flow)
      OBVIOUS
    <3>1. Kept(flow) /\ ClientOf(flow.client) # None
      BY <2>1 DEF SatisfiesPolicy
    <3>2. flow.credential # None => flow.credential.whole /\ flow.credential.key = running.encryption
      BY <3>1, CredentialParts, Zenon DEF Kept
    <3> QED
      BY <2>1, <3>1, <3>2 DEF Kept, Redeemable
  <2> QED
    BY <2>1, <2>2
<1> QED
  BY <1>1, ConfigInvariant, PTL

\* For any documents, restarts and reconfigurations: a code is stored only where it can
\* be sent, sealed and timed, and a family at a provider has a readable credential, that
\* of its connector's type if one server carried the sign-in out, one of an email connector
\* none, and both have their lifetimes in order.
THEOREM SignInBackedHolds == Spec => []SignInBacked
<1>1. ConfigInv => SignInBacked
  <2> SUFFICES ASSUME ConfigInv, flow # NoFlow
               PROVE  /\ flow.sent # None =>
                            flow.sent.mailer /\ flow.sent.secret /\ flow.sent.ttl \in 1 .. 10
                      /\ flow.family # None =>
                            /\ flow.family.type = "email" => flow.family.credential = None
                            /\ flow.family.type # "email" =>
                                  flow.family.credential # None /\ flow.family.credential.whole
                            /\ 0 < flow.family.idle /\ flow.family.idle <= flow.family.absolute
                      /\ flow.pc = "done" /\ flow.undisturbed => OwnCredential(flow)
    BY DEF SignInBacked, OwnCredential
  <2>1. flow.sent \in SentCode \cup {None} /\ flow.family \in BackedFamily \cup {None}
    BY DEF ConfigInv, FlowInv, Flow
  <2>2. flow.pc = "done" /\ flow.undisturbed => OwnCredential(flow)
    BY DEF ConfigInv, UndisturbedInv, Undisturbed
  <2> QED
    BY <2>1, <2>2 DEF SentCode, BackedFamily
<1> QED
  BY <1>1, ConfigInvariant, PTL

================================================================================
