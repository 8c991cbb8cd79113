-------------------------- MODULE RefreshFamilyProofs --------------------------
(* Proofs about RefreshFamily for every set of requests and tokens, every    *)
(* provider and every choice of lifetimes.                                   *)
EXTENDS RefreshFamily, TLAPS

-----------------------------------------------------------------------------
(* Types. The helpers return values of their types.                          *)

\* A credential that a provider hands out is a credential.
LEMMA CredentialType ==
    ASSUME NEW p \in Profile, NEW g \in Nat, NEW now \in Nat
    PROVE  HandOut(p, g, now) \in Credential
BY DEF HandOut, Credential, Profile, After

\* The empty row, the idle request and the empty credential have their types.
LEMMA NullTypes ==
    NoCredential \in Credential /\ NoGrant \in Grant /\ Idle \in Request
BY FamilyAssumption DEF NoCredential, Credential, NoGrant, Grant, Idle, Request, Location

\* The earlier of two times is a time.
LEMMA LesserType ==
    ASSUME NEW a \in Nat, NEW b \in Nat
    PROVE  Lesser(a, b) \in Nat /\ Bounded(a, b) \in Nat
BY DEF Lesser, Bounded

\* The absolute expiry that a credential leaves is a time.
LEMMA FamilyEndType ==
    ASSUME NEW c \in Credential, NEW abs \in Nat
    PROVE  FamilyEnd(c, abs) \in Nat
BY DEF FamilyEnd, Credential, Bounded, Lesser

\* Moving a request to another location keeps the requests well typed.
LEMMA GotoType ==
    ASSUME TypeOK, NEW r \in Requests, NEW l \in Location, Goto(r, l)
    PROVE  req' \in [Requests -> Request]
BY DEF TypeOK, Goto, Request

\* Ending a request keeps the requests well typed.
LEMMA ReturnType ==
    ASSUME TypeOK, NEW r \in Requests, Return(r)
    PROVE  req' \in [Requests -> Request]
BY NullTypes DEF TypeOK, Return

\* Revoking and unclaiming keep the row well typed.
LEMMA RowUpdateTypes ==
    ASSUME NEW g \in Grant
    PROVE  Revoked(g) \in Grant /\ Unclaimed(g) \in Grant
BY DEF Revoked, Unclaimed, Grant

\* The type invariant holds in every behaviour.
THEOREM TypeCorrect == Spec => []TypeOK
<1>1. Init => TypeOK
  BY NullTypes DEF Init, TypeOK, TokenRow
<1>2. TypeOK /\ [Next]_vars => TypeOK'
  <2> SUFFICES ASSUME TypeOK, [Next]_vars PROVE TypeOK'
    OBVIOUS
  <2> USE FamilyAssumption
  <2>1. ASSUME NEW t \in Tokens, NEW kind \in {"connector", "email"}, NEW p \in Profiles,
               CreateGrant(t, kind, p)
        PROVE  TypeOK'
    <3> DEFINE cred == IF kind = "email" THEN NoCredential ELSE HandOut(p, 0, clock)
               abs  == IF kind = "email" THEN AbsoluteTTL ELSE FamilyEnd(cred, AbsoluteTTL)
               end  == Lesser(clock + IdleTTL, abs)
    <3>1. cred \in Credential
      BY CredentialType, NullTypes DEF TypeOK
    <3>2. abs \in Nat
      BY <3>1, FamilyEndType
    <3>3. end \in Nat
      BY <3>2 DEF TypeOK, Lesser
    <3> HIDE DEF cred, abs, end
    <3>4. grant' \in Grant
      <4>1. grant' = [NoGrant EXCEPT !.status = "live", !.kind = kind, !.cred = cred,
                                     !.key = IF kind = "email" THEN None ELSE t,
                                     !.idleExp = end, !.absExp = abs]
        BY <2>1 DEF CreateGrant, cred, abs, end
      <4> QED
        BY <4>1, <3>1, <3>2, <3>3, NullTypes DEF Grant
    <3>5. tokens' = [tokens EXCEPT ![t] = [state |-> "active", exp |-> end]]
      BY <2>1 DEF CreateGrant, cred, abs, end
    <3>6. provider' \in [gen : Nat, stray : BOOLEAN]
      BY <2>1 DEF CreateGrant, TypeOK
    <3> QED
      BY <2>1, <3>3, <3>4, <3>5, <3>6 DEF CreateGrant, TypeOK, TokenRow
  <2>2. ASSUME NEW r \in Requests, NEW t \in Tokens, Inspect(r, t)
        PROVE  TypeOK'
    <3>1. [Idle EXCEPT !.pc = "inspected", !.token = t] \in Request
      BY NullTypes DEF Request, Location
    <3> QED
      BY <2>2, <3>1 DEF Inspect, TypeOK
  <2>3. ASSUME NEW r \in Requests, Step(r)
        PROVE  TypeOK'
    <3>1. CASE RefuseClient(r)
      BY <3>1, GotoType DEF RefuseClient, TypeOK, Location
    <3>2. CASE AnswerRefused(r)
      BY <3>2, ReturnType DEF AnswerRefused, TypeOK
    <3>3. CASE Prepare(r)
      <4>1. Lesser(clock + IdleTTL, grant.absExp) \in Nat
        BY DEF TypeOK, Grant, Lesser
      <4>2. Lesser(clock + AccessTTL, Lesser(clock + IdleTTL, grant.absExp)) \in Nat
        BY <4>1 DEF TypeOK, Lesser
      <4>3. req' \in [Requests -> Request]
        BY <3>3, <4>1, <4>2, GotoType, ReturnType DEF Prepare, TypeOK, Location, Request
      <4> QED
        BY <3>3, <4>3 DEF Prepare, TypeOK
    <3>4. CASE RevokeReplayed(r)
      BY <3>4, ReturnType, RowUpdateTypes DEF RevokeReplayed, TypeOK
    <3>5. CASE DenyPolicy(r) \/ AllowPolicy(r)
      BY <3>5, GotoType DEF DenyPolicy, AllowPolicy, TypeOK, Location
    <3>6. ASSUME NEW new \in Tokens, DirectRotate(r, new)
          PROVE  TypeOK'
      <4>1. Lesser(clock + IdleTTL, grant.absExp) \in Nat
        BY DEF TypeOK, Grant, Lesser
      <4>2. req' \in [Requests -> Request]
        BY <3>6, ReturnType DEF DirectRotate
      <4>3. grant' \in Grant
        BY <3>6, <4>1 DEF DirectRotate, TypeOK, Grant
      <4>4. tokens' \in [Tokens -> TokenRow]
        BY <3>6, <4>1 DEF DirectRotate, SpendAndIssue, TypeOK, TokenRow
      <4> QED
        BY <3>6, <4>2, <4>3, <4>4 DEF DirectRotate, TypeOK
    <3>7. CASE DirectReplay(r) \/ DirectReject(r)
      BY <3>7, ReturnType, RowUpdateTypes DEF DirectReplay, DirectReject, TypeOK
    <3>8. CASE ClaimReplay(r)
      BY <3>8, ReturnType, RowUpdateTypes DEF ClaimReplay, TypeOK
    <3>9. CASE ClaimFenced(r)
      <4>1. grant' \in Grant
        BY <3>9 DEF ClaimFenced, Revoked, TypeOK, Grant
      <4> QED
        BY <3>9, <4>1, ReturnType DEF ClaimFenced, TypeOK
    <3>10. CASE ClaimGranted(r)
      <4>0. clock + ClaimTTL \in Nat
        BY DEF TypeOK
      <4>1. grant' \in Grant
        BY <3>10, <4>0 DEF ClaimGranted, TypeOK, Grant
      <4>2. req' \in [Requests -> Request]
        <5> DEFINE l == IF grant.key = req[r].token THEN "claimed" ELSE "revoking"
        <5>1. req' = [req EXCEPT ![r] = [@ EXCEPT !.pc = l, !.cred = grant.cred,
                                          !.lease = clock + ClaimTTL, !.absolute = grant.absExp]]
          BY <3>10 DEF ClaimGranted, TypeOK
        <5>2. l \in Location /\ grant.cred \in Credential /\ grant.absExp \in Nat
          BY DEF TypeOK, Grant, Location
        <5> HIDE DEF l
        <5> QED
          BY <4>0, <5>1, <5>2 DEF TypeOK, Request
      <4> QED
        BY <3>10, <4>1, <4>2 DEF ClaimGranted, TypeOK
    <3>11. CASE ClaimRejected(r)
      BY <3>11, ReturnType DEF ClaimRejected, TypeOK
    <3>12. CASE Decide(r)
      BY <3>12, GotoType DEF Decide, TypeOK, Location
    <3>13. CASE MarkStarted(r)
      <4>1. grant' \in Grant
        BY <3>13 DEF MarkStarted, TypeOK, Grant
      <4>2. req' \in [Requests -> Request]
        BY <3>13, GotoType DEF MarkStarted, TypeOK, Request, Location
      <4> QED
        BY <3>13, <4>1, <4>2 DEF MarkStarted, TypeOK
    <3>14. ASSUME NEW p \in Profiles, NEW rotates \in BOOLEAN, ProviderAnswers(r, p, rotates)
           PROVE  TypeOK'
      <4> DEFINE g == IF rotates THEN provider.gen + 1 ELSE provider.gen
      <4>1. g \in Nat
        BY DEF TypeOK
      <4>2. HandOut(p, g, clock) \in Credential
        BY <4>1, CredentialType DEF TypeOK
      <4>3. [HandOut(p, g, clock) EXCEPT !.renewable = TRUE] \in Credential
        BY <4>2 DEF Credential
      <4> HIDE DEF g
      <4>4. req' \in [Requests -> Request]
        <5> DEFINE c == [HandOut(p, g, clock) EXCEPT !.renewable = TRUE]
        <5>1. req' = [req EXCEPT ![r] = [@ EXCEPT !.pc = "answered", !.cred = c]]
          BY <3>14 DEF g, ProviderAnswers, TypeOK
        <5> HIDE DEF c
        <5>2. c \in Credential
          BY <4>3 DEF c
        <5>3. [req[r] EXCEPT !.pc = "answered", !.cred = c] \in Request
          BY <5>2 DEF TypeOK, Request, Location
        <5> QED
          BY <5>1, <5>3 DEF TypeOK
      <4> QED
        BY <3>14, <4>1, <4>4 DEF g, ProviderAnswers, TypeOK
    <3>15. CASE ReceiveAnswer(r) \/ RefreshRefused(r)
      BY <3>15, GotoType DEF ReceiveAnswer, RefreshRefused, TypeOK, Location
    <3>16. CASE RefreshFails(r)
      <4>1. req' \in [Requests -> Request]
        BY <3>16, GotoType DEF RefreshFails, Location
      <4>2. provider' \in [gen : Nat, stray : BOOLEAN]
        BY <3>16 DEF RefreshFails, TypeOK
      <4> QED
        BY <3>16, <4>1, <4>2 DEF RefreshFails, TypeOK
    <3>17. CASE IdentityUnauthorized(r) \/ IdentityUnavailable(r) \/ IdentityMismatch(r)
      <4>1. req' \in [Requests -> Request]
        BY <3>17, GotoType
           DEF IdentityUnauthorized, IdentityUnavailable, IdentityMismatch, GiveUp, Location
      <4>2. provider' \in [gen : Nat, stray : BOOLEAN]
        BY <3>17
           DEF IdentityUnauthorized, IdentityUnavailable, IdentityMismatch, TypeOK
      <4> QED
        BY <3>17, <4>1, <4>2
           DEF IdentityUnauthorized, IdentityUnavailable, IdentityMismatch, TypeOK
    <3>23. CASE RenewQuietly(r)
      BY <3>23 DEF RenewQuietly, TypeOK
    <3>18. CASE IdentityAccepted(r)
      <4> DEFINE abs == FamilyEnd(req[r].cred, req[r].absolute)
                 end == Lesser(clock + IdleTTL, abs)
                 acc == Bounded(Lesser(clock + AccessTTL, end), req[r].cred.access)
      <4>1. abs \in Nat
        BY FamilyEndType DEF TypeOK, Request
      <4>2. end \in Nat
        BY <4>1 DEF TypeOK, Lesser
      <4>3. acc \in Nat
        BY <4>2 DEF TypeOK, Request, Credential, Lesser, Bounded
      <4> HIDE DEF abs, end, acc
      <4>4. \/ req' = [req EXCEPT ![r].pc = "signed", ![r].access = acc,
                                  ![r].expiry = end, ![r].absolute = abs]
            \/ Goto(r, "revoking")
        BY <3>18 DEF IdentityAccepted, abs, end, acc
      <4>5. req' \in [Requests -> Request]
        BY <4>1, <4>2, <4>3, <4>4, GotoType DEF TypeOK, Request, Location
      <4> QED
        BY <3>18, <4>5 DEF IdentityAccepted, TypeOK
    <3>19. ASSUME NEW new \in Tokens, Commit(r, new)
           PROVE  tokens' \in [Tokens -> TokenRow] /\ grant' \in Grant
      <4> DEFINE abs == Lesser(req[r].absolute, grant.absExp)
                 end == Lesser(clock + IdleTTL, abs)
      <4>1. abs \in Nat
        BY LesserType DEF TypeOK, Request, Grant
      <4>2. end \in Nat
        BY <4>1 DEF TypeOK, Lesser
      <4> HIDE DEF abs, end
      <4>3. tokens' \in [Tokens -> TokenRow]
        <5>1. SpendAndIssue(req[r].token, new, end)
          BY <3>19 DEF Commit, abs, end
        <5> QED
          BY <5>1, <4>2 DEF SpendAndIssue, TypeOK, TokenRow
      <4>4. grant' = [Unclaimed(grant) EXCEPT !.cred = req[r].cred, !.key = new,
                                              !.absExp = abs, !.idleExp = end]
        BY <3>19 DEF Commit, abs, end
      <4>5. Unclaimed(grant) \in Grant /\ req[r].cred \in Credential
        BY RowUpdateTypes DEF TypeOK, Request
      <4>6. grant' \in Grant
        BY <4>1, <4>2, <4>4, <4>5 DEF Grant
      <4> QED
        BY <4>3, <4>6
    <3>20. ASSUME NEW new \in Tokens, Complete(r, new) \/ CompleteUnacknowledged(r, new)
           PROVE  TypeOK'
      <4>1. req' \in [Requests -> Request]
        BY <3>20, GotoType, ReturnType DEF Complete, CompleteUnacknowledged, GiveUp, Location
      <4> QED
        BY <3>19, <3>20, <4>1 DEF Complete, CompleteUnacknowledged, TypeOK
    <3>21. CASE CompleteFails(r)
      BY <3>21, GotoType DEF CompleteFails, GiveUp, TypeOK, Location
    <3>22. CASE RevokeGrant(r) \/ ReleaseClaim(r) \/ AbortUpstreamRefresh(r)
      BY <3>22, ReturnType, RowUpdateTypes
         DEF RevokeGrant, ReleaseClaim, AbortUpstreamRefresh, TypeOK
    <3> QED
      BY <2>3, <3>1, <3>2, <3>3, <3>4, <3>5, <3>6, <3>7, <3>8, <3>9, <3>10, <3>11, <3>12,
         <3>13, <3>14, <3>15, <3>16, <3>17, <3>18, <3>20, <3>21, <3>22,
         <3>23 DEF Step
  <2>4. ASSUME NEW r \in Requests, Abandon(r)
        PROVE  TypeOK'
    <3>1. provider' \in [gen : Nat, stray : BOOLEAN]
      BY <2>4, Zenon DEF Abandon, TypeOK, At, Renews
    <3> QED
      BY <2>4, <3>1, ReturnType DEF Abandon, TypeOK
  <2>5. CASE StrayCall
    BY <2>5 DEF StrayCall, TypeOK
  <2>6. CASE RevokeCredential
    BY <2>6, RowUpdateTypes DEF RevokeCredential, TypeOK
  <2>7. CASE Cleanup
    <3>1. grant' \in Grant
      BY <2>7, NullTypes DEF Cleanup, TypeOK, Grant
    <3> QED
      BY <2>7, <3>1 DEF Cleanup, TypeOK, TokenRow
  <2>8. CASE Tick
    BY <2>8 DEF Tick, TypeOK
  <2>9. CASE UNCHANGED vars
    BY <2>9 DEF vars, TypeOK
  <2> QED
    BY <2>1, <2>2, <2>3, <2>4, <2>5, <2>6, <2>7, <2>8, <2>9 DEF Next
<1> QED
  BY <1>1, <1>2, PTL DEF Spec

-----------------------------------------------------------------------------
(* The credential fence.                                                     *)
(*                                                                           *)
(* CredentialFence alone is not inductive: that a completing request stores  *)
(* the provider's current credential depends on what that request learned    *)
(* long before. FenceInv says, for each request that could still write the   *)
(* row, what it must know.                                                   *)

\* Claim holders that have not marked an upstream refresh.
Unmarked(r) ==
    \/ req[r].pc \in {"claimed", "marking"}
    \/ req[r].pc \in {"identity", "signed"} /\ ~req[r].begun

\* The local variable started agrees with the place in the code.
BegunInv ==
    \A r \in Requests :
        /\ req[r].pc \in {"refreshing", "answered", "aborting"} => req[r].begun
        /\ req[r].pc \in {"idle", "refused", "inspected", "replaying", "prepared", "direct",
                          "claiming", "claimed", "marking"} => ~req[r].begun

\* A request that was let through to the provider still owns the marked claim.
MarkedInv ==
    Live => \A r \in Requests : Rotating(r) => grant.claim = r /\ grant.started

\* A mark is never without a claim, so that ClaimRefresh meets the fence.
MarkClaimedInv == Live /\ grant.started => grant.claim # None

\* A holder that did not mark has the stored credential, and nobody marked.
UnmarkedInv ==
    Live => \A r \in Requests : Unmarked(r) /\ grant.claim = r =>
        ~grant.started /\ req[r].cred.gen = grant.cred.gen

\* An unmarked row is in step with a provider that answers soon.
SyncInv ==
    AnswersSoon /\ Live /\ ~grant.started => grant.cred.gen = provider.gen /\ ~provider.stray

\* An abandoned call never competes with a request that is let through.
StrayInv == AnswersSoon /\ Live /\ provider.stray => \A r \in Requests : ~Rotating(r)

\* What a request let through to the provider knows of the generation.
GenerationInv ==
    AnswersSoon /\ Live => \A r \in Requests :
        /\ Rotating(r) /\ req[r].pc \in {"answered", "identity", "signed"} =>
              req[r].cred.gen = provider.gen
        /\ req[r].pc \in {"refreshing", "aborting"} => grant.cred.gen = provider.gen

\* The inductive invariant behind CredentialFence and OneUpstreamCaller.
FenceInv ==
    /\ BegunInv /\ MarkedInv /\ MarkClaimedInv /\ UnmarkedInv
    /\ SyncInv /\ StrayInv /\ GenerationInv

\* What Goto changes: the location of one request.
LEMMA GotoFacts ==
    ASSUME TypeOK, NEW r \in Requests, NEW l \in Location, Goto(r, l)
    PROVE  /\ \A s \in Requests : s # r => req'[s] = req[s]
           /\ req'[r].pc = l
           /\ req'[r].begun = req[r].begun /\ req'[r].cred = req[r].cred
BY DEF TypeOK, Goto, Request

\* What Return changes: one request becomes idle.
LEMMA ReturnFacts ==
    ASSUME TypeOK, NEW r \in Requests, Return(r)
    PROVE  /\ \A s \in Requests : s # r => req'[s] = req[s]
           /\ req'[r].pc = "idle" /\ ~req'[r].begun
BY DEF TypeOK, Return, Idle

\* A revoked row is not live.
LEMMA RevokedFacts ==
    ASSUME NEW g \in Grant
    PROVE  Revoked(g).status # "live"
BY DEF Revoked, Grant

\* A step after which the family is not live only has to keep the locals right.
LEMMA EndedStep ==
    ASSUME BegunInv', ~Live'
    PROVE  FenceInv'
BY DEF FenceInv, MarkedInv, MarkClaimedInv, UnmarkedInv, SyncInv, StrayInv, GenerationInv, Live

\* A request that ends, leaving rows and a prompt provider alone, leaves less to
\* keep.
LEMMA ReturnStep ==
    ASSUME TypeOK, FenceInv, NEW r \in Requests, Return(r), grant' = grant,
           AnswersSoon => provider' = provider
    PROVE  FenceInv'
<1>1. /\ \A s \in Requests : s # r => req'[s] = req[s]
      /\ req'[r].pc = "idle" /\ ~req'[r].begun
  BY ReturnFacts
<1>2. ~Rotating(r)' /\ ~Unmarked(r)'
  BY <1>1 DEF Rotating, Unmarked
<1>3. \A s \in Requests : s # r => (Rotating(s)' <=> Rotating(s)) /\ (Unmarked(s)' <=> Unmarked(s))
  BY <1>1 DEF Rotating, Unmarked
<1>4. Live' <=> Live
  BY DEF Live
<1> QED
  BY <1>1, <1>2, <1>3, <1>4
     DEF FenceInv, BegunInv, MarkedInv, MarkClaimedInv, UnmarkedInv, SyncInv, StrayInv, GenerationInv

\* A request that moves on without gaining the right to write the row.
LEMMA GotoStep ==
    ASSUME TypeOK, FenceInv, NEW r \in Requests, NEW l \in Location, Goto(r, l),
           grant' = grant, AnswersSoon => provider' = provider,
           l \in {"refused", "inspected", "replaying", "prepared", "direct", "claiming"} => ~req[r].begun,
           l = "marking" => Unmarked(r) /\ ~req[r].begun,
           l = "identity" => req[r].pc \in {"claimed", "answered"},
           l = "aborting" => req[r].pc = "refreshing",
           l \notin {"idle", "claimed", "refreshing", "answered", "signed"}
    PROVE  FenceInv'
<1>1. /\ \A s \in Requests : s # r => req'[s] = req[s]
      /\ req'[r].pc = l
      /\ req'[r].begun = req[r].begun /\ req'[r].cred = req[r].cred
  BY GotoFacts
<1>2. \A s \in Requests : s # r => (Rotating(s)' <=> Rotating(s)) /\ (Unmarked(s)' <=> Unmarked(s))
  BY <1>1 DEF Rotating, Unmarked
<1>3. Rotating(r)' => Rotating(r)
  BY <1>1 DEF Rotating, Unmarked, FenceInv, BegunInv
<1>4. Unmarked(r)' => Unmarked(r)
  BY <1>1 DEF Rotating, Unmarked, FenceInv, BegunInv
<1>5. Live' <=> Live
  BY DEF Live
<1>6. BegunInv'
  BY <1>1 DEF BegunInv, FenceInv, Location
<1>7. GenerationInv'
  BY <1>1, <1>2, <1>3, <1>5 DEF GenerationInv, FenceInv, Rotating, Location
<1> QED
  BY <1>1, <1>2, <1>3, <1>4, <1>5, <1>6, <1>7
     DEF FenceInv, MarkedInv, MarkClaimedInv, UnmarkedInv, SyncInv, StrayInv

\* Before the family exists there is nothing to fence.
LEMMA FenceInit == Init => FenceInv
BY DEF Init, FenceInv, BegunInv, MarkedInv, MarkClaimedInv, UnmarkedInv, SyncInv, StrayInv,
       GenerationInv, Live, NoGrant, Idle

\* The steps of one request.
LEMMA FenceRequestStep ==
    ASSUME TypeOK, FenceInv, NEW r \in Requests, AnswersSoon => ~Renews(r), Step(r)
    PROVE  FenceInv'
<1>1. CASE RefuseClient(r)
  BY <1>1, GotoStep DEF RefuseClient, At, FenceInv, BegunInv, Location
<1>2. CASE AnswerRefused(r)
  BY <1>2, ReturnStep DEF AnswerRefused
<1>3. CASE Prepare(r)
  <2>1. CASE Usable(Row(r)) /\ req'[r].pc = "prepared"
    <3>1. /\ req'[r].pc = "prepared" /\ req'[r].begun = req[r].begun
          /\ \A s \in Requests : s # r => req'[s] = req[s]
      BY <1>3, <2>1 DEF Prepare, TypeOK, Goto, Return, Request, Idle
    <3>2. grant' = grant /\ provider' = provider /\ req[r].pc = "inspected"
      BY <1>3 DEF Prepare, At
    <3> QED
      BY <3>1, <3>2 DEF FenceInv, BegunInv, MarkedInv, MarkClaimedInv, UnmarkedInv, SyncInv,
                        StrayInv, GenerationInv, Live, Rotating, Unmarked
  <2>2. CASE Goto(r, "replaying")
    BY <1>3, <2>2, GotoStep DEF Prepare, At, FenceInv, BegunInv, Location
  <2>3. CASE Return(r)
    BY <1>3, <2>3, ReturnStep DEF Prepare
  <2> QED
    BY <1>3, <2>1, <2>2, <2>3 DEF Prepare, TypeOK, Request
<1>4. CASE RevokeReplayed(r)
  <2>1. BegunInv'
    BY <1>4, ReturnFacts DEF RevokeReplayed, FenceInv, BegunInv
  <2>2. CASE grant' = grant
    BY <1>4, <2>2, ReturnStep DEF RevokeReplayed
  <2>3. CASE grant' = Revoked(grant)
    BY <2>1, <2>3, RevokedFacts, EndedStep DEF TypeOK, Live
  <2> QED
    BY <1>4, <2>2, <2>3 DEF RevokeReplayed
<1>5. CASE DenyPolicy(r)
  BY <1>5, GotoStep DEF DenyPolicy, Location
<1>6. CASE AllowPolicy(r)
  BY <1>6, GotoStep DEF AllowPolicy, At, FenceInv, BegunInv, Location
<1>7. ASSUME NEW new \in Tokens, DirectRotate(r, new)
      PROVE  FenceInv'
  <2>1. /\ \A s \in Requests : s # r => req'[s] = req[s]
        /\ req'[r].pc = "idle" /\ ~req'[r].begun
    BY <1>7, ReturnFacts DEF DirectRotate
  <2>2. /\ grant'.status = grant.status /\ grant'.claim = grant.claim
        /\ grant'.started = grant.started /\ grant'.cred = grant.cred /\ provider' = provider
    BY <1>7 DEF DirectRotate, TypeOK, Grant
  <2> QED
    BY <2>1, <2>2 DEF FenceInv, BegunInv, MarkedInv, MarkClaimedInv, UnmarkedInv, SyncInv,
                      StrayInv, GenerationInv, Live, Rotating, Unmarked
<1>8. CASE DirectReplay(r)
  <2>1. BegunInv'
    BY <1>8, ReturnFacts DEF DirectReplay, FenceInv, BegunInv
  <2> QED
    BY <1>8, <2>1, RevokedFacts, EndedStep DEF DirectReplay, TypeOK, Live
<1>9. CASE DirectReject(r)
  BY <1>9, ReturnStep DEF DirectReject
<1>10. CASE ClaimReplay(r)
  <2>1. BegunInv'
    BY <1>10, ReturnFacts DEF ClaimReplay, FenceInv, BegunInv
  <2>2. ~Live'
    BY <1>10 DEF ClaimReplay, TypeOK, Grant, Live, Revoked, Unclaimed
  <2> QED
    BY <2>1, <2>2, EndedStep
<1>11. CASE ClaimFenced(r)
  <2>1. BegunInv'
    BY <1>11, ReturnFacts DEF ClaimFenced, FenceInv, BegunInv
  <2>2. ~Live'
    BY <1>11 DEF ClaimFenced, TypeOK, Grant, Live, Revoked
  <2> QED
    BY <2>1, <2>2, EndedStep
<1>12. CASE ClaimGranted(r)
  <2>1. /\ \A s \in Requests : s # r => req'[s] = req[s]
        /\ req'[r].pc \in {"claimed", "revoking"}
        /\ req'[r].begun = req[r].begun /\ req'[r].cred = grant.cred
    BY <1>12 DEF ClaimGranted, TypeOK, Request
  <2>2. /\ grant'.status = grant.status /\ grant'.claim = r
        /\ grant'.started = FALSE /\ grant'.cred = grant.cred /\ provider' = provider
    BY <1>12 DEF ClaimGranted, TypeOK, Grant
  <2>3. req[r].pc = "claiming" /\ Live /\ r # None
    BY <1>12, FamilyAssumption DEF ClaimGranted, At, Usable
  <2>4. ~grant.started
    BY <1>12, <2>3 DEF ClaimGranted, Claimed, FenceInv, MarkClaimedInv
  <2>5. \A s \in Requests : ~Rotating(s)
    BY <2>3, <2>4 DEF FenceInv, MarkedInv
  <2>6. \A s \in Requests : ~Rotating(s)'
    BY <2>1, <2>5 DEF Rotating
  <2>7. BegunInv'
    BY <2>1, <2>3 DEF FenceInv, BegunInv
  <2>8. MarkedInv' /\ MarkClaimedInv' /\ StrayInv'
    BY <2>2, <2>6 DEF MarkedInv, MarkClaimedInv, StrayInv
  <2>9. UnmarkedInv' /\ SyncInv'
    BY <2>1, <2>2, <2>3, <2>4 DEF FenceInv, UnmarkedInv, SyncInv, Live
  <2>10. GenerationInv'
    BY <2>6 DEF GenerationInv, Rotating
  <2> QED
    BY <2>7, <2>8, <2>9, <2>10 DEF FenceInv
<1>13. CASE ClaimRejected(r)
  BY <1>13, ReturnStep DEF ClaimRejected
<1>14. CASE Decide(r)
  <2>1. Goto(r, "marking") \/ Goto(r, "identity") \/ Goto(r, "revoking")
    BY <1>14 DEF Decide
  <2>2. req[r].pc = "claimed" /\ Unmarked(r) /\ ~req[r].begun
    BY <1>14 DEF Decide, At, Unmarked, FenceInv, BegunInv
  <2>3. grant' = grant /\ provider' = provider
    BY <1>14 DEF Decide
  <2>4. CASE Goto(r, "marking")
    BY <2>2, <2>3, <2>4, GotoStep DEF Location
  <2>5. CASE Goto(r, "identity")
    BY <2>2, <2>3, <2>5, GotoStep DEF Location
  <2>6. CASE Goto(r, "revoking")
    BY <2>2, <2>3, <2>6, GotoStep DEF Location
  <2> QED
    BY <2>1, <2>4, <2>5, <2>6
<1>15. CASE MarkStarted(r)
  <2>1. CASE Goto(r, "revoking") /\ UNCHANGED grant
    BY <1>15, <2>1, GotoStep DEF MarkStarted, Location
  <2>2. CASE /\ Live /\ grant.claim = r
             /\ grant' = [grant EXCEPT !.started = TRUE]
             /\ req' = [req EXCEPT ![r].pc = "refreshing", ![r].begun = TRUE]
    <3>1. /\ \A s \in Requests : s # r => req'[s] = req[s]
          /\ req'[r].pc = "refreshing" /\ req'[r].begun
      BY <2>2 DEF TypeOK, Request
    <3>2. /\ grant'.status = "live" /\ grant'.claim = r /\ grant'.started
          /\ grant'.cred = grant.cred /\ provider' = provider /\ r # None
      BY <1>15, <2>2, FamilyAssumption DEF MarkStarted, TypeOK, Grant, Live
    <3>3. ~grant.started
      BY <1>15, <2>2 DEF MarkStarted, At, FenceInv, UnmarkedInv, Unmarked
    <3>4. AnswersSoon => grant.cred.gen = provider.gen /\ ~provider.stray
      BY <2>2, <3>3 DEF FenceInv, SyncInv
    <3>5. \A s \in Requests : ~Rotating(s)
      BY <2>2, <3>3 DEF FenceInv, MarkedInv
    <3>6. \A s \in Requests : Rotating(s)' => s = r
      BY <3>1, <3>5 DEF Rotating
    <3>7. BegunInv'
      BY <3>1 DEF FenceInv, BegunInv
    <3>8. MarkedInv' /\ MarkClaimedInv' /\ StrayInv' /\ SyncInv'
      BY <3>2, <3>4, <3>6 DEF MarkedInv, MarkClaimedInv, StrayInv, SyncInv
    <3>9. UnmarkedInv'
      BY <3>1, <3>2 DEF UnmarkedInv, Unmarked
    <3>10. GenerationInv'
      BY <3>1, <3>2, <3>4, <3>6 DEF GenerationInv, Rotating
    <3> QED
      BY <3>7, <3>8, <3>9, <3>10 DEF FenceInv
  <2> QED
    BY <1>15, <2>1, <2>2 DEF MarkStarted
<1>16. ASSUME NEW p \in Profiles, NEW rotates \in BOOLEAN, ProviderAnswers(r, p, rotates)
       PROVE  FenceInv'
  <2>1. /\ \A s \in Requests : s # r => req'[s] = req[s]
        /\ req'[r].pc = "answered" /\ req'[r].begun = req[r].begun
        /\ req'[r].cred.gen = provider'.gen
    <3> DEFINE g == IF rotates THEN provider.gen + 1 ELSE provider.gen
               c == [HandOut(p, g, clock) EXCEPT !.renewable = TRUE]
    <3>1. c.gen = g
      BY DEF HandOut
    <3> HIDE DEF g, c
    <3>2. req' = [req EXCEPT ![r].pc = "answered", ![r].cred = c] /\ provider'.gen = g
      BY <1>16 DEF ProviderAnswers, TypeOK, g, c
    <3> QED
      BY <3>1, <3>2 DEF TypeOK, Request
  <2>2. grant' = grant /\ provider'.stray = provider.stray /\ req[r].pc = "refreshing"
    BY <1>16 DEF ProviderAnswers, At, TypeOK
  <2>3. Live => grant.claim = r /\ grant.started /\ (AnswersSoon => ~provider.stray)
    BY <2>2 DEF FenceInv, MarkedInv, StrayInv, Rotating
  <2>4. Live => \A s \in Requests : Rotating(s) => s = r
    BY <2>2, <2>3 DEF FenceInv, MarkedInv
  <2>5. Live => \A s \in Requests : Rotating(s)' => s = r
    BY <2>1, <2>4 DEF Rotating
  <2>6. BegunInv'
    BY <2>1, <2>2 DEF FenceInv, BegunInv
  <2>7. MarkedInv' /\ MarkClaimedInv' /\ StrayInv' /\ SyncInv'
    BY <2>2, <2>3, <2>5
       DEF FenceInv, MarkedInv, MarkClaimedInv, StrayInv, SyncInv, Live
  <2>8. UnmarkedInv'
    BY <2>1, <2>2 DEF FenceInv, UnmarkedInv, Unmarked, Live
  <2>9. GenerationInv'
    BY <2>1, <2>2, <2>5 DEF GenerationInv, Rotating, Live
  <2> QED
    BY <2>6, <2>7, <2>8, <2>9 DEF FenceInv
<1>17. CASE ReceiveAnswer(r)
  BY <1>17, GotoStep DEF ReceiveAnswer, At, FenceInv, BegunInv, Rotating, Location
<1>18. CASE RefreshRefused(r)
  BY <1>18, GotoStep DEF RefreshRefused, At, Location
<1>19. CASE RefreshFails(r)
  <2>1. /\ \A s \in Requests : s # r => req'[s] = req[s]
        /\ req'[r].pc = "revoking"
    BY <1>19, GotoFacts DEF RefreshFails, Location
  <2>2. grant' = grant /\ provider'.gen = provider.gen /\ Rotating(r)
    BY <1>19 DEF RefreshFails, TypeOK, Rotating
  <2>3. Live => grant.started /\ grant.claim = r
    BY <2>2 DEF FenceInv, MarkedInv
  <2>4. \A s \in Requests : s # r => (Rotating(s)' <=> Rotating(s)) /\ (Unmarked(s)' <=> Unmarked(s))
    BY <2>1 DEF Rotating, Unmarked
  <2>5. ~Rotating(r)' /\ ~Unmarked(r)'
    BY <2>1 DEF Rotating, Unmarked
  <2>6. Live => \A s \in Requests : ~Rotating(s)'
    BY <2>2, <2>3, <2>4, <2>5 DEF FenceInv, MarkedInv
  <2>7. BegunInv'
    BY <2>1 DEF FenceInv, BegunInv
  <2>8. MarkedInv' /\ MarkClaimedInv' /\ StrayInv' /\ SyncInv'
    BY <2>2, <2>3, <2>6
       DEF FenceInv, MarkedInv, MarkClaimedInv, StrayInv, SyncInv, Live
  <2>9. UnmarkedInv'
    BY <2>1, <2>2, <2>4, <2>5 DEF FenceInv, UnmarkedInv, Live
  <2>10. GenerationInv'
    BY <2>2, <2>6 DEF GenerationInv, Rotating, Live
  <2> QED
    BY <2>7, <2>8, <2>9, <2>10 DEF FenceInv
<1>20. CASE IdentityUnauthorized(r)
  BY <1>20, GotoStep DEF IdentityUnauthorized, At, Unmarked, Location
<1>21. CASE IdentityUnavailable(r) \/ IdentityMismatch(r)
  <2>1. AnswersSoon => provider' = provider
    BY <1>21 DEF IdentityUnavailable, IdentityMismatch
  <2> QED
    BY <1>21, <2>1, GotoStep DEF IdentityUnavailable, IdentityMismatch, GiveUp, Location
<1>22. CASE IdentityAccepted(r)
  <2>1. CASE Goto(r, "revoking")
    BY <1>22, <2>1, GotoStep DEF IdentityAccepted, Location
  <2>2. CASE ~Goto(r, "revoking")
    <3>1. /\ \A s \in Requests : s # r => req'[s] = req[s]
          /\ req'[r].pc = "signed"
          /\ req'[r].begun = req[r].begun /\ req'[r].cred = req[r].cred
      BY <1>22, <2>2 DEF IdentityAccepted, TypeOK, Request
    <3>2. grant' = grant /\ provider' = provider /\ req[r].pc = "identity"
      BY <1>22 DEF IdentityAccepted, At
    <3>3. \A s \in Requests : (Rotating(s)' <=> Rotating(s)) /\ (Unmarked(s)' <=> Unmarked(s))
      BY <3>1, <3>2 DEF Rotating, Unmarked
    <3>4. BegunInv'
      BY <3>1 DEF FenceInv, BegunInv
    <3>5. GenerationInv'
      BY <3>1, <3>2, <3>3 DEF FenceInv, GenerationInv, Live
    <3> QED
      BY <3>1, <3>2, <3>3, <3>4, <3>5
         DEF FenceInv, MarkedInv, MarkClaimedInv, UnmarkedInv, SyncInv, StrayInv, Live
  <2> QED
    BY <2>1, <2>2
<1>23. ASSUME NEW new \in Tokens, Complete(r, new) \/ CompleteUnacknowledged(r, new)
       PROVE  FenceInv'
  <2>1. /\ \A s \in Requests : s # r => req'[s] = req[s]
        /\ req'[r].pc \in {"idle", "revoking", "releasing"}
        /\ req'[r].pc = "idle" => ~req'[r].begun
    BY <1>23, GotoFacts, ReturnFacts DEF Complete, CompleteUnacknowledged, GiveUp, Location
  <2>2. /\ grant'.status = grant.status /\ grant'.claim = None /\ grant'.started = FALSE
        /\ grant'.cred = req[r].cred /\ provider' = provider
    BY <1>23 DEF Complete, CompleteUnacknowledged, Commit, Unclaimed, TypeOK, Grant
  <2>3. req[r].pc = "signed" /\ Live /\ grant.claim = r
    BY <1>23 DEF Complete, CompleteUnacknowledged, Completable, Usable, At
  <2>4. \A s \in Requests : Rotating(s) => s = r
    BY <2>3 DEF FenceInv, MarkedInv
  <2>5. \A s \in Requests : ~Rotating(s)'
    BY <2>1, <2>4 DEF Rotating
  <2>6. AnswersSoon => req[r].cred.gen = provider.gen /\ ~provider.stray
    <3>1. CASE Rotating(r)
      BY <2>3, <3>1 DEF FenceInv, GenerationInv, StrayInv
    <3>2. CASE ~Rotating(r)
      <4>1. Unmarked(r)
        BY <2>3, <3>2 DEF Rotating, Unmarked
      <4> QED
        BY <2>3, <4>1 DEF FenceInv, UnmarkedInv, SyncInv
    <3> QED
      BY <3>1, <3>2
  <2>7. BegunInv'
    BY <2>1 DEF FenceInv, BegunInv
  <2>8. MarkedInv' /\ MarkClaimedInv' /\ StrayInv' /\ SyncInv'
    BY <2>2, <2>5, <2>6 DEF MarkedInv, MarkClaimedInv, StrayInv, SyncInv
  <2>9. UnmarkedInv'
    BY <2>2, FamilyAssumption DEF UnmarkedInv
  <2>10. GenerationInv'
    BY <2>5 DEF GenerationInv, Rotating
  <2> QED
    BY <2>7, <2>8, <2>9, <2>10 DEF FenceInv
<1>24. CASE CompleteFails(r)
  BY <1>24, GotoStep DEF CompleteFails, GiveUp, Location
<1>25. CASE RevokeGrant(r)
  <2>1. BegunInv'
    BY <1>25, ReturnFacts DEF RevokeGrant, FenceInv, BegunInv
  <2> QED
    BY <1>25, <2>1, RevokedFacts, EndedStep DEF RevokeGrant, TypeOK, Live
<1>26. CASE ReleaseClaim(r) \/ AbortUpstreamRefresh(r)
  <2>1. /\ \A s \in Requests : s # r => req'[s] = req[s]
        /\ req'[r].pc = "idle" /\ ~req'[r].begun
    BY <1>26, ReturnFacts DEF ReleaseClaim, AbortUpstreamRefresh
  <2>2. CASE grant' = grant
    BY <1>26, <2>2, ReturnStep DEF ReleaseClaim, AbortUpstreamRefresh
  <2>3. CASE grant' # grant
    <3>1. /\ grant'.status = grant.status /\ grant'.claim = None /\ grant'.started = FALSE
          /\ grant'.cred = grant.cred /\ provider' = provider
          /\ grant.claim = r
      BY <1>26, <2>3 DEF ReleaseClaim, AbortUpstreamRefresh, Unclaimed, TypeOK, Grant
    <3>2. CASE Live
      <4>1. AnswersSoon => grant.cred.gen = provider.gen /\ ~provider.stray
        BY <1>26, <2>3, <3>2
           DEF ReleaseClaim, AbortUpstreamRefresh, At, FenceInv, SyncInv, GenerationInv, StrayInv,
               Rotating
      <4>2. \A s \in Requests : Rotating(s) => s = r
        BY <3>1, <3>2 DEF FenceInv, MarkedInv
      <4>3. \A s \in Requests : ~Rotating(s)'
        BY <2>1, <4>2 DEF Rotating
      <4>4. BegunInv'
        BY <2>1 DEF FenceInv, BegunInv
      <4>5. MarkedInv' /\ MarkClaimedInv' /\ StrayInv' /\ SyncInv'
        BY <3>1, <4>1, <4>3 DEF MarkedInv, MarkClaimedInv, StrayInv, SyncInv
      <4>6. UnmarkedInv'
        BY <3>1, FamilyAssumption DEF UnmarkedInv
      <4>7. GenerationInv'
        BY <4>3 DEF GenerationInv, Rotating
      <4> QED
        BY <4>4, <4>5, <4>6, <4>7 DEF FenceInv
    <3>3. CASE ~Live
      <4>1. BegunInv' /\ ~Live'
        BY <2>1, <3>1, <3>3 DEF FenceInv, BegunInv, Live
      <4> QED
        BY <4>1, EndedStep
    <3> QED
      BY <3>2, <3>3
  <2> QED
    BY <2>2, <2>3
<1>27. CASE RenewQuietly(r)
  <2>1. grant' = grant /\ req' = req /\ ~AnswersSoon
    BY <1>27 DEF RenewQuietly
  <2> QED
    BY <2>1 DEF FenceInv, BegunInv, MarkedInv, MarkClaimedInv, UnmarkedInv, SyncInv, StrayInv,
                GenerationInv, Live, Rotating, Unmarked
<1> QED
  BY <1>1, <1>2, <1>3, <1>4, <1>5, <1>6, <1>7, <1>8, <1>9, <1>10, <1>11, <1>12, <1>13, <1>14,
     <1>15, <1>16, <1>17, <1>18, <1>19, <1>20, <1>21, <1>22, <1>23, <1>24, <1>25, <1>26, <1>27
     DEF Step

\* Before the family exists nobody works on it, which CreateGrant relies on.
FreshInv ==
    grant.status = "none" =>
        /\ provider.gen = 0 /\ ~provider.stray
        /\ \A r \in Requests : req[r].pc = "idle"

\* Initially no request works on a family.
LEMMA FreshInit == Init => FreshInv
BY DEF Init, FreshInv, Idle

\* A request only takes a step of a family that exists, and no step forgets it.
LEMMA FreshRequestStep ==
    ASSUME TypeOK, FreshInv, NEW r \in Requests, Step(r) \/ Abandon(r)
    PROVE  FreshInv'
<1>1. req[r].pc # "idle"
  BY DEF Step, Abandon, RefuseClient, AnswerRefused, Prepare, RevokeReplayed, DenyPolicy,
         AllowPolicy, DirectRotate, DirectReplay, DirectReject, ClaimReplay, ClaimFenced,
         ClaimGranted, ClaimRejected, Decide, MarkStarted, ProviderAnswers, ReceiveAnswer,
         RefreshRefused, RefreshFails, RenewQuietly, Renews, IdentityUnauthorized,
         IdentityUnavailable, IdentityMismatch, IdentityAccepted, Complete,
         CompleteUnacknowledged, CompleteFails, RevokeGrant, ReleaseClaim,
         AbortUpstreamRefresh, At
<1>2. grant.status # "none"
  BY <1>1 DEF FreshInv
<1>3. Revoked(grant).status # "none" /\ Unclaimed(grant).status # "none"
      /\ Unclaimed(Revoked(grant)).status # "none"
  BY <1>2 DEF Revoked, Unclaimed, TypeOK, Grant
<1>4. grant' = grant => FreshInv'
  BY <1>2 DEF FreshInv
<1>5. CASE \/ RevokeReplayed(r) \/ DirectReplay(r) \/ ClaimReplay(r)
           \/ RevokeGrant(r) \/ ReleaseClaim(r) \/ AbortUpstreamRefresh(r)
  BY <1>3, <1>4, <1>5
     DEF RevokeReplayed, DirectReplay, ClaimReplay, RevokeGrant, ReleaseClaim,
         AbortUpstreamRefresh, FreshInv
<1>6. CASE ClaimFenced(r) \/ ClaimGranted(r) \/ MarkStarted(r)
  <2>1. grant'.status # "none"
    BY <1>2, <1>6 DEF ClaimFenced, ClaimGranted, MarkStarted, Revoked, TypeOK, Grant
  <2> QED
    BY <2>1 DEF FreshInv
<1>7. ASSUME NEW new \in Tokens,
             DirectRotate(r, new) \/ Complete(r, new) \/ CompleteUnacknowledged(r, new)
      PROVE  FreshInv'
  <2>1. grant'.status # "none"
    BY <1>2, <1>7
       DEF DirectRotate, Complete, CompleteUnacknowledged, Commit, Unclaimed, TypeOK, Grant
  <2> QED
    BY <2>1 DEF FreshInv
<1> QED
  BY <1>4, <1>5, <1>6, <1>7
     DEF Step, Abandon, RefuseClient, AnswerRefused, Prepare, DenyPolicy, AllowPolicy,
         DirectReject, ClaimRejected, Decide, ProviderAnswers, ReceiveAnswer, RefreshRefused,
         RefreshFails, RenewQuietly, IdentityUnauthorized, IdentityUnavailable,
         IdentityMismatch, IdentityAccepted, CompleteFails

\* No step lets a request work on a family that does not exist.
LEMMA FreshStep ==
    ASSUME TypeOK, FreshInv, [Next]_vars
    PROVE  FreshInv'
<1>1. ASSUME NEW t \in Tokens, NEW kind \in {"connector", "email"}, NEW p \in Profiles,
             CreateGrant(t, kind, p)
      PROVE  FreshInv'
  BY <1>1 DEF CreateGrant, NoGrant, FreshInv
<1>2. ASSUME NEW r \in Requests, NEW t \in Tokens, Inspect(r, t)
      PROVE  FreshInv'
  BY <1>2 DEF Inspect, Live, FreshInv
<1>3. CASE StrayCall
  BY <1>3 DEF StrayCall, FreshInv
<1>4. CASE RevokeCredential
  BY <1>4 DEF RevokeCredential, Revoked, Live, FreshInv, TypeOK, Grant
<1>5. CASE Cleanup
  BY <1>5 DEF Cleanup, NoGrant, FreshInv
<1>6. CASE Tick \/ UNCHANGED vars
  BY <1>6 DEF Tick, vars, FreshInv
<1> QED
  BY <1>1, <1>2, <1>3, <1>4, <1>5, <1>6, FreshRequestStep DEF Next

-----------------------------------------------------------------------------
(* The lookups. GetIdentity's own client could renew and rotate the refresh   *)
(* token. When providers answer soon, Service.connector has renewed every     *)
(* access token that would come so close to its end.                          *)

\* A claim is no longer than ClaimTTL, and a request looks up an identity with
\* an access token that outlives its claim's beginning by the renewal window.
LookupInv ==
    \A r \in Requests :
        /\ req[r].lease <= clock + ClaimTTL
        /\ AnswersSoon /\ req[r].pc \in {"answered", "identity"} =>
              req[r].cred.access = 0 \/ req[r].cred.access + ClaimTTL > req[r].lease + RenewWindow

\* A request that looks up an identity, or is about to.
Looking(r) == req[r].pc \in {"answered", "identity"}

\* With such a token the oauth2 client never renews by itself.
LEMMA NoQuietRenewal ==
    ASSUME TypeOK, LookupInv, NEW r \in Requests
    PROVE  AnswersSoon => ~Renews(r)
BY FamilyAssumption DEF TypeOK, Request, Credential, LookupInv, AnswersSoon, Renews, At

\* Initially nobody looks anything up.
LEMMA LookupInit == Init => LookupInv
<1> SUFFICES ASSUME Init PROVE LookupInv
  OBVIOUS
<1>1. \A r \in Requests : req[r].lease = 0 /\ req[r].pc = "idle"
  BY DEF Init, Idle
<1>2. clock + ClaimTTL >= 0
  BY FamilyAssumption DEF Init
<1> QED
  BY <1>1, <1>2 DEF LookupInv

\* A request that gets no closer to a lookup and no longer lease.
LEMMA LookupKept ==
    ASSUME TypeOK, LookupInv, clock' = clock, NEW r \in Requests,
           \A s \in Requests : s # r => req'[s] = req[s],
           req'[r].lease = req[r].lease \/ req'[r].lease = clock + ClaimTTL \/ req'[r].lease = 0,
           Looking(r)' => Looking(r) /\ req'[r].cred = req[r].cred /\ req'[r].lease = req[r].lease
    PROVE  LookupInv'
BY FamilyAssumption DEF TypeOK, LookupInv, Looking

\* Every step keeps what is known of lookups: Decide and the provider's answer
\* are the two ways to one.
LEMMA LookupStep ==
    ASSUME TypeOK, LookupInv, [Next]_vars
    PROVE  LookupInv'
<1> USE FamilyAssumption DEF At
<1>1. ASSUME NEW r \in Requests, Return(r), clock' = clock
      PROVE  LookupInv'
  <2>1. /\ \A s \in Requests : s # r => req'[s] = req[s]
        /\ req'[r].lease = 0 /\ ~Looking(r)'
    BY <1>1 DEF Return, Idle, TypeOK, Looking
  <2> QED
    BY <1>1, <2>1, LookupKept
<1>2. ASSUME NEW r \in Requests, NEW l \in Location, Goto(r, l), clock' = clock,
             l \in {"answered", "identity"} => Looking(r)
      PROVE  LookupInv'
  <2>1. /\ \A s \in Requests : s # r => req'[s] = req[s]
        /\ req'[r].lease = req[r].lease /\ req'[r].cred = req[r].cred /\ req'[r].pc = l
    BY <1>2 DEF Goto, TypeOK, Request
  <2> QED
    BY <1>2, <2>1, LookupKept DEF Looking
<1>3. ASSUME NEW r \in Requests, Prepare(r) \/ ClaimGranted(r) \/ MarkStarted(r) \/ IdentityAccepted(r)
      PROVE  LookupInv'
  <2>1. CASE \E l \in Location : Goto(r, l) /\ l \notin {"answered", "identity"}
    BY <1>2, <1>3, <2>1 DEF Prepare, ClaimGranted, MarkStarted, IdentityAccepted
  <2>2. CASE Return(r)
    BY <1>1, <1>3, <2>2 DEF Prepare, ClaimGranted, MarkStarted, IdentityAccepted
  <2>3. CASE /\ ~\E l \in Location : Goto(r, l) /\ l \notin {"answered", "identity"}
             /\ ~Return(r)
    <3>1. /\ \A s \in Requests : s # r => req'[s] = req[s]
          /\ req'[r].lease = req[r].lease \/ req'[r].lease = clock + ClaimTTL
          /\ ~Looking(r)' /\ clock' = clock
      BY <1>3, <2>3
         DEF Prepare, ClaimGranted, MarkStarted, IdentityAccepted, TypeOK, Request, Looking, Location
    <3> QED
      BY <3>1, LookupKept
  <2> QED
    BY <2>1, <2>2, <2>3
<1>4. ASSUME NEW r \in Requests, Decide(r)
      PROVE  LookupInv'
  <2>1. CASE Goto(r, "identity")
    <3>1. req[r].cred.access = 0 \/ req[r].cred.access > clock + RenewWindow
      <4>1. ~Expiring(req[r].cred, clock)
        BY <1>4, <2>1 DEF Decide, Goto, TypeOK, Request
      <4> QED
        BY <4>1 DEF Expiring, TypeOK, Request, Credential
    <3>2. /\ \A s \in Requests : s # r => req'[s] = req[s]
          /\ req'[r].lease = req[r].lease /\ req'[r].cred = req[r].cred
          /\ clock' = clock
      BY <1>4, <2>1 DEF Decide, Goto, TypeOK, Request
    <3>3. req[r].cred.access \in Nat /\ req[r].lease \in Nat /\ clock \in Nat
      BY DEF TypeOK, Request, Credential
    <3> QED
      BY <3>1, <3>2, <3>3 DEF LookupInv
  <2>2. CASE Goto(r, "marking") \/ Goto(r, "revoking")
    BY <1>2, <1>4, <2>2 DEF Decide, Location
  <2> QED
    BY <1>4, <2>1, <2>2 DEF Decide
<1>5. ASSUME NEW r \in Requests, NEW p \in Profiles, NEW rotates \in BOOLEAN,
             ProviderAnswers(r, p, rotates)
      PROVE  LookupInv'
  <2>1. /\ \A s \in Requests : s # r => req'[s] = req[s]
        /\ req'[r].lease = req[r].lease /\ req'[r].cred.access = After(p.access, clock)
        /\ clock' = clock
    <3> DEFINE g == IF rotates THEN provider.gen + 1 ELSE provider.gen
               c == [HandOut(p, g, clock) EXCEPT !.renewable = TRUE]
    <3>1. c.access = After(p.access, clock)
      BY DEF HandOut
    <3> HIDE DEF g, c
    <3>2. req' = [req EXCEPT ![r].pc = "answered", ![r].cred = c] /\ clock' = clock
      BY <1>5 DEF ProviderAnswers, g, c
    <3> QED
      BY <3>1, <3>2 DEF TypeOK, Request
  <2>2. p.access \in Nat /\ req[r].lease \in Nat /\ clock \in Nat
    BY DEF Profile, TypeOK, Request
  <2>3. AnswersSoon => p.access = 0 \/ p.access > RenewWindow
    BY DEF AnswersSoon
  <2>4. req[r].lease <= clock + ClaimTTL
    BY DEF LookupInv
  <2>5. AnswersSoon => req'[r].cred.access = 0 \/ req'[r].cred.access > clock + RenewWindow
    BY <2>1, <2>2, <2>3 DEF After
  <2>6. req'[r].cred.access \in Nat
    BY <2>1, <2>2 DEF After
  <2>7. AnswersSoon => req'[r].cred.access = 0
                       \/ req'[r].cred.access + ClaimTTL > req'[r].lease + RenewWindow
    BY <2>1, <2>2, <2>4, <2>5, <2>6
  <2> QED
    BY <2>1, <2>4, <2>7 DEF LookupInv
<1>6. ASSUME NEW r \in Requests, Step(r) \/ Abandon(r)
      PROVE  LookupInv'
  <2>1. CASE \/ RefuseClient(r) \/ DenyPolicy(r) \/ AllowPolicy(r) \/ ReceiveAnswer(r)
             \/ RefreshRefused(r) \/ RefreshFails(r) \/ IdentityUnauthorized(r)
             \/ IdentityUnavailable(r) \/ IdentityMismatch(r) \/ CompleteFails(r)
             \/ \E new \in Tokens : CompleteUnacknowledged(r, new)
    <3>1. clock' = clock
      BY <2>1 DEF RefuseClient, DenyPolicy, AllowPolicy, ReceiveAnswer, RefreshRefused,
         RefreshFails, IdentityUnauthorized, IdentityUnavailable, IdentityMismatch,
         CompleteFails, CompleteUnacknowledged
    <3>2. \E l \in Location : Goto(r, l) /\ (l \in {"answered", "identity"} => Looking(r))
      BY <2>1 DEF RefuseClient, DenyPolicy, AllowPolicy, ReceiveAnswer, RefreshRefused,
         RefreshFails, IdentityUnauthorized, IdentityUnavailable, IdentityMismatch,
         CompleteFails, CompleteUnacknowledged, GiveUp, Looking, Location
    <3> QED
      BY <1>2, <3>1, <3>2
  <2>2. CASE RenewQuietly(r)
    BY <2>2 DEF RenewQuietly, LookupInv
  <2>3. CASE \/ AnswerRefused(r) \/ RevokeReplayed(r) \/ DirectReplay(r) \/ DirectReject(r)
             \/ ClaimReplay(r) \/ ClaimFenced(r) \/ ClaimRejected(r) \/ RevokeGrant(r)
             \/ ReleaseClaim(r) \/ AbortUpstreamRefresh(r) \/ Abandon(r)
             \/ \E new \in Tokens : DirectRotate(r, new) \/ Complete(r, new)
    BY <1>1, <2>3
       DEF AnswerRefused, RevokeReplayed, DirectReplay, DirectReject, ClaimReplay, ClaimFenced,
           ClaimRejected, RevokeGrant, ReleaseClaim, AbortUpstreamRefresh, Abandon,
           DirectRotate, Complete
  <2> QED
    BY <1>3, <1>4, <1>5, <1>6, <2>1, <2>2, <2>3 DEF Step
<1>7. ASSUME NEW r \in Requests, NEW t \in Tokens, Inspect(r, t)
      PROVE  LookupInv'
  <2>1. /\ \A s \in Requests : s # r => req'[s] = req[s]
        /\ req'[r].lease = 0 /\ ~Looking(r)' /\ clock' = clock
    BY <1>7 DEF Inspect, Idle, TypeOK, Looking
  <2> QED
    BY <2>1, LookupKept
<1>8. CASE req' = req /\ clock' = clock
  BY <1>8 DEF LookupInv
<1>9. CASE Tick
  BY <1>9 DEF Tick, LookupInv, TypeOK, Request
<1> QED
  BY <1>6, <1>7, <1>8, <1>9
     DEF Next, CreateGrant, StrayCall, RevokeCredential, Cleanup, vars

-----------------------------------------------------------------------------
(* The fence, step by step.                                                  *)

\* Every step of the system keeps the fence invariant.
LEMMA FenceStep ==
    ASSUME TypeOK, FreshInv, FenceInv, LookupInv, [Next]_vars
    PROVE  FenceInv'
<1>1. ASSUME NEW t \in Tokens, NEW kind \in {"connector", "email"}, NEW p \in Profiles,
             CreateGrant(t, kind, p)
      PROVE  FenceInv'
  <2>1. /\ grant'.claim = None /\ grant'.started = FALSE /\ grant'.cred.gen = 0
        /\ AnswersSoon => provider' = provider
        /\ req' = req
    BY <1>1, FamilyAssumption
       DEF CreateGrant, NoGrant, NoCredential, HandOut, AnswersSoon, RenewsAtLogin, Profile
  <2>2. provider.gen = 0 /\ ~provider.stray /\ \A r \in Requests : req[r].pc = "idle"
    BY <1>1 DEF CreateGrant, FreshInv
  <2> QED
    BY <2>1, <2>2, FamilyAssumption
       DEF FenceInv, BegunInv, MarkedInv, MarkClaimedInv, UnmarkedInv, SyncInv, StrayInv,
           GenerationInv, Rotating, Unmarked
<1>2. ASSUME NEW r \in Requests, NEW t \in Tokens, Inspect(r, t)
      PROVE  FenceInv'
  <2>1. /\ req'[r].pc = "inspected" /\ ~req'[r].begun
        /\ \A s \in Requests : s # r => req'[s] = req[s]
        /\ grant' = grant /\ provider' = provider
    BY <1>2 DEF Inspect, TypeOK, Idle
  <2> QED
    BY <2>1
       DEF FenceInv, BegunInv, MarkedInv, MarkClaimedInv, UnmarkedInv, SyncInv, StrayInv,
           GenerationInv, Rotating, Unmarked, Live
<1>3. ASSUME NEW r \in Requests, Abandon(r)
      PROVE  FenceInv'
  <2>1. /\ \A s \in Requests : s # r => req'[s] = req[s]
        /\ req'[r].pc = "idle" /\ ~req'[r].begun
    BY <1>3, ReturnFacts DEF Abandon
  <2>2. grant' = grant /\ provider'.gen = provider.gen
    BY <1>3 DEF Abandon, TypeOK
  <2>3. CASE req[r].pc # "refreshing"
    <3>0. AnswersSoon => ~Renews(r)
      BY NoQuietRenewal
    <3>1. AnswersSoon => provider' = provider
      BY <1>3, <2>3, <3>0, Zenon DEF Abandon, At, TypeOK
    <3> QED
      BY <1>3, <3>1, ReturnStep DEF Abandon
  <2>4. CASE req[r].pc = "refreshing"
    <3>1. Live => grant.started /\ grant.claim = r
      BY <2>4 DEF FenceInv, MarkedInv, Rotating
    <3>2. \A s \in Requests : s # r => (Rotating(s)' <=> Rotating(s)) /\ (Unmarked(s)' <=> Unmarked(s))
      BY <2>1 DEF Rotating, Unmarked
    <3>3. ~Rotating(r)' /\ ~Unmarked(r)'
      BY <2>1 DEF Rotating, Unmarked
    <3>4. Live => \A s \in Requests : ~Rotating(s)'
      BY <3>1, <3>2, <3>3 DEF FenceInv, MarkedInv
    <3>5. BegunInv'
      BY <2>1 DEF FenceInv, BegunInv
    <3>6. MarkedInv' /\ MarkClaimedInv' /\ StrayInv' /\ SyncInv'
      BY <2>2, <3>1, <3>4 DEF FenceInv, MarkedInv, MarkClaimedInv, StrayInv, SyncInv, Live
    <3>7. UnmarkedInv'
      BY <2>1, <2>2, <3>2, <3>3 DEF FenceInv, UnmarkedInv, Live
    <3>8. GenerationInv'
      BY <2>2, <3>4 DEF GenerationInv, Rotating, Live
    <3> QED
      BY <3>5, <3>6, <3>7, <3>8 DEF FenceInv
  <2> QED
    BY <2>3, <2>4
<1>4. CASE StrayCall
  <2>1. AnswersSoon /\ Live => grant.started /\ \A r \in Requests : ~Rotating(r)
    BY <1>4 DEF StrayCall, FenceInv, SyncInv, StrayInv
  <2>2. grant' = grant /\ req' = req /\ provider'.stray = FALSE
    BY <1>4 DEF StrayCall
  <2>3. \A r \in Requests : (Rotating(r)' <=> Rotating(r)) /\ (Unmarked(r)' <=> Unmarked(r))
    BY <2>2 DEF Rotating, Unmarked
  <2>4. GenerationInv'
    BY <2>1, <2>2, <2>3 DEF GenerationInv, Live, Rotating
  <2> QED
    BY <2>1, <2>2, <2>3, <2>4
       DEF FenceInv, BegunInv, MarkedInv, MarkClaimedInv, UnmarkedInv, SyncInv, StrayInv, Live
<1>5. CASE RevokeCredential
  <2>1. BegunInv' /\ ~Live'
    BY <1>5, RevokedFacts DEF RevokeCredential, FenceInv, BegunInv, Live, TypeOK
  <2> QED
    BY <2>1, EndedStep
<1>6. CASE Cleanup
  <2>1. BegunInv' /\ ~Live'
    BY <1>6 DEF Cleanup, NoGrant, FenceInv, BegunInv, Live
  <2> QED
    BY <2>1, EndedStep
<1>7. CASE Tick \/ UNCHANGED vars
  BY <1>7 DEF Tick, vars, FenceInv, BegunInv, MarkedInv, MarkClaimedInv, UnmarkedInv, SyncInv,
              StrayInv, GenerationInv, Rotating, Unmarked, Live
<1> QED
  BY <1>1, <1>2, <1>3, <1>4, <1>5, <1>6, <1>7, FenceRequestStep, NoQuietRenewal DEF Next

\* The inductive invariant behind the fence holds in every behaviour.
THEOREM FenceInvariant == Spec => [](FreshInv /\ LookupInv /\ FenceInv)
<1>1. Init => FreshInv /\ LookupInv /\ FenceInv
  BY FreshInit, LookupInit, FenceInit
<1>2. TypeOK /\ FreshInv /\ LookupInv /\ FenceInv /\ [Next]_vars
         => (FreshInv /\ LookupInv /\ FenceInv)'
  BY FreshStep, LookupStep, FenceStep
<1> QED
  BY <1>1, <1>2, TypeCorrect, PTL DEF Spec

\* A live family that is not marked as rotating holds the credential that the
\* provider accepts (ClaimRefresh's fence, MarkUpstreamRefreshStarted), if the
\* provider answers the lookups soon enough for the renewal window.
THEOREM FenceHolds == Spec => []CredentialFence
<1>1. FenceInv => CredentialFence
  BY DEF FenceInv, SyncInv, MarkedInv, CredentialFence
<1> QED
  BY <1>1, FenceInvariant, PTL

\* At most one request of a live family is upstream with its refresh token.
THEOREM OneCaller == Spec => []OneUpstreamCaller
<1>1. FenceInv => OneUpstreamCaller
  BY DEF FenceInv, MarkedInv, StrayInv, OneUpstreamCaller
<1> QED
  BY <1>1, FenceInvariant, PTL

-----------------------------------------------------------------------------
(* The rows of the family.                                                   *)
(*                                                                           *)
(* Most steps leave the terms of a family alone, so that the invariants of   *)
(* the rows need an argument for its creation, for the two ways to rotate a  *)
(* token and for the cleanup only.                                           *)

\* The tokens, the credential and the expiries stay, and the family at most ends
\* or is marked.
SameTerms ==
    /\ tokens' = tokens
    /\ grant'.kind = grant.kind /\ grant'.cred = grant.cred /\ grant'.key = grant.key
    /\ grant'.idleExp = grant.idleExp /\ grant'.absExp = grant.absExp
    /\ grant'.status = grant.status \/ (Live /\ grant'.status = "revoked")
    /\ grant'.started => grant.started \/ \E r \in Requests : At(r, "marking")

\* A request exchanges its token.
Rotates(r, new) ==
    DirectRotate(r, new) \/ Complete(r, new) \/ CompleteUnacknowledged(r, new)

\* A step of a request that rotates nothing leaves the terms alone.
LEMMA StepTerms ==
    ASSUME TypeOK, NEW r \in Requests, Step(r)
    PROVE  SameTerms \/ \E new \in Tokens : Rotates(r, new)
<1>1. CASE grant' = grant /\ tokens' = tokens
  BY <1>1 DEF SameTerms
<1>2. CASE RevokeReplayed(r) \/ DirectReplay(r) \/ ClaimReplay(r) \/ RevokeGrant(r) \/ ClaimFenced(r)
  <2> DEFINE g == Revoked(grant)
  <2>1. /\ g.kind = grant.kind /\ g.cred = grant.cred /\ g.key = grant.key
        /\ g.idleExp = grant.idleExp /\ g.absExp = grant.absExp
        /\ g.status = grant.status \/ (Live /\ g.status = "revoked")
        /\ g.started = grant.started /\ g \in Grant
    BY RowUpdateTypes DEF Revoked, TypeOK, Grant, Live
  <2> HIDE DEF g
  <2>2. tokens' = tokens /\ grant' \in {grant, g, Unclaimed(g), [g EXCEPT !.claim = None, !.claimExp = 0]}
    BY <1>2 DEF RevokeReplayed, DirectReplay, ClaimReplay, RevokeGrant, ClaimFenced, g
  <2> QED
    BY <2>1, <2>2 DEF SameTerms, Unclaimed, Grant
<1>3. CASE ReleaseClaim(r) \/ AbortUpstreamRefresh(r) \/ ClaimGranted(r) \/ MarkStarted(r)
  BY <1>3 DEF ReleaseClaim, AbortUpstreamRefresh, ClaimGranted, MarkStarted, SameTerms,
              Unclaimed, TypeOK, Grant, Live
<1> QED
  BY <1>1, <1>2, <1>3
     DEF Step, Rotates, RefuseClient, AnswerRefused, Prepare, DenyPolicy, AllowPolicy,
         DirectReject, ClaimRejected, Decide, ProviderAnswers, ReceiveAnswer, RefreshRefused,
         RefreshFails, RenewQuietly, IdentityUnauthorized, IdentityUnavailable,
         IdentityMismatch, IdentityAccepted, CompleteFails

\* What the steps of the system do with the rows.
LEMMA NextTerms ==
    ASSUME TypeOK, [Next]_vars
    PROVE  \/ SameTerms
           \/ \E t \in Tokens, kind \in {"connector", "email"}, p \in Profiles : CreateGrant(t, kind, p)
           \/ \E r \in Requests, new \in Tokens : Rotates(r, new)
           \/ Cleanup
<1>1. CASE grant' = grant /\ tokens' = tokens
  BY <1>1 DEF SameTerms
<1>2. CASE RevokeCredential
  BY <1>2 DEF RevokeCredential, SameTerms, Revoked, Live, TypeOK, Grant
<1> QED
  <2>1. CASE \E r \in Requests : Step(r)
    BY <2>1, StepTerms
  <2>2. CASE \E r \in Requests : Abandon(r)
    BY <1>1, <2>2 DEF Abandon
  <2>3. CASE \E r \in Requests, t \in Tokens : Inspect(r, t)
    BY <1>1, <2>3 DEF Inspect
  <2>4. CASE StrayCall \/ Tick \/ UNCHANGED vars
    BY <1>1, <2>4 DEF StrayCall, Tick, vars
  <2> QED
    BY <1>2, <2>1, <2>2, <2>3, <2>4 DEF Next

\* The places of a request of a credential-backed family, from the claim on.
Connected == {"claiming", "claimed", "marking", "refreshing", "answered", "identity", "signed",
              "releasing", "aborting"}

\* A request at work names a token, and is on the path of its family's kind.
PathInv ==
    \A r \in Requests :
        /\ req[r].pc # "idle" => req[r].token \in Tokens
        /\ req[r].pc = "direct" => grant.kind = "email"
        /\ req[r].pc \in Connected => grant.kind = "connector"

\* What a step of a request does with its path.
LEMMA StepPath ==
    ASSUME TypeOK, NEW r \in Requests, Step(r) \/ Abandon(r)
    PROVE  /\ \A s \in Requests : s # r => req'[s] = req[s]
           /\ req'[r].pc = "idle" \/ req'[r].token = req[r].token
           /\ req[r].pc # "idle"
           /\ req'[r].pc = "direct" => grant.kind = "email"
           /\ req'[r].pc \in Connected => grant.kind = "connector" \/ req[r].pc \in Connected
<1> USE DEF At
<1>1. CASE Return(r) /\ req[r].pc # "idle"
  BY <1>1 DEF Return, Idle, TypeOK, Connected
<1>2. ASSUME NEW l \in Location, Goto(r, l), req[r].pc # "idle",
             l = "direct" => grant.kind = "email",
             l \in Connected => grant.kind = "connector" \/ req[r].pc \in Connected
      PROVE  /\ \A s \in Requests : s # r => req'[s] = req[s]
             /\ req'[r].pc = "idle" \/ req'[r].token = req[r].token
             /\ req[r].pc # "idle"
             /\ req'[r].pc = "direct" => grant.kind = "email"
             /\ req'[r].pc \in Connected => grant.kind = "connector" \/ req[r].pc \in Connected
  BY <1>2 DEF Goto, TypeOK, Request
<1>3. CASE RefuseClient(r) \/ DenyPolicy(r) \/ AllowPolicy(r)
  BY <1>2, <1>3 DEF RefuseClient, DenyPolicy, AllowPolicy, TypeOK, Grant, Location, Connected
<1>4. CASE Prepare(r)
  BY <1>1, <1>2, <1>4 DEF Prepare, TypeOK, Request, Location, Connected
<1>5. CASE ClaimGranted(r)
  BY <1>5 DEF ClaimGranted, TypeOK, Request, Connected
<1>6. CASE Decide(r) \/ ReceiveAnswer(r) \/ RefreshRefused(r) \/ RefreshFails(r)
  BY <1>2, <1>6 DEF Decide, ReceiveAnswer, RefreshRefused, RefreshFails, Location, Connected
<1>7. CASE IdentityUnauthorized(r) \/ IdentityUnavailable(r) \/ IdentityMismatch(r)
           \/ CompleteFails(r)
  BY <1>2, <1>7 DEF IdentityUnauthorized, IdentityUnavailable, IdentityMismatch,
                    CompleteFails, GiveUp, Location, Connected
<1>8. CASE MarkStarted(r)
  BY <1>2, <1>8 DEF MarkStarted, TypeOK, Request, Location, Connected
<1>9. ASSUME NEW p \in Profiles, NEW rotates \in BOOLEAN, ProviderAnswers(r, p, rotates)
      PROVE  /\ \A s \in Requests : s # r => req'[s] = req[s]
             /\ req'[r].pc = "answered" /\ req'[r].token = req[r].token
             /\ req[r].pc = "refreshing"
  BY <1>9 DEF ProviderAnswers, TypeOK, Request
<1>10. CASE IdentityAccepted(r)
  BY <1>2, <1>10 DEF IdentityAccepted, TypeOK, Request, Location, Connected
<1>11. ASSUME NEW new \in Tokens, CompleteUnacknowledged(r, new)
       PROVE  req[r].pc = "signed" /\ Goto(r, IF req[r].begun THEN "revoking" ELSE "releasing")
  BY <1>11 DEF CompleteUnacknowledged, GiveUp
<1>12. CASE \E new \in Tokens : CompleteUnacknowledged(r, new)
  BY <1>2, <1>11, <1>12 DEF Location, Connected
<1>13. CASE \E p \in Profiles, rotates \in BOOLEAN : ProviderAnswers(r, p, rotates)
  BY <1>9, <1>13 DEF Connected
<1>14. CASE Return(r)
  <2>1. req[r].pc # "idle"
    BY <1>14 DEF Step, Abandon, RefuseClient, AnswerRefused, Prepare, RevokeReplayed, DenyPolicy,
         AllowPolicy, DirectRotate, DirectReplay, DirectReject, ClaimReplay, ClaimFenced,
         ClaimGranted, ClaimRejected, Decide, MarkStarted, ProviderAnswers, ReceiveAnswer,
         RefreshRefused, RefreshFails, RenewQuietly, Renews, IdentityUnauthorized,
         IdentityUnavailable, IdentityMismatch, IdentityAccepted, Complete,
         CompleteUnacknowledged, CompleteFails, RevokeGrant, ReleaseClaim, AbortUpstreamRefresh
  <2> QED BY <1>1, <1>14, <2>1
<1>15. CASE RenewQuietly(r)
  BY <1>15 DEF RenewQuietly, Renews, TypeOK, Connected
<1> QED
  BY <1>3, <1>4, <1>5, <1>6, <1>7, <1>8, <1>10, <1>12, <1>13, <1>14, <1>15
     DEF Step, Abandon, AnswerRefused, RevokeReplayed, DirectRotate, DirectReplay, DirectReject,
         ClaimReplay, ClaimFenced, ClaimRejected, Complete, RevokeGrant, ReleaseClaim,
         AbortUpstreamRefresh

\* Before the family exists its rows are empty.
EmptyInv ==
    grant.status = "none" => grant.cred = NoCredential /\ \A t \in Tokens : tokens[t].state = "none"

\* A direct-email family has no credential and never marks an upstream refresh.
EmailInv == grant.kind = "email" => grant.cred = NoCredential /\ ~grant.started

\* The inductive invariant behind OneCurrentToken.
TokenInv == PathInv /\ EmptyInv /\ EmailInv /\ OneCurrentToken

\* The bounds that Lesser and Bounded give.
LEMMA LesserBounds ==
    ASSUME NEW a \in Nat, NEW b \in Nat
    PROVE  /\ Lesser(a, b) <= a /\ Lesser(a, b) <= b
           /\ Bounded(a, b) <= a /\ (b # 0 => Bounded(a, b) <= b)
BY DEF Lesser, Bounded

\* What a rotation does: the current token of a live and unexpired family is
\* exchanged for one that never was used, within the family's lifetime.
LEMMA RotateFacts ==
    ASSUME TypeOK, PathInv, NEW r \in Requests, NEW new \in Tokens, Rotates(r, new)
    PROVE  /\ Live /\ grant'.status = "live" /\ grant'.kind = grant.kind
           /\ req[r].token \in Tokens /\ Usable(Row(r)) /\ tokens[new].state = "none"
           /\ SpendAndIssue(req[r].token, new, grant'.idleExp)
           /\ grant'.idleExp <= grant'.absExp /\ grant'.absExp <= grant.absExp
           /\ grant.kind = "connector" => grant'.key = new
<1> USE DEF At
<1>0. clock + IdleTTL \in Nat /\ grant.absExp \in Nat
  BY FamilyAssumption DEF TypeOK, Grant
<1>1. CASE DirectRotate(r, new)
  <2>1. req[r].token \in Tokens /\ grant.kind = "email"
    BY <1>1 DEF DirectRotate, PathInv
  <2>2. Lesser(clock + IdleTTL, grant.absExp) \in Nat
        /\ Lesser(clock + IdleTTL, grant.absExp) <= grant.absExp
    BY <1>0, LesserBounds, LesserType
  <2>3. /\ grant'.idleExp = Lesser(clock + IdleTTL, grant.absExp)
        /\ grant'.absExp = grant.absExp /\ grant'.status = grant.status
        /\ grant'.kind = grant.kind /\ grant'.key = grant.key
    BY <1>1 DEF DirectRotate, TypeOK, Grant
  <2>4. grant.absExp <= grant.absExp
    BY DEF TypeOK, Grant
  <2> QED
    BY <1>1, <2>1, <2>2, <2>3, <2>4 DEF DirectRotate, Usable, Live
<1>2. CASE Complete(r, new) \/ CompleteUnacknowledged(r, new)
  <2> DEFINE abs == Lesser(req[r].absolute, grant.absExp)
             end == Lesser(clock + IdleTTL, abs)
  <2>1. abs \in Nat /\ abs <= grant.absExp
    BY LesserBounds, LesserType DEF TypeOK, Grant, Request
  <2>2. end \in Nat /\ end <= abs
    BY <1>0, <2>1, LesserBounds, LesserType
  <2>3. /\ req[r].pc = "signed" /\ Completable(r) /\ tokens[new].state = "none"
        /\ SpendAndIssue(req[r].token, new, end)
        /\ grant' = [Unclaimed(grant) EXCEPT !.cred = req[r].cred, !.key = new,
                                             !.absExp = abs, !.idleExp = end]
    BY <1>2 DEF Complete, CompleteUnacknowledged, Commit
  <2> HIDE DEF abs, end
  <2>4. /\ grant'.idleExp = end /\ grant'.absExp = abs /\ grant'.status = grant.status
        /\ grant'.kind = grant.kind /\ grant'.key = new
    BY <2>3 DEF TypeOK, Grant, Unclaimed
  <2>5. req[r].token \in Tokens
    BY <2>3 DEF PathInv
  <2> QED
    BY <2>1, <2>2, <2>3, <2>4, <2>5 DEF Completable, Usable, Live
<1> QED
  BY <1>1, <1>2 DEF Rotates

\* Every step keeps the requests on the path of their family.
LEMMA PathStep ==
    ASSUME TypeOK, FreshInv, PathInv, [Next]_vars
    PROVE  PathInv'
<1>1. grant'.kind = grant.kind \/ \A r \in Requests : req'[r].pc = "idle"
  <2>1. CASE SameTerms
    BY <2>1 DEF SameTerms
  <2>2. CASE \E t \in Tokens, kind \in {"connector", "email"}, p \in Profiles : CreateGrant(t, kind, p)
    BY <2>2 DEF CreateGrant, FreshInv
  <2>3. CASE \E r \in Requests, new \in Tokens : Rotates(r, new)
    BY <2>3, RotateFacts
  <2>4. CASE Cleanup
    BY <2>4 DEF Cleanup, NoGrant
  <2> QED
    BY <2>1, <2>2, <2>3, <2>4, NextTerms
<1>2. CASE req' = req
  BY <1>1, <1>2 DEF PathInv, Connected
<1>3. ASSUME NEW r \in Requests, NEW t \in Tokens, Inspect(r, t)
      PROVE  PathInv'
  <2>1. /\ req'[r].pc = "inspected" /\ req'[r].token = t
        /\ \A s \in Requests : s # r => req'[s] = req[s]
        /\ grant' = grant
    BY <1>3 DEF Inspect, TypeOK, Idle
  <2> QED
    BY <2>1 DEF PathInv, Connected
<1>4. ASSUME NEW r \in Requests, Step(r) \/ Abandon(r)
      PROVE  PathInv'
  BY <1>1, <1>4, StepPath DEF PathInv, Connected
<1> QED
  BY <1>2, <1>3, <1>4 DEF Next, CreateGrant, StrayCall, RevokeCredential, Cleanup, Tick, vars

\* What a creation does.
LEMMA CreateFacts ==
    ASSUME TypeOK, EmptyInv, NEW t \in Tokens, NEW kind \in {"connector", "email"}, NEW p \in Profiles,
           CreateGrant(t, kind, p)
    PROVE  /\ grant.status = "none" /\ grant'.status = "live" /\ grant'.kind = kind
           /\ \A u \in Tokens : tokens[u].state = "none"
           /\ tokens' = [tokens EXCEPT ![t] = [state |-> "active", exp |-> grant'.idleExp]]
           /\ kind = "email" => grant'.cred = NoCredential
           /\ kind = "connector" => grant'.key = t
           /\ ~grant'.started /\ grant'.cred.gen = 0 /\ grant.cred.gen = 0
           /\ grant'.idleExp <= grant'.absExp /\ grant'.absExp <= AbsoluteTTL
           /\ grant'.cred.until # 0 => grant'.absExp <= grant'.cred.until
           /\ ~grant'.cred.renewable /\ grant'.cred.access # 0 => grant'.absExp <= grant'.cred.access
<1> USE FamilyAssumption
<1> DEFINE cred == IF kind = "email" THEN NoCredential ELSE HandOut(p, 0, clock)
           abs  == IF kind = "email" THEN AbsoluteTTL ELSE FamilyEnd(cred, AbsoluteTTL)
           end  == Lesser(clock + IdleTTL, abs)
<1>1. cred \in Credential /\ cred.gen = 0
  BY CredentialType, NullTypes DEF TypeOK, NoCredential, HandOut
<1>2. /\ abs \in Nat /\ abs <= AbsoluteTTL
      /\ cred.until # 0 => abs <= cred.until
      /\ ~cred.renewable /\ cred.access # 0 => abs <= cred.access
  BY <1>1 DEF FamilyEnd, Bounded, Lesser, Credential, NoCredential
<1>3. end \in Nat /\ end <= abs
  BY <1>2 DEF TypeOK, Lesser
<1>4. /\ grant' = [NoGrant EXCEPT !.status = "live", !.kind = kind, !.cred = cred,
                                  !.key = IF kind = "email" THEN None ELSE t,
                                  !.idleExp = end, !.absExp = abs]
      /\ tokens' = [tokens EXCEPT ![t] = [state |-> "active", exp |-> end]]
      /\ grant.status = "none"
  BY DEF CreateGrant
<1>5. kind = "email" => cred = NoCredential
  OBVIOUS
<1> HIDE DEF cred, abs, end
<1>6. /\ grant'.status = "live" /\ grant'.kind = kind /\ grant'.cred = cred
      /\ grant'.key = (IF kind = "email" THEN None ELSE t)
      /\ grant'.idleExp = end /\ grant'.absExp = abs /\ grant'.started = FALSE
  BY <1>4 DEF NoGrant
<1>7. grant.cred.gen = 0 /\ \A u \in Tokens : tokens[u].state = "none"
  BY <1>4 DEF EmptyInv, NoGrant, NoCredential
<1> QED
  BY <1>1, <1>2, <1>3, <1>4, <1>5, <1>6, <1>7

\* Every step keeps the invariant of the rows.
LEMMA TokenStep ==
    ASSUME TypeOK, FreshInv, FenceInv, TokenInv, [Next]_vars
    PROVE  TokenInv'
<1>1. PathInv'
  BY PathStep DEF TokenInv
<1>2. CASE SameTerms
  <2>1. EmptyInv'
    BY <1>2 DEF SameTerms, EmptyInv, TokenInv
  <2>2. EmailInv'
    BY <1>2 DEF SameTerms, EmailInv, TokenInv, PathInv, Connected, At
  <2>3. OneCurrentToken'
    BY <1>2 DEF SameTerms, TokenInv, OneCurrentToken, Live
  <2> QED BY <1>1, <2>1, <2>2, <2>3 DEF TokenInv
<1>3. ASSUME NEW t \in Tokens, NEW kind \in {"connector", "email"}, NEW p \in Profiles,
             CreateGrant(t, kind, p)
      PROVE  TokenInv'
  <2>1. EmptyInv' /\ EmailInv'
    BY <1>3, CreateFacts DEF TokenInv, EmptyInv, EmailInv
  <2>2. /\ tokens'[t] = [state |-> "active", exp |-> grant'.idleExp]
        /\ \A u \in Tokens : u # t => tokens'[u].state = "none"
        /\ grant'.kind = "connector" => grant'.key = t
    BY <1>3, CreateFacts DEF TokenInv, TypeOK
  <2>3. OneCurrentToken'
    BY <2>2 DEF OneCurrentToken
  <2> QED BY <1>1, <2>1, <2>3 DEF TokenInv
<1>4. ASSUME NEW r \in Requests, NEW new \in Tokens, Rotates(r, new)
      PROVE  TokenInv'
  <2> DEFINE old == req[r].token
  <2>1. /\ Live /\ grant'.status = "live" /\ grant'.kind = grant.kind
        /\ old \in Tokens /\ Usable(Row(r)) /\ tokens[new].state = "none"
        /\ SpendAndIssue(old, new, grant'.idleExp)
        /\ grant.kind = "connector" => grant'.key = new
    BY <1>4, RotateFacts DEF TokenInv
  <2>2. tokens[old].state = "active"
    BY <2>1 DEF Usable, Row
  <2>3. \A u \in Tokens : tokens[u].state = "active" => u = old
    BY <2>1, <2>2 DEF TokenInv, OneCurrentToken
  <2>4. /\ tokens'[new] = [state |-> "active", exp |-> grant'.idleExp]
        /\ tokens'[old].state = "spent"
        /\ \A u \in Tokens : u # new /\ u # old => tokens'[u] = tokens[u]
    BY <2>1, <2>2 DEF SpendAndIssue, TypeOK, TokenRow
  <2>5. \A u \in Tokens : tokens'[u].state = "active" => u = new
    BY <2>3, <2>4
  <2>6. OneCurrentToken'
    BY <2>1, <2>4, <2>5 DEF OneCurrentToken
  <2>7. EmptyInv'
    BY <2>1 DEF EmptyInv
  <2>8. EmailInv'
    <3>1. CASE DirectRotate(r, new)
      BY <3>1 DEF DirectRotate, TokenInv, EmailInv, TypeOK, Grant
    <3>2. CASE Complete(r, new) \/ CompleteUnacknowledged(r, new)
      BY <2>1, <3>2 DEF Complete, CompleteUnacknowledged, At, TokenInv, PathInv, Connected, EmailInv
    <3> QED BY <1>4, <3>1, <3>2 DEF Rotates
  <2> QED BY <1>1, <2>6, <2>7, <2>8 DEF TokenInv
<1>5. CASE Cleanup
  <2>1. grant'.status = "deleted" /\ grant'.cred = NoCredential /\ ~grant'.started
    BY <1>5 DEF Cleanup, NoGrant
  <2> QED BY <1>1, <2>1 DEF TokenInv, EmptyInv, EmailInv, OneCurrentToken, Live
<1> QED
  BY <1>2, <1>3, <1>4, <1>5, NextTerms

\* However requests race, crash or replay tokens, a live family has exactly one
\* current token, and that token decrypts its credential (SpendAndIssue's
\* transaction in RotateRefreshToken and CompleteClaimedRefresh).
THEOREM OneCurrentTokenHolds == Spec => []OneCurrentToken
<1>1. Init => TokenInv
  BY DEF Init, TokenInv, PathInv, EmptyInv, EmailInv, OneCurrentToken, Live, NoGrant, Idle, Connected
<1>2. TypeOK /\ FreshInv /\ FenceInv /\ TokenInv /\ [Next]_vars => TokenInv'
  BY TokenStep
<1>3. TokenInv => OneCurrentToken
  BY DEF TokenInv
<1> QED
  BY <1>1, <1>2, <1>3, TypeCorrect, FenceInvariant, PTL DEF Spec

-----------------------------------------------------------------------------
(* Expiries.                                                                 *)
(*                                                                           *)
(* What a family's rows promise about time rests on expiries that a request  *)
(* computed earlier, from a row that may have changed since.                 *)

\* The places of a request that took the claim and may still complete.
Holding == {"claimed", "marking", "refreshing", "answered", "identity", "signed"}

\* The expiries a request carries are right for the moment it will use them.
Timely(r) ==
    /\ req[r].pc \in {"prepared", "direct"} =>
          /\ req[r].access <= clock + IdleTTL
          /\ Live /\ grant.kind = "email" => req[r].access <= grant.absExp
    /\ req[r].pc = "signed" =>
          /\ req[r].access <= clock + IdleTTL /\ req[r].access <= req[r].absolute
          /\ req[r].cred.access # 0 => req[r].access <= req[r].cred.access
          /\ req[r].cred.until # 0 => req[r].absolute <= req[r].cred.until
          /\ ~req[r].cred.renewable /\ req[r].cred.access # 0 => req[r].absolute <= req[r].cred.access
    /\ Live /\ grant.claim = r /\ req[r].pc \in Holding => req[r].absolute <= grant.absExp

TimeInv == \A r \in Requests : Timely(r)

\* A family that stays live keeps its absolute expiry, unless the holder of the
\* claim completes and gives the claim up.
KeepsEnd ==
    Live' => /\ Live /\ grant'.kind = grant.kind
             /\ \/ grant'.absExp = grant.absExp
                \/ grant.kind = "connector" /\ grant'.claim = None

\* A request that does not move stays right while others do.
LEMMA OthersTimely ==
    ASSUME TypeOK, TypeOK', NEW s \in Requests, Timely(s), req'[s] = req[s], clock <= clock',
           KeepsEnd, Live' /\ grant'.claim = s => grant.claim = s
    PROVE  Timely(s)'
<1>1. req[s].access \in Nat /\ clock \in Nat /\ clock' \in Nat /\ IdleTTL \in Nat
  BY FamilyAssumption DEF TypeOK, Request
<1>2. s # None
  BY FamilyAssumption
<1> QED
  BY <1>1, <1>2 DEF Timely, KeepsEnd

\* What the steps of a request do with the end of the family and with the claim.
LEMMA StepKeepsEnd ==
    ASSUME TypeOK, TokenInv, NEW r \in Requests, Step(r) \/ Abandon(r)
    PROVE  KeepsEnd /\ clock' = clock /\ grant'.claim \in {grant.claim, None, r}
<1>1. ASSUME SameTerms
      PROVE  KeepsEnd
  BY <1>1 DEF SameTerms, KeepsEnd, Live
<1>2. ASSUME NEW new \in Tokens, DirectRotate(r, new)
      PROVE  KeepsEnd
  BY <1>2 DEF DirectRotate, Usable, Live, KeepsEnd, TypeOK, Grant
<1>3. ASSUME NEW new \in Tokens, Complete(r, new) \/ CompleteUnacknowledged(r, new)
      PROVE  KeepsEnd /\ grant'.claim = None
  <2>1. Live /\ grant.kind = "connector" /\ grant'.kind = grant.kind
    BY <1>3, RotateFacts DEF Rotates, TokenInv, PathInv, Connected, At, Complete, CompleteUnacknowledged
  <2>2. grant'.claim = None
    BY <1>3 DEF Complete, CompleteUnacknowledged, Commit, Unclaimed, TypeOK, Grant
  <2> QED BY <2>1, <2>2 DEF KeepsEnd
<1>4. KeepsEnd
  <2>1. CASE Step(r)
    BY <2>1, <1>1, <1>2, <1>3, StepTerms DEF Rotates
  <2>2. CASE Abandon(r)
    BY <2>2 DEF Abandon, KeepsEnd, Live
  <2> QED BY <2>1, <2>2
<1>5. clock' = clock
  BY DEF Step, Abandon, RefuseClient, AnswerRefused, Prepare, RevokeReplayed, DenyPolicy,
         AllowPolicy, DirectRotate, DirectReplay, DirectReject, ClaimReplay, ClaimFenced,
         ClaimGranted, ClaimRejected, Decide, MarkStarted, ProviderAnswers, ReceiveAnswer,
         RefreshRefused, RefreshFails, RenewQuietly, IdentityUnauthorized,
         IdentityUnavailable, IdentityMismatch, IdentityAccepted, Complete,
         CompleteUnacknowledged, CompleteFails, RevokeGrant, ReleaseClaim, AbortUpstreamRefresh
<1>6. grant'.claim \in {grant.claim, None, r}
  <2>1. CASE grant' = grant
    BY <2>1
  <2>2. CASE RevokeReplayed(r) \/ DirectReplay(r) \/ ClaimReplay(r) \/ RevokeGrant(r)
             \/ ReleaseClaim(r) \/ AbortUpstreamRefresh(r)
    BY <2>2 DEF RevokeReplayed, DirectReplay, ClaimReplay, RevokeGrant, ReleaseClaim,
                AbortUpstreamRefresh, Revoked, Unclaimed, TypeOK, Grant
  <2>3. CASE ClaimFenced(r) \/ ClaimGranted(r) \/ MarkStarted(r)
    BY <2>3 DEF ClaimFenced, ClaimGranted, MarkStarted, Revoked, TypeOK, Grant
  <2>4. CASE \E new \in Tokens : DirectRotate(r, new)
    BY <2>4 DEF DirectRotate, TypeOK, Grant
  <2> QED
    BY <1>3, <2>1, <2>2, <2>3, <2>4
       DEF Step, Abandon, RefuseClient, AnswerRefused, Prepare, DenyPolicy, AllowPolicy,
           DirectReject, ClaimRejected, Decide, ProviderAnswers, ReceiveAnswer, RefreshRefused,
           RefreshFails, RenewQuietly, IdentityUnauthorized, IdentityUnavailable,
           IdentityMismatch, IdentityAccepted, CompleteFails
<1> QED BY <1>4, <1>5, <1>6

\* The expiries that a request computes are right when it computes them.
LEMMA OwnTimely ==
    ASSUME TypeOK, TypeOK', TokenInv, NEW r \in Requests, Timely(r), Step(r) \/ Abandon(r)
    PROVE  Timely(r)'
<1> USE FamilyAssumption DEF At
<1>1. KeepsEnd /\ clock' = clock /\ r # None
  BY StepKeepsEnd
<1>2. CASE req'[r].pc \notin {"prepared", "direct"} \cup Holding
  BY <1>2 DEF Timely, Holding
<1>3. CASE Return(r)
  BY <1>2, <1>3 DEF Return, Idle, TypeOK, Holding
<1>4. ASSUME NEW l \in Location, l \notin {"prepared", "direct"} \cup Holding, Goto(r, l)
      PROVE  Timely(r)'
  BY <1>2, <1>4 DEF Goto, TypeOK
<1>5. ASSUME NEW l \in Holding \ {"claimed", "signed"}, req'[r].pc = l, req[r].pc \in Holding,
             req'[r].absolute = req[r].absolute,
             grant'.claim = grant.claim
      PROVE  Timely(r)'
  BY <1>1, <1>5 DEF Timely, Holding, KeepsEnd
<1>6. CASE Prepare(r)
  <2>1. CASE /\ req' = [req EXCEPT ![r].pc = "prepared",
                     ![r].access = Lesser(clock + AccessTTL, Lesser(clock + IdleTTL, grant.absExp)),
                     ![r].expiry = Lesser(clock + IdleTTL, grant.absExp)]
    <3>1. clock + IdleTTL \in Nat /\ clock + AccessTTL \in Nat /\ grant.absExp \in Nat
      BY DEF TypeOK, Grant
    <3>2. /\ req'[r].pc = "prepared"
          /\ req'[r].access = Lesser(clock + AccessTTL, Lesser(clock + IdleTTL, grant.absExp))
      BY <2>1 DEF TypeOK, Request
    <3>3. req'[r].access <= clock + IdleTTL /\ req'[r].access <= grant.absExp
      BY <3>1, <3>2 DEF Lesser
    <3>4. grant' = grant
      BY <1>6 DEF Prepare
    <3> QED BY <1>1, <3>2, <3>3, <3>4 DEF Timely, Holding
  <2> QED BY <1>3, <1>4, <1>6, <2>1 DEF Prepare, Location, Holding
<1>7. CASE AllowPolicy(r)
  <2>1. /\ req[r].pc = "prepared" /\ grant' = grant /\ req'[r].pc \in {"direct", "claiming"}
        /\ req'[r].access = req[r].access
    BY <1>7 DEF AllowPolicy, Goto, TypeOK, Request
  <2> QED BY <1>1, <1>2, <2>1 DEF Timely, Holding, Live
<1>8. CASE ClaimGranted(r)
  <2>1. /\ req'[r].pc \in {"claimed", "revoking"} /\ req'[r].absolute = grant.absExp
        /\ grant'.absExp = grant.absExp /\ grant.absExp \in Nat
    BY <1>8 DEF ClaimGranted, TypeOK, Request, Grant
  <2> QED BY <1>1, <2>1 DEF Timely, Holding
<1>9. CASE Decide(r) \/ ReceiveAnswer(r) \/ IdentityUnauthorized(r)
  <2>1. PICK l \in {"marking", "identity", "revoking"} : Goto(r, l)
    BY <1>9 DEF Decide, ReceiveAnswer, IdentityUnauthorized
  <2>2. grant' = grant /\ req[r].pc \in Holding
    BY <1>9 DEF Decide, ReceiveAnswer, IdentityUnauthorized, Holding
  <2>3. CASE l = "revoking"
    BY <1>4, <2>1, <2>3 DEF Location, Holding
  <2>4. CASE l \in {"marking", "identity"}
    <3>1. req'[r].pc = l /\ req'[r].absolute = req[r].absolute
      BY <2>1 DEF Goto, TypeOK, Request
    <3> QED BY <1>5, <2>2, <2>4, <3>1 DEF Holding
  <2> QED BY <2>3, <2>4
<1>10. CASE MarkStarted(r)
  <2>1. CASE req' = [req EXCEPT ![r].pc = "refreshing", ![r].begun = TRUE]
             /\ grant' = [grant EXCEPT !.started = TRUE]
    <3>1. req'[r].pc = "refreshing" /\ req'[r].absolute = req[r].absolute
          /\ grant'.claim = grant.claim /\ req[r].pc = "marking"
      BY <1>10, <2>1 DEF MarkStarted, TypeOK, Request, Grant
    <3> QED BY <1>5, <3>1 DEF Holding
  <2> QED BY <1>4, <1>10, <2>1 DEF MarkStarted, Location, Holding
<1>11. ASSUME NEW p \in Profiles, NEW rotates \in BOOLEAN, ProviderAnswers(r, p, rotates)
       PROVE  Timely(r)'
  <2>1. /\ req'[r].pc = "answered" /\ req'[r].absolute = req[r].absolute
        /\ grant' = grant /\ req[r].pc = "refreshing"
    BY <1>11 DEF ProviderAnswers, TypeOK, Request
  <2> QED BY <1>5, <2>1 DEF Holding
<1>12. CASE IdentityAccepted(r)
  <2> DEFINE c   == req[r].cred
             abs == FamilyEnd(c, req[r].absolute)
             end == Lesser(clock + IdleTTL, abs)
             acc == Bounded(Lesser(clock + AccessTTL, end), c.access)
  <2>1. /\ c \in Credential /\ req[r].absolute \in Nat /\ c.access \in Nat
        /\ clock + IdleTTL \in Nat /\ clock + AccessTTL \in Nat
    BY DEF TypeOK, Request, Credential
  <2>2. /\ abs \in Nat /\ abs <= req[r].absolute
        /\ c.until # 0 => abs <= c.until
        /\ ~c.renewable /\ c.access # 0 => abs <= c.access
    BY <2>1 DEF FamilyEnd, Bounded, Lesser, Credential
  <2>3. end \in Nat /\ end <= abs /\ end <= clock + IdleTTL
    <3> HIDE DEF abs
    <3> QED BY <2>1, <2>2, LesserBounds, LesserType
  <2>4. acc <= end /\ (c.access # 0 => acc <= c.access) /\ acc \in Nat
    <3> HIDE DEF end, c
    <3> QED BY <2>1, <2>3 DEF Bounded, Lesser
  <2>5. \/ req' = [req EXCEPT ![r].pc = "signed", ![r].access = acc,
                              ![r].expiry = end, ![r].absolute = abs]
        \/ Goto(r, "revoking")
    BY <1>12 DEF IdentityAccepted
  <2>6. grant' = grant /\ req[r].pc = "identity"
    BY <1>12 DEF IdentityAccepted
  <2> HIDE DEF abs, end, acc
  <2>7. CASE req' = [req EXCEPT ![r].pc = "signed", ![r].access = acc,
                                ![r].expiry = end, ![r].absolute = abs]
    <3>1. /\ req'[r].pc = "signed" /\ req'[r].access = acc /\ req'[r].absolute = abs
          /\ req'[r].cred = req[r].cred
      BY <2>7 DEF TypeOK, Request
    <3>2. acc <= abs /\ acc <= clock + IdleTTL
      BY <2>1, <2>2, <2>3, <2>4
    <3>3. Live /\ grant.claim = r => abs <= grant.absExp
      <4>1. Live /\ grant.claim = r => req[r].absolute <= grant.absExp
        BY <2>6 DEF Timely, Holding
      <4>2. grant.absExp \in Nat
        BY DEF TypeOK, Grant
      <4> QED BY <2>1, <2>2, <4>1, <4>2
    <3> QED BY <1>1, <2>2, <2>4, <2>6, <3>1, <3>2, <3>3 DEF Timely, Holding, Live
  <2> QED BY <1>4, <2>5, <2>7 DEF Location, Holding
<1>13. CASE \/ RefuseClient(r) \/ DenyPolicy(r) \/ RefreshRefused(r) \/ RefreshFails(r)
            \/ IdentityUnavailable(r) \/ IdentityMismatch(r) \/ CompleteFails(r)
            \/ \E new \in Tokens : CompleteUnacknowledged(r, new)
  BY <1>4, <1>13 DEF RefuseClient, DenyPolicy, RefreshRefused, RefreshFails, IdentityUnavailable,
        IdentityMismatch, CompleteFails, CompleteUnacknowledged, GiveUp, Location, Holding
<1>14. CASE RenewQuietly(r)
  BY <1>14 DEF RenewQuietly, Timely, Live
<1> QED
  BY <1>3, <1>6, <1>7, <1>8, <1>9, <1>10, <1>11, <1>12, <1>13, <1>14
     DEF Step, Abandon, AnswerRefused, RevokeReplayed, DirectRotate, DirectReplay, DirectReject,
         ClaimReplay, ClaimFenced, ClaimRejected, Complete, RevokeGrant, ReleaseClaim,
         AbortUpstreamRefresh

\* Every step keeps the expiries right.
LEMMA TimeStep ==
    ASSUME TypeOK, TypeOK', FreshInv, TokenInv, TimeInv, [Next]_vars
    PROVE  TimeInv'
<1>1. ASSUME NEW t \in Tokens, NEW kind \in {"connector", "email"}, NEW p \in Profiles,
             CreateGrant(t, kind, p)
      PROVE  TimeInv'
  BY <1>1 DEF CreateGrant, FreshInv, TimeInv, Timely, Holding
<1>2. ASSUME NEW r \in Requests, NEW t \in Tokens, Inspect(r, t)
      PROVE  TimeInv'
  <2>1. /\ req'[r].pc = "inspected" /\ \A s \in Requests : s # r => req'[s] = req[s]
        /\ grant' = grant /\ clock' = clock
    BY <1>2 DEF Inspect, TypeOK, Idle
  <2> QED BY <2>1 DEF TimeInv, Timely, Holding, Live
<1>3. ASSUME NEW r \in Requests, Step(r) \/ Abandon(r)
      PROVE  TimeInv'
  <2>1. KeepsEnd /\ clock' = clock /\ grant'.claim \in {grant.claim, None, r}
    BY <1>3, StepKeepsEnd
  <2>2. clock <= clock'
    BY <2>1 DEF TypeOK
  <2>3. ASSUME NEW s \in Requests, s # r
        PROVE  Timely(s)'
    <3>1. req'[s] = req[s]
      BY <1>3, <2>3, StepPath
    <3>2. grant'.claim = s => grant.claim = s
      BY <2>1, <2>3, FamilyAssumption
    <3> QED BY <2>1, <2>2, <3>1, <3>2, OthersTimely DEF TimeInv
  <2>4. Timely(r)'
    BY <1>3, OwnTimely DEF TimeInv
  <2> QED BY <2>3, <2>4 DEF TimeInv
<1>4. CASE StrayCall \/ RevokeCredential \/ Cleanup \/ Tick \/ UNCHANGED vars
  <2>1. req' = req /\ clock <= clock'
    BY <1>4 DEF StrayCall, RevokeCredential, Cleanup, Tick, vars, TypeOK
  <2>2. KeepsEnd /\ (Live' => grant'.claim = grant.claim)
    BY <1>4 DEF StrayCall, RevokeCredential, Cleanup, Tick, vars, KeepsEnd, Live, Revoked, NoGrant,
                TypeOK, Grant
  <2> QED BY <2>1, <2>2, OthersTimely DEF TimeInv
<1> QED
  BY <1>1, <1>2, <1>3, <1>4 DEF Next

\* Every step keeps the order of the expiries.
LEMMA OrderStep ==
    ASSUME TypeOK, TypeOK', TokenInv, TimeInv, ExpiryOrder, [Next]_vars
    PROVE  ExpiryOrder'
<1>1. CASE SameTerms
  BY <1>1 DEF SameTerms, ExpiryOrder, Live
<1>2. ASSUME NEW t \in Tokens, NEW kind \in {"connector", "email"}, NEW p \in Profiles,
             CreateGrant(t, kind, p)
      PROVE  ExpiryOrder'
  BY <1>2, CreateFacts DEF TokenInv, ExpiryOrder
<1>3. ASSUME NEW r \in Requests, NEW new \in Tokens, Rotates(r, new)
      PROVE  ExpiryOrder'
  <2>1. /\ Live /\ grant'.idleExp <= grant'.absExp /\ grant'.absExp <= grant.absExp
        /\ grant'.absExp \in Nat /\ grant.absExp \in Nat /\ AbsoluteTTL \in Nat
    BY <1>3, RotateFacts, FamilyAssumption DEF TokenInv, TypeOK, Grant
  <2>2. grant'.absExp <= AbsoluteTTL
    BY <2>1 DEF ExpiryOrder
  <2>3. CASE DirectRotate(r, new)
    <3>1. grant'.cred = NoCredential
      BY <2>3 DEF DirectRotate, At, TokenInv, PathInv, EmailInv, TypeOK, Grant
    <3> QED BY <2>1, <2>2, <3>1 DEF ExpiryOrder, NoCredential
  <2>4. CASE Complete(r, new) \/ CompleteUnacknowledged(r, new)
    <3> DEFINE abs == Lesser(req[r].absolute, grant.absExp)
               c == req[r].cred
    <3>1. /\ req[r].pc = "signed"
          /\ grant' = [Unclaimed(grant) EXCEPT !.cred = req[r].cred, !.key = new, !.absExp = abs,
                                               !.idleExp = Lesser(clock + IdleTTL, abs)]
      BY <2>4 DEF Complete, CompleteUnacknowledged, Commit, At
    <3>2. c \in Credential /\ req[r].absolute \in Nat /\ c.until \in Nat /\ c.access \in Nat
      BY DEF TypeOK, Request, Credential
    <3>3. grant'.cred = c /\ grant'.absExp = abs
      BY <3>1 DEF TypeOK, Grant, Unclaimed
    <3>4. abs <= req[r].absolute
      BY <2>1, <3>2, LesserBounds
    <3>5. /\ c.until # 0 => req[r].absolute <= c.until
          /\ ~c.renewable /\ c.access # 0 => req[r].absolute <= c.access
      BY <3>1 DEF TimeInv, Timely
    <3> HIDE DEF abs, c
    <3>6. /\ c.until # 0 => abs <= c.until
          /\ ~c.renewable /\ c.access # 0 => abs <= c.access
      BY <2>1, <3>2, <3>3, <3>4, <3>5
    <3> QED BY <2>1, <2>2, <3>3, <3>6 DEF ExpiryOrder
  <2> QED BY <1>3, <2>3, <2>4 DEF Rotates
<1>4. CASE Cleanup
  BY <1>4 DEF Cleanup, NoGrant, ExpiryOrder, Live
<1> QED
  BY <1>1, <1>2, <1>3, <1>4, NextTerms

\* The invariants of the rows and of the expiries hold in every behaviour.
THEOREM RowsInvariant == Spec => [](TokenInv /\ TimeInv /\ ExpiryOrder)
<1>1. Init => TokenInv /\ TimeInv /\ ExpiryOrder
  BY DEF Init, TokenInv, PathInv, EmptyInv, EmailInv, OneCurrentToken, TimeInv, Timely, ExpiryOrder,
         Live, NoGrant, Idle, Connected, Holding
<1>2. TypeOK /\ TypeOK' /\ FreshInv /\ FenceInv /\ TokenInv /\ TimeInv /\ ExpiryOrder /\ [Next]_vars
        => (TokenInv /\ TimeInv /\ ExpiryOrder)'
  BY TokenStep, TimeStep, OrderStep
<1> QED
  BY <1>1, <1>2, TypeCorrect, FenceInvariant, PTL DEF Spec

\* A family never outlives its absolute expiry nor the upstream credential it
\* rests on (FamilyEnd as exchangeCode and connector() apply it).
THEOREM ExpiryOrderHolds == Spec => []ExpiryOrder
BY RowsInvariant, PTL

\* Using a family never moves its absolute expiry later (CompleteClaimedRefresh).
THEOREM AbsoluteNeverExtendsHolds == Spec => AbsoluteNeverExtends
<1>1. TypeOK /\ TokenInv /\ [Next]_vars => [Live /\ Live' => grant'.absExp <= grant.absExp]_vars
  <2> SUFFICES ASSUME TypeOK, TokenInv, [Next]_vars, Live, Live'
               PROVE  grant'.absExp <= grant.absExp
    OBVIOUS
  <2>1. grant.absExp <= grant.absExp
    BY DEF TypeOK, Grant
  <2> QED
    BY <2>1, NextTerms, RotateFacts DEF SameTerms, CreateGrant, Cleanup, NoGrant, Live, TokenInv
<1> QED
  BY <1>1, TypeCorrect, RowsInvariant, PTL DEF Spec, AbsoluteNeverExtends

\* A token is issued only at the creation or in exchange for the current token
\* of a family that is live and unexpired at that moment.
THEOREM IssueFromLiveOnlyHolds == Spec => IssueFromLiveOnly
<1> DEFINE Issue ==
      \A t \in Tokens : tokens[t].state # "active" /\ tokens'[t].state = "active" =>
          \/ grant.status = "none"
          \/ /\ Live /\ Live' /\ clock < grant.idleExp /\ clock < grant.absExp
             /\ \E u \in Tokens : tokens[u].state = "active" /\ tokens'[u].state = "spent"
<1>1. TypeOK /\ TokenInv /\ [Next]_vars => [Issue]_vars
  <2> SUFFICES ASSUME TypeOK, TokenInv, [Next]_vars
               PROVE  Issue
    OBVIOUS
  <2>1. CASE SameTerms \/ Cleanup
    BY <2>1 DEF SameTerms, Cleanup
  <2>2. CASE \E t \in Tokens, kind \in {"connector", "email"}, p \in Profiles : CreateGrant(t, kind, p)
    BY <2>2 DEF CreateGrant
  <2>3. ASSUME NEW r \in Requests, NEW new \in Tokens, Rotates(r, new)
        PROVE  Issue
    <3> DEFINE old == req[r].token
    <3>1. /\ Live /\ grant'.status = "live" /\ old \in Tokens /\ Usable(Row(r))
          /\ tokens[new].state = "none" /\ SpendAndIssue(old, new, grant'.idleExp)
      BY <2>3, RotateFacts DEF TokenInv
    <3>2. tokens[old].state = "active" /\ clock < grant.idleExp /\ clock < grant.absExp
      BY <3>1 DEF Usable, Row, Unexpired
    <3>3. tokens'[old].state = "spent"
      BY <3>1, <3>2 DEF SpendAndIssue, TypeOK, TokenRow
    <3> QED BY <3>1, <3>2, <3>3 DEF Live
  <2> QED BY <2>1, <2>2, <2>3, NextTerms
<1> QED
  BY <1>1, TypeCorrect, RowsInvariant, PTL DEF Spec, IssueFromLiveOnly

\* The access token handed out ends no later than the refresh token issued with
\* it, the family, and the upstream access token behind it.
THEOREM IssuedWithinFamilyHolds == Spec => IssuedWithinFamily
<1> DEFINE Within(r) ==
             /\ clock < req[r].access
             /\ req[r].access <= grant'.idleExp /\ req[r].access <= grant'.absExp
             /\ grant'.cred.access # 0 => req[r].access <= grant'.cred.access
           Handed(r) == req[r].pc \in {"direct", "signed"} /\ tokens' # tokens
                          /\ req' # req /\ req'[r].pc = "idle" /\ Live'
<1>1. TypeOK /\ TokenInv /\ TimeInv /\ [Next]_vars
        => [\A r \in Requests : Handed(r) => Within(r)]_vars
  <2> SUFFICES ASSUME TypeOK, TokenInv, TimeInv, [Next]_vars, NEW r \in Requests, Handed(r)
               PROVE  Within(r)
    OBVIOUS
  <2>0. /\ clock + IdleTTL \in Nat /\ grant.absExp \in Nat
        /\ req[r].access \in Nat /\ req[r].absolute \in Nat /\ clock \in Nat
    BY FamilyAssumption DEF TypeOK, Grant, Request
  <2>1. PICK s \in Requests, new \in Tokens : Rotates(s, new)
    BY NextTerms DEF SameTerms, CreateGrant, Cleanup, NoGrant, Live
  <2>2. Step(s)
    BY <2>1 DEF Step, Rotates
  <2>3. s = r
    BY <2>2, StepPath
  <2>4. CASE DirectRotate(r, new)
    <3> DEFINE end == Lesser(clock + IdleTTL, grant.absExp)
    <3>1. /\ req[r].pc = "direct" /\ clock < req[r].access /\ Live /\ grant.kind = "email"
      BY <2>0, <2>4 DEF DirectRotate, At, Usable, TokenInv, PathInv
    <3>2. req[r].access <= clock + IdleTTL /\ req[r].access <= grant.absExp
      BY <3>1 DEF TimeInv, Timely
    <3>3. req[r].access <= end
      BY <2>0, <3>2 DEF Lesser
    <3>4. grant'.idleExp = end /\ grant'.absExp = grant.absExp /\ grant'.cred = NoCredential
      BY <2>4, <3>1 DEF DirectRotate, TypeOK, Grant, TokenInv, EmailInv
    <3> QED BY <3>1, <3>2, <3>3, <3>4 DEF NoCredential
  <2>5. CASE Complete(r, new)
    <3> DEFINE abs == Lesser(req[r].absolute, grant.absExp)
               end == Lesser(clock + IdleTTL, abs)
    <3>1. /\ req[r].pc = "signed" /\ clock < req[r].access /\ Live /\ grant.claim = r
          /\ grant' = [Unclaimed(grant) EXCEPT !.cred = req[r].cred, !.key = new,
                                               !.absExp = abs, !.idleExp = end]
      BY <2>0, <2>5 DEF Complete, Completable, Commit, At, Usable
    <3>2. /\ req[r].access <= clock + IdleTTL /\ req[r].access <= req[r].absolute
          /\ req[r].absolute <= grant.absExp
          /\ req[r].cred.access # 0 => req[r].access <= req[r].cred.access
      BY <3>1 DEF TimeInv, Timely, Holding
    <3>3. abs = req[r].absolute
      BY <3>2 DEF Lesser
    <3>4. req[r].access <= end
      BY <2>0, <3>2, <3>3 DEF Lesser
    <3> HIDE DEF abs, end
    <3>5. grant'.idleExp = end /\ grant'.absExp = abs /\ grant'.cred = req[r].cred
      BY <3>1 DEF TypeOK, Grant, Unclaimed
    <3> QED BY <3>1, <3>2, <3>3, <3>4, <3>5
  <2>6. CASE CompleteUnacknowledged(r, new)
    BY <2>6 DEF CompleteUnacknowledged, GiveUp, Goto, TypeOK
  <2> QED BY <2>1, <2>3, <2>4, <2>5, <2>6 DEF Rotates
<1> QED
  BY <1>1, TypeCorrect, RowsInvariant, PTL DEF Spec, IssuedWithinFamily

-----------------------------------------------------------------------------
(* The refinement of the ledger: every step of a family is a step of its     *)
(* ledger or leaves the ledger alone.                                        *)

\* The rows that the ledger sees, in a state of each phase.
LEMMA PhaseIs ==
    ASSUME TypeOK
    PROVE  /\ grant.status = "live" /\ grant.started => LedgerPhase = "rotating"
           /\ grant.status = "live" /\ ~grant.started => LedgerPhase = "live"
           /\ grant.status = "revoked" => LedgerPhase = "ended"
           /\ grant.status = "deleted" => LedgerPhase = "purged"
           /\ grant.status = "none" => LedgerPhase = "none"
BY DEF LedgerPhase, TypeOK, Grant

\* A step that leaves the tokens, the stored generation, the provider and the
\* phase alone is none of the ledger's.
LEMMA LedgerStutter ==
    ASSUME tokens' = tokens, grant'.cred = grant.cred, provider'.gen = provider.gen,
           LedgerPhase' = LedgerPhase
    PROVE  UNCHANGED Ledger!ledgerVars
BY DEF Ledger!ledgerVars, InState

\* A step that only ends the family.
LEMMA LedgerEnd ==
    ASSUME TypeOK, TypeOK', tokens' = tokens, grant'.cred = grant.cred, provider'.gen = provider.gen,
           Live, grant'.status = "revoked"
    PROVE  Ledger!Next
<1>1. LedgerPhase \in {"live", "rotating"} /\ LedgerPhase' = "ended"
  BY PhaseIs DEF Live, LedgerPhase, TypeOK, Grant
<1> QED BY <1>1 DEF Ledger!Next, Ledger!End, Ledger!Open, InState

\* A rotation is an exchange of the ledger's current token.
LEMMA LedgerExchange ==
    ASSUME AnswersSoon, TypeOK, TypeOK', FenceInv, TokenInv,
           NEW r \in Requests, NEW new \in Tokens, Rotates(r, new)
    PROVE  Ledger!Next
<1> DEFINE old == req[r].token
<1>1. /\ Live /\ grant'.status = "live" /\ old \in Tokens /\ Usable(Row(r))
      /\ tokens[new].state = "none" /\ SpendAndIssue(old, new, grant'.idleExp)
  BY RotateFacts DEF TokenInv
<1>2. tokens[old].state = "active" /\ \A u \in Tokens : tokens[u].state = "active" => u = old
  BY <1>1 DEF Usable, Row, TokenInv, OneCurrentToken
<1>3. /\ tokens'[new].state = "active" /\ tokens'[old].state = "spent" /\ new # old
      /\ \A u \in Tokens : u # new /\ u # old => tokens'[u] = tokens[u]
  BY <1>1, <1>2 DEF SpendAndIssue, TypeOK, TokenRow
<1>4. InState("active") = {old} /\ InState("active")' = {new}
      /\ InState("spent")' = InState("spent") \cup {old} /\ new \notin InState("spent")
  BY <1>1, <1>2, <1>3 DEF InState
<1>5. grant'.cred.gen = provider.gen /\ ~grant'.started /\ provider' = provider
  <2>1. CASE DirectRotate(r, new)
    <3>1. /\ grant'.cred = grant.cred /\ grant'.started = grant.started /\ grant.kind = "email"
          /\ provider' = provider
      BY <2>1 DEF DirectRotate, At, TokenInv, PathInv, TypeOK, Grant
    <3>2. ~grant.started
      BY <3>1 DEF TokenInv, EmailInv
    <3> QED BY <1>1, <3>1, <3>2 DEF FenceInv, SyncInv
  <2>2. CASE Complete(r, new) \/ CompleteUnacknowledged(r, new)
    <3>1. /\ grant'.cred = req[r].cred /\ grant'.started = FALSE /\ provider' = provider
          /\ req[r].pc = "signed" /\ grant.claim = r
      BY <2>2 DEF Complete, CompleteUnacknowledged, Commit, Completable, At, Unclaimed, TypeOK, Grant
    <3>2. CASE req[r].begun
      BY <1>1, <3>1, <3>2 DEF FenceInv, GenerationInv, Rotating
    <3>3. CASE ~req[r].begun
      BY <1>1, <3>1, <3>3 DEF FenceInv, UnmarkedInv, SyncInv, Unmarked
    <3> QED BY <3>1, <3>2, <3>3
  <2> QED BY <2>1, <2>2 DEF Rotates
<1>6. LedgerPhase \in {"live", "rotating"} /\ LedgerPhase' = "live"
  BY <1>1, <1>5 DEF Live, LedgerPhase, TypeOK, Grant
<1>7. new \in Tokens \ (InState("active") \cup InState("spent"))
  BY <1>3, <1>4
<1>8. Ledger!Exchange
  BY <1>4, <1>5, <1>6, <1>7 DEF Ledger!Exchange, Ledger!Open
<1> QED
  BY <1>8 DEF Ledger!Next

\* The provider replaces the credential only of a family that declared it, or
\* of one that has ended.
LEMMA LedgerReplace ==
    ASSUME TypeOK, tokens' = tokens, grant' = grant, grant.status # "none", Live => grant.started,
           provider'.gen \in {provider.gen, provider.gen + 1}
    PROVE  [Ledger!Next]_(Ledger!ledgerVars)
<1>1. LedgerPhase \in {"rotating", "ended", "purged"} /\ LedgerPhase' = LedgerPhase
  BY PhaseIs DEF Live, LedgerPhase, TypeOK, Grant
<1>2. CASE provider'.gen = provider.gen
  BY <1>1, <1>2, LedgerStutter
<1>3. CASE provider'.gen = provider.gen + 1
  BY <1>1, <1>3 DEF Ledger!Next, Ledger!Replace, InState
<1> QED BY <1>2, <1>3

\* The steps of one request.
LEMMA LedgerRequestStep ==
    ASSUME AnswersSoon, TypeOK, TypeOK', FreshInv, LookupInv, FenceInv, TokenInv,
           NEW r \in Requests, Step(r) \/ Abandon(r)
    PROVE  [Ledger!Next]_(Ledger!ledgerVars)
<1> USE DEF At
<1>0. grant.status # "none"
  BY StepPath DEF FreshInv
<1>1. CASE grant' = grant /\ tokens' = tokens /\ provider'.gen = provider.gen
  <2>1. LedgerPhase' = LedgerPhase
    BY <1>1 DEF LedgerPhase
  <2> QED BY <1>1, <2>1, LedgerStutter
<1>2. CASE RevokeReplayed(r) \/ DirectReplay(r) \/ ClaimReplay(r) \/ RevokeGrant(r) \/ ClaimFenced(r)
  <2>1. tokens' = tokens /\ provider' = provider
    BY <1>2 DEF RevokeReplayed, DirectReplay, ClaimReplay, RevokeGrant, ClaimFenced
  <2>2. CASE Live
    <3>1. \/ grant' = grant
          \/ grant'.status = "revoked" /\ grant'.cred = grant.cred
      BY <1>2, <2>2 DEF RevokeReplayed, DirectReplay, ClaimReplay, RevokeGrant, ClaimFenced,
                        Revoked, Unclaimed, Live, TypeOK, Grant
    <3> QED BY <1>1, <2>1, <2>2, <3>1, LedgerEnd
  <2>3. CASE ~Live
    <3>1. grant' = grant
      BY <1>2, <2>3 DEF RevokeReplayed, DirectReplay, ClaimReplay, RevokeGrant, ClaimFenced,
                        Usable, Revoked, Live
    <3> QED BY <1>1, <2>1, <3>1
  <2> QED BY <2>2, <2>3
<1>3. CASE ClaimGranted(r)
  <2>1. /\ grant'.status = grant.status /\ grant'.cred = grant.cred /\ grant'.started = FALSE
        /\ Live /\ tokens' = tokens /\ provider' = provider
    BY <1>3 DEF ClaimGranted, Usable, TypeOK, Grant
  <2>2. ~grant.started
    BY <1>3, <2>1 DEF ClaimGranted, Claimed, FenceInv, MarkClaimedInv
  <2>3. LedgerPhase' = LedgerPhase
    BY <2>1, <2>2 DEF LedgerPhase, Live
  <2> QED BY <2>1, <2>3, LedgerStutter
<1>4. CASE MarkStarted(r)
  <2>1. CASE grant' = grant
    BY <1>1, <1>4, <2>1 DEF MarkStarted
  <2>2. CASE grant' # grant
    <3>1. /\ Live /\ grant.claim = r /\ grant' = [grant EXCEPT !.started = TRUE]
          /\ req[r].pc = "marking" /\ tokens' = tokens /\ provider' = provider
      BY <1>4, <2>2 DEF MarkStarted
    <3>2. ~grant.started
      BY <3>1 DEF FenceInv, UnmarkedInv, Unmarked
    <3>3. grant'.status = "live" /\ grant'.started = TRUE /\ grant'.cred = grant.cred
      BY <3>1 DEF TypeOK, Grant, Live
    <3>4. LedgerPhase = "live" /\ LedgerPhase' = "rotating"
      BY <3>1, <3>2, <3>3 DEF LedgerPhase, Live
    <3> QED BY <3>1, <3>3, <3>4 DEF Ledger!Next, Ledger!Declare, InState
  <2> QED BY <2>1, <2>2
<1>5. ASSUME NEW p \in Profiles, NEW rotates \in BOOLEAN, ProviderAnswers(r, p, rotates)
      PROVE  [Ledger!Next]_(Ledger!ledgerVars)
  <2>1. /\ grant' = grant /\ tokens' = tokens /\ req[r].pc = "refreshing"
        /\ provider'.gen \in {provider.gen, provider.gen + 1}
    BY <1>5 DEF ProviderAnswers, TypeOK
  <2>2. Live => grant.started
    BY <2>1 DEF FenceInv, MarkedInv, Rotating
  <2> QED BY <1>0, <2>1, <2>2, LedgerReplace
<1>6. CASE ReleaseClaim(r)
  <2>1. CASE grant' = grant
    BY <1>1, <1>6, <2>1 DEF ReleaseClaim
  <2>2. CASE grant' = Unclaimed(grant) /\ ~grant.started
    <3>1. /\ grant'.status = grant.status /\ grant'.started = FALSE /\ grant'.cred = grant.cred
          /\ grant.started = FALSE
      BY <2>2 DEF Unclaimed, TypeOK, Grant
    <3>2. LedgerPhase' = LedgerPhase
      BY <3>1 DEF LedgerPhase
    <3> QED BY <1>6, <3>1, <3>2, LedgerStutter DEF ReleaseClaim
  <2> QED BY <1>6, <2>1, <2>2 DEF ReleaseClaim
<1>7. CASE AbortUpstreamRefresh(r)
  <2>1. CASE grant' = grant
    BY <1>1, <1>7, <2>1 DEF AbortUpstreamRefresh
  <2>2. CASE grant' = Unclaimed(grant) /\ Live
    <3>1. /\ grant'.status = "live" /\ grant'.started = FALSE /\ grant'.cred = grant.cred
          /\ tokens' = tokens /\ provider' = provider /\ req[r].pc = "aborting"
      BY <1>7, <2>2 DEF AbortUpstreamRefresh, Unclaimed, TypeOK, Grant, Live
    <3>2. grant.started /\ grant.cred.gen = provider.gen
      BY <2>2, <3>1 DEF FenceInv, MarkedInv, Rotating, GenerationInv
    <3>3. LedgerPhase = "rotating" /\ LedgerPhase' = "live"
      BY <2>2, <3>1, <3>2 DEF LedgerPhase, Live
    <3> QED BY <3>1, <3>2, <3>3 DEF Ledger!Next, Ledger!Withdraw, InState
  <2> QED BY <1>7, <2>1, <2>2 DEF AbortUpstreamRefresh
<1>8. CASE \E new \in Tokens : Rotates(r, new)
  BY <1>8, LedgerExchange
<1>9. CASE RefreshFails(r) \/ IdentityUnavailable(r) \/ Abandon(r)
  BY <1>1, <1>9 DEF RefreshFails, IdentityUnavailable, Abandon, TypeOK
<1>10. ~RenewQuietly(r)
  BY NoQuietRenewal DEF RenewQuietly
<1> QED
  BY <1>1, <1>2, <1>3, <1>4, <1>5, <1>6, <1>7, <1>8, <1>9, <1>10
     DEF Step, Rotates, RefuseClient, AnswerRefused, Prepare, DenyPolicy, AllowPolicy,
         DirectReject, ClaimRejected, Decide, ReceiveAnswer, RefreshRefused,
         IdentityUnauthorized, IdentityMismatch, IdentityAccepted, CompleteFails

\* The transactions of the store, the claims and the upstream calls together
\* implement the ledger when providers answer soon. (Otherwise the oauth2 client
\* of GetIdentity may replace the credential of a family that declared nothing.)
THEOREM LedgerImplemented ==
    ASSUME AnswersSoon
    PROVE  Spec => ImplementsLedger
<1>1. Init => Ledger!Init
  BY DEF Init, Ledger!Init, LedgerPhase, InState, NoGrant, NoCredential
<1>2. TypeOK /\ TypeOK' /\ FreshInv /\ LookupInv /\ FenceInv /\ TokenInv /\ [Next]_vars
        => [Ledger!Next]_(Ledger!ledgerVars)
  <2> SUFFICES ASSUME TypeOK, TypeOK', FreshInv, LookupInv, FenceInv, TokenInv, [Next]_vars
               PROVE  [Ledger!Next]_(Ledger!ledgerVars)
    OBVIOUS
  <2>1. ASSUME NEW t \in Tokens, NEW kind \in {"connector", "email"}, NEW p \in Profiles,
               CreateGrant(t, kind, p)
        PROVE  Ledger!Next
    <3>1. /\ grant.status = "none" /\ grant'.status = "live" /\ ~grant'.started
          /\ grant'.cred.gen = 0 /\ grant.cred.gen = 0
      BY <2>1, CreateFacts DEF TokenInv
    <3>0. provider' = provider
      BY <2>1, FamilyAssumption DEF CreateGrant, AnswersSoon, RenewsAtLogin, Profile
    <3>2. InState("spent") = {} /\ InState("spent")' = {} /\ InState("active")' = {t}
      BY <2>1, CreateFacts DEF TokenInv, InState, TypeOK
    <3>3. LedgerPhase = "none" /\ LedgerPhase' = "live"
      BY <3>1 DEF LedgerPhase
    <3> QED BY <3>0, <3>1, <3>2, <3>3 DEF Ledger!Next, Ledger!Start
  <2>2. CASE StrayCall
    <3>1. Live => grant.started
      BY <2>2 DEF StrayCall, FenceInv, SyncInv
    <3>2. grant.status # "none" /\ provider'.gen \in {provider.gen, provider.gen + 1}
      BY <2>2 DEF StrayCall, FreshInv
    <3> QED BY <2>2, <3>1, <3>2, LedgerReplace DEF StrayCall
  <2>3. CASE RevokeCredential
    <3>1. grant'.status = "revoked" /\ grant'.cred = grant.cred
      BY <2>3 DEF RevokeCredential, Revoked, Live, TypeOK, Grant
    <3> QED BY <2>3, <3>1, LedgerEnd DEF RevokeCredential
  <2>4. CASE Cleanup
    <3>1. grant'.status = "deleted" /\ grant'.cred.gen = 0
      BY <2>4 DEF Cleanup, NoGrant, NoCredential
    <3>2. InState("active")' = {} /\ InState("spent")' = {}
      BY <2>4 DEF Cleanup, InState
    <3>3. LedgerPhase \in {"live", "rotating", "ended"} /\ LedgerPhase' = "purged"
      BY <2>4, <3>1 DEF Cleanup, LedgerPhase
    <3> QED BY <2>4, <3>1, <3>2, <3>3 DEF Cleanup, Ledger!Next, Ledger!Purge, Ledger!Open
  <2>5. CASE Tick \/ (\E r \in Requests, t \in Tokens : Inspect(r, t)) \/ UNCHANGED vars
    <3>1. grant' = grant /\ tokens' = tokens /\ provider' = provider
      BY <2>5 DEF Tick, Inspect, vars
    <3>2. LedgerPhase' = LedgerPhase
      BY <3>1 DEF LedgerPhase
    <3> QED BY <3>1, <3>2, LedgerStutter
  <2> QED
    BY <2>1, <2>2, <2>3, <2>4, <2>5, LedgerRequestStep DEF Next
<1> QED
  BY <1>1, <1>2, TypeCorrect, FenceInvariant, RowsInvariant, PTL
     DEF Spec, ImplementsLedger, Ledger!Spec

=============================================================================
