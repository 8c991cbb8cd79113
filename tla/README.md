# Truster in TLA+

Truster is an OpenID Connect provider that signs users in through upstream
providers or email codes, hands their client signed tokens and refresh tokens,
and exchanges workload tokens. This directory holds TLA+ models of the parts of
it that are hard to test, TLC configurations that check them on small
instances, and TLAPS proofs of the properties that matter most. Paths below are
relative to the repository (`src/` here); `internal/` is left out of the shorter
ones.

    tlc -workers 2 -config MCRefreshFamily.cfg MCRefreshFamily
    tlapm RefreshFamilyProofs.tla

`PROJECT.json` lists every run, the lines each definition models, a mutant for
each property, the hazards the properties are aimed at, and the theorems.

## 1. Inventory

| part | state it keeps | operations | what is hard about it |
|---|---|---|---|
| refresh families (`statedb/refresh.go`, `refresh/service.go`, `statedb/revocation.go`) | `refresh_grants` and `refresh_tokens` rows: expiries, encrypted upstream credential, claim, mark, revocation | create, prepare, claim, mark, abort, release, complete, rotate directly, revoke, clean up | several requests, a provider that rotates its own refresh tokens, crashes and lost answers between store calls, claims that lapse |
| token endpoint (`oidc/handle_token.go`) | none | code exchange, refresh, token exchange | reads the grant twice around policy queries and a DPoP reservation |
| DPoP (`dpop/dpop.go`, `dpop/replay.go`) | a bounded map and heap of proof hashes per process | verify, reserve | readings of the clock taken outside the mutex, closed window, full cache |
| email codes (`statedb/otp.go`, `oidc/handle_email.go`) | `otp_challenges`, `otp_sends` rows | start, resend, verify, clean up | racing verifications, quota over rows that are cleaned up |
| authorization flow (`oidc/handle_authorize.go`, `handle_callback.go`, `handle_selector.go`, `handle_identity.go`, `state.go`, `authcode.go`, `handle_par.go`, `statedb/statedb.go`, `par.go`, `grants.go`) | state tokens, pushed requests, identity selections, codes, flow credentials | authorize, consent, select, callback, choose identity, complete, exchange | the browser can replay, reorder and race every page; single use of each token; a credential that follows the flow from state to code |
| self-service page (`oidc/handle_grants.go`, `statedb/grants.go`) | one-time action tokens | list, create actions, revoke, clean up | listing and storing are separate steps; grants change and are deleted meanwhile |
| client and user policy (`authpolicy/`) | LRU caches of clients and of compiled schemas, flights in progress | resolve cached, resolve fresh, compile | calls that share a flight; rows that change between queries; negative entries; eviction |
| workload trust (`trust/service.go`, `trustpolicy/`) | issuer cache with keys | load, forced reload, evict, verify, evaluate | a forced reload joins an unforced one or the other way round; throttling; several lookups for one decision |
| upstream connectors (`upstream/`) | none of their own | exchange, refresh, identity | which errors prove that nothing was rotated; the HTTP client refreshes on its own |
| state database (`statedb/sqlite.go`, `postgresql.go`, `postgresql_migrate.go`, `database.go`) | directory and file; migration metadata | open, migrate, probe, clean up, close | several processes and releases at once; jobs that die half way |
| commands (`cmd/serve.go`, `cmd/migrate.go`), TLS reload (`servertls/`) | the process, its goroutines; the serving certificate | start, reload, drain, close | order of opening and closing; two files replaced one after the other; requests that hang |
| configuration (`config/`) | the effective document | default, validate | what a sign-in needs is worked out by the loader, by serve and by the handlers; a restart in the middle of a sign-in |
| tokens and keys (`tokens/`), pages and mail (`templates/`, `email/`, `challenge/`), secrets, development server | keys | sign, render, send | little: sequential or pure |

Interactions. Browsers and clients call the handlers of `oidc/`. Handlers share
nothing in memory but the DPoP cache, the policy cache, the issuer cache and the
certificate; everything else they share is in the state database. A handler is
a series of store calls, policy queries and upstream calls, and between any two
of them another handler, another process, the background cleanup or a crash may
intervene. The store is what serialises: every method opens one transaction,
SQLite with `_txlock=immediate`, PostgreSQL locking the row (or the address)
first.

What makes each part correct is stated in its module; in a sentence each:

- a family has one current token, and its stored credential is one the provider
  still accepts, or the family is marked or over (of providers that answer soon,
  section 3);
- a family and everything issued from it end no later than sign-in time plus the
  absolute TTL and no later than the upstream credential behind it;
- a proof is used once within its acceptance window;
- a code is mailed within the quota, takes a bounded number of guesses and signs
  in once;
- an authorization request ends in at most one code and one sign-in, with the
  consent, the verified email and the upstream credential of that very flow;
- an answer from a cache or a shared flight is no older than its lifetime and
  the timeouts of what produced it;
- a workload token is exchanged under the one binding that admits it, verified with
  its own issuer's keys while it was current;
- only a refusal by the provider, a refresh whose outcome is in doubt, or a credential
  that is over, ends a family, and no rotation happens unrecorded while the provider
  answers soon;
- what the loader accepts is enough for every sign-in it offers;
- a rotated certificate is served eventually, a signal ends the process, and a
  replica serves the tables it was written for.

## 2. Plan

| step | modules | model | proofs |
|---|---|---|---|
| 1 | `RefreshLedger`, `RefreshFamily` | done | `RefreshFamilyProofs`: all invariants and action properties, the refinement |
| 2 | `ReplayCache`, `OTP`, `SelfService` | done | `OneTimeProofs`: all invariants and action properties |
| 3 | `AuthFlow` | done | `AuthFlowProofs`: all invariants and action properties |
| 4 | `LRU`, `ClientCache`, `IssuerKeys`, `TrustExchange` | done | `LRUProofs`, `PolicyProofs`: all invariants and action properties |
| 5 | `SchemaCache` | done | `SchemaCacheProofs` |
| 6 | `UpstreamClient`, `Configuration` | done | `ConnectorsProofs`: all invariants |
| 7 | `Serve`, `StateSchema`, `StatePath` | done | `LifecycleProofs`: all invariants |

Left: an abstract specification of one sign-in that `AuthFlow` implements, and one
of a once-only code that `OTP` implements; more of the state database and the policy
queries, which are modelled in part.

The runs. Components that share no state are checked side by side in one MC
module: a variable `part` says which of them moves in a behaviour, and the others
rest in an initial state. The runs stay few, and each covers one theme:

| run | module | components |
|---|---|---|
| `refresh`, `refresh_ends`, `refresh_denied` | `MCRefreshFamily` | `RefreshFamily`, `RefreshLedger` |
| `one_time` | `MCOneTime` | `ReplayCache`, `OTP`, `SelfService` |
| `replay_docs`, `otp_locked` | `ReplayCache`, `OTP` | the same, alone |
| `flow_once`, `flow_credentials` | `MCAuthFlow` | `AuthFlow` |
| `policy` | `MCPolicy` | `ClientCache`, `IssuerKeys`, `TrustExchange` |
| `connectors` | `MCConnectors` | `Configuration`, `UpstreamClient` |
| `upstream_quiet` | `UpstreamClient` | the same, alone |
| `lifecycle` | `MCLifecycle` | `Serve`, `StateSchema` |

`SchemaCache` and `StatePath` have no run: what is to be said of them is proved.

## 3. RefreshFamily

One row of `refresh_grants` (`grant`), its `refresh_tokens` rows (`tokens`), the
requests at the token endpoint (`req`: a program counter and the locals of
`HandleToken`, `Service.Exchange`, `direct` and `connector`), and what the upstream
provider thinks (`provider`: the generation of the refresh token it accepts, and
whether a call whose caller is gone may still arrive).

| action | code |
|---|---|
| `CreateGrant` | `exchangeCode`, `ConsumeAuthCode`, `insertRefreshGrant` |
| `Inspect`, `RefuseClient`, `AnswerRefused` | the refresh branch of `handle_token.go` |
| `Prepare`, `RevokeReplayed`, `DenyPolicy`, `AllowPolicy` | `Service.Exchange`, `PrepareRefresh` |
| `DirectRotate`, `DirectReplay`, `DirectReject` | `direct`, `RotateRefreshToken` |
| `ClaimReplay`, `ClaimFenced`, `ClaimGranted`, `ClaimRejected` | `claim`, `ClaimRefresh` |
| `Decide`, `MarkStarted`, `ProviderAnswers`, `ReceiveAnswer`, `RefreshRefused`, `RefreshFails`, `Identity…` | `connector`, `MarkUpstreamRefreshStarted`, the connector's calls |
| `Complete`, `CompleteUnacknowledged`, `CompleteFails` | `CompleteClaimedRefresh` |
| `RevokeGrant`, `ReleaseClaim`, `AbortUpstreamRefresh` | `revoke`, `ReleaseRefreshClaim`, `AbortUpstreamRefresh` |
| `Abandon`, `StrayCall` | crash, cancelled request; a call already on the wire |
| `RenewQuietly` | the renewal that the oauth2 client of `GetIdentity` makes by itself |
| `RevokeCredential`, `Cleanup`, `Tick` | revocation endpoint and grants page, background cleanup, time |

Abstractions. A token handle is an element of `Tokens`. Encryption of the
credential is the name of the token whose secret decrypts it (`grant.key`). The
claim identifier is the request that generated it. A provider is a `Profile`:
which lifetimes it states and whether the credential can be renewed. Policy
decisions, identity comparison and signing are nondeterministic choices among
the outcomes the code distinguishes. Families share no rows, so one is enough.

The renewal nobody asked for. `GetIdentity` is handed the whole OAuth token, and its
oauth2 client renews an access token that ends within `ExpiryDelta` (10 s) when a call
begins; the provider may rotate the refresh token, and the connector drops what came
back. `RenewQuietly` is that renewal during a refresh (`Renews` says when it can
happen), `CreateGrant` allows for it during the login's lookup (`RenewsAtLogin`), and
`IdentityUnavailable` and `Abandon` may leave one on the wire. It is neither marked nor
recorded, so of a slow provider a live, unmarked family can hold a credential the
provider has replaced: the finding `upstream_quiet` is such a behaviour in detail.
`CredentialFence`, the part of `OneUpstreamCaller` about stray calls, and
`ImplementsLedger` are therefore statements about providers that answer soon
(`AnswersSoon`): the last lookup call begins at most `Latency` after the claim, or after
the tokens were handed out at login, with `Latency + ExpiryDelta <= RenewWindow` (20, 10
and 30 seconds in the code, whose own deadline would allow 25), and stated lifetimes of
access tokens exceed the window. The other properties of the module need no such
condition.

`RefreshLedger` says what a family promises without requests, claims or time;
`ImplementsLedger` is the refinement.

Runs:

| run | question | instance | why it is enough |
|---|---|---|---|
| `refresh` | Do fence, single caller, single current token, issue from live families and the ledger survive any interleaving of two requests with crashes, lapses, lost answers, revocation and cleanup? Are expiries ordered, and is what is issued bounded by the family and by the upstream credential? | 2 requests, 3 tokens, claims of 2 ticks, `AnswersSoon` at its limit (window 2, delta and latency 1, access tokens of 3 ticks). While only one request is at work: five profiles (each combination of stated and unstated lifetimes the code treats differently), two upstream rotations, clock to 5. While two are (`RaceBound`): the renewing profile, one rotation, clock to 3, one short of the absolute expiry | a claim can lapse and be taken over, both tokens of a rotation can be presented, a stray call can arrive late; a third token allows a rotation after a rotation, with any profile following any other; the expiry of a family does not depend on who else is at work |
| `refresh_ends` | Does every request end without a crash ending it? | 2 requests, 2 tokens, the first of them t1, one profile of a slow provider, clock to 3, no symmetry | busy claims, renewal after a rejected access token, quiet renewals, both requests at once; tokens are interchangeable, so the first may be fixed |
| `refresh_denied` | Does a client denial revoke the family, as documented? | 1 request | violated: see findings |

Fairness (`FairSpec`, in the run `MCFairSpec`): weak fairness of each request's own steps. A handler is a
goroutine that runs unless the process dies; each of its waits has a deadline
(the busy loop in `claim`, the context of the upstream calls). Nothing is
assumed of clients, of the provider, or of the cleanup.

### Proofs (`RefreshFamilyProofs`)

For all sets of requests, tokens and profiles, all TTLs and bounds satisfying
`FamilyAssumption`:

- `TypeCorrect`: `Spec => []TypeOK`;
- `FenceHolds`: `Spec => []CredentialFence`, a property whose antecedent is `AnswersSoon`;
- `OneCaller`: `Spec => []OneUpstreamCaller`, with that antecedent for the stray calls;
- `OneCurrentTokenHolds`, `ExpiryOrderHolds`: the invariants about the token rows and
  about expiries;
- `AbsoluteNeverExtendsHolds`, `IssueFromLiveOnlyHolds`, `IssuedWithinFamilyHolds`: the
  action properties;
- `LedgerImplemented`: `AnswersSoon` as an assumption, `Spec => ImplementsLedger`, the
  refinement.

`CredentialFence` is not inductive: it says nothing of a row that is marked, and
the step that unmarks it needs to know that its owner holds the provider's
generation. `FenceInv` adds that a request let through to the provider still owns
the marked claim (`MarkedInv`; nobody can take over a marked claim, since
`ClaimRefresh` ends the family instead), that a mark is never without a claim
(`MarkClaimedInv`, otherwise `ClaimRefresh` would grant it afresh), that a holder
that did not mark has the stored credential (`UnmarkedInv`), that an abandoned
call never competes with a caller (`StrayInv`), and which generation each caller
knows (`GenerationInv`). The last two, and that the row agrees with the provider, hold
of providers that answer soon, because of `LookupInv`: the access token with which a
request looks an identity up ends later than the lookup's client would renew it, or not
at all (`NoQuietRenewal`). `FreshInv` says that nobody works on a family before it
exists. Steps after which the family is not live only have to keep the locals
right (`EndedStep`), which settles most actions.

`OneCurrentToken` needs to know that a request rotates the kind of family it was
sent to (`PathInv`), that rows are empty before the family exists (`EmptyInv`) and that
a direct-email family has no credential that could be left behind under an old
token (`EmailInv`); together they are `TokenInv`. The expiries of a row are written
from values that a request computed earlier, from a row that may have changed since.
`TimeInv` says that they are still right when they are used: what was computed is
bounded by the clock, by the credential it was computed from and, for the holder of
the claim, by the row's own absolute expiry, which therefore no completion extends.
The action properties follow from `RowsInvariant`, which puts the three together.

The refinement maps the row's status and mark to the ledger's phase (`LedgerPhase`)
and the token rows to its sets (`InState`). A rotation is the ledger's exchange
(`LedgerExchange` uses `OneCurrentToken` and the fence); a mark, its withdrawal,
an answer of the provider, an end and a deletion are ledger steps of their own; all
else stutters.

## 4. ReplayCache

`entries` and `expiries` are the map and the heap of `dpop/replay.go`; a request
verifies a proof with one reading of the clock (`Verify`), may take another
(`ReadClock`: token, userinfo and PAR do, revocation does not) and reserves
(`Accept`, `Reject`, both purging first). The clock only moves forward.

`one_time` (2 requests, 3 proofs, capacity 2, window of 3 ticks, clock to 4)
checks that no proof is accepted twice before its window closes. `replay_docs`
checks the documented, stronger claim and finds it violated at the last instant
of the window.

`OneTimeProofs` proves, for every capacity, window and number of requests and
from `CacheAssumption`, the types, that property (`ReplayRejected`), that heap and
map hold the same entries (`HeapFollowsMap`) and that the capacity is never
exceeded (`CapacityHolds`). The invariant
behind `ReplayRejected`: an accepted proof has an entry that ends no earlier than
its window (`RetainedInv`), because a reading used for a reservation is never
from the future and never earlier than the window's start (`ReadingInv`), so a
purge with it removes only entries that ended.

## 5. OTP

The rows of one address. `CreateOTP`, `ResendOTP`, `Redeem`/`CountWrong`/`Refuse`
are the transactions of `statedb/otp.go`; `Lookup` is `OTPFlow`, whose result and
reading of the clock the handler keeps until `ConsumeOTP`. `one_time` (2
verification requests, 2 challenges, quota 2, 2 attempts, 3 codes, an hour of 3
ticks, clock to 4) checks the quota over every rolling hour, the guesses per code
and single use. `otp_locked` checks what comments and documentation say of a
challenge whose attempts are used up, and finds it violated by a resend.

`OneTimeProofs` proves the three for all numbers of requests and challenges, quotas,
attempts and times satisfying `CodesAssumption`. `MailInv` has the types and that
codes are numbered as they are mailed.

- `HourlyQuotaHolds`: the handlers count the rows that are left, the property counts
  the mails that were sent. `QuotaInv` says that cleanup forgets no send of the last
  hour, so that the two counts agree, and bounds every hour that has ended too.
- `GuessesPerCodeHolds`, `SingleUseHolds`: `CodeInv` says that the row of a challenge
  holds the last code mailed for it and counts the guesses it was compared with
  (`RowInv`), that no other code is compared again (`GuessInv`), and that after a
  redemption the row is gone for good (`RedeemInv`).

## 6. AuthFlow

A flow is one authorization request. Handlers copy most of it from row to row
unchanged (client, redirect URI, PKCE challenge, nonce, scopes, purpose, DPoP
key): those fields are the flow's name and its `profile` (direct, pushed or
self-service; offline access or not; `prompt=create` or not). What handlers do
change is in the record `State`: token, connector, refresh mode, consent. There is
a variable for each table (`pushed`, `states`, `selections`, `otps`, `known` for
`upstream_credentials`, `credentials` for `flow_credentials`, `codes`), one for the
sign-ins completed (`redeemed`), and `req` for the requests in progress, whose
program counter says which store call comes next. `consented`, `proved`,
`asserted` and `callers` are history, read by properties only.

| action | code |
|---|---|
| `Push`, `Authorize`, `ConsumePushed` | `HandlePAR`; `HandleAuthorize`, `HandleGrants`; `handlePushedAuthorize` |
| `Encode` | `EncodeState`, `SaveState` |
| `Consent`, `Select`, `EmailStart`, `Discard` | `HandleConsent`, `HandleSelect` and `HandleAuthorizeContinue`, `HandleEmailStart`; the ways these handlers consume a state and stop |
| `Callback`, `SaveFlowCredential`, `GetIdentity` | `HandleCallback` up to the identity |
| `CreateIdentitySelection`, `ConsumeIdentitySelection`, `DecodeState` | `renderIdentitySelection`, `HandleIdentitySelect`, the consumption of the state |
| `CredentialVerified`, `SaveCredential`, `CreateOTP`, `ResendOTP`, `ConsumeOTP` | `acceptOrChallenge`, `beginOTP`, `HandleEmailResend`, `HandleEmailVerify` |
| `RenderGrants`, `Admit`, `LoadFlowCredential`, `GenerateCode`, `RelabelCredential` | `complete` |
| `PeekCode`, `LoadCodeCredential`, `ConsumeAuthCode` | `exchangeCode` |
| `Fail` | every error path after the first store call, and a crash there |
| `Cleanup…`, `Tick` | `cleanupExpiredAtContext`, `cleanupPARRequests` (whose batches of 500 rows are larger than any instance), time |

A browser may send any form with any token it was given, at any time, in any
order, twice at once. Tokens are numbered per flow, hence fresh; nobody guesses
one, and a code is known once it is delivered (`sent`). Parameter validation,
client and user policy, PKCE and DPoP checks are taken either way: a refusal is
`Fail`, or no step when nothing has been stored. Quota, attempts and cooldown of
email codes are in `OTP`; here a challenge is a row that holds the flow.

| run | question | instance | why it is enough |
|---|---|---|---|
| `flow_once` | Does a flow of every kind end at most once, with the consent and the verified email it needs, however its pages are sent? | 1 flow of each of six profiles, 2 requests, one provider and direct email, strict verification, 0 to 2 emails asserted, clock to 2, 5 tokens | two requests send every form twice or cross any two pages; 5 tokens are the longest path (request, consent, connector, identity selection, code); lifetimes of 1 or 2 ticks let rows expire between any two steps |
| `flow_credentials` | Is the state extended once only, does a delivered code keep its credential, does a grant get the credential of its own flow, and is a verification kept? | 2 accounts and either 1 flow with choices of identity and the clock to 2, or 2 flows on their shortest path in `provider` mode without time (`FlowsNext`) | two callbacks overlap, the state can be extended twice at different times, a credential can expire before, during and after the relabelling; the callbacks, challenges and completions of two flows interleave |

`CHECK_DEADLOCK FALSE`: flows end. The symmetry is of requests and accounts.

`CredentialOfFlow` states what the code ensures and no more: when callbacks for
two accounts came with one state token (a user went back at the provider and
chose another account), the later credential may replace the earlier one before the
first callback completes. The first refresh compares identities and ends such a
family (`IdentityMismatch` in `RefreshFamily`).

### Proofs (`AuthFlowProofs`)

For all sets of flows, requests, connectors, accounts and addresses, every
verification mode and all lifetimes satisfying `FlowAssumption`:

- `FlowTypeCorrect`: `Spec => []TypeOK`, where `Request` says what a handler holds
  at each of its store calls;
- `ConsentHolds`: `Spec => []ConsentGiven`. The property speaks of codes only;
  its invariant `ConsentInv` follows consent through every row and handler that
  carries a flow: a state says offline if its flow asks for it and says consented
  only if its user did (`Sound`), and what `complete` lets through is admitted
  (`Admitted`). A flow begins once and consent is never withdrawn (`SoundStays`),
  so a step has to account only for what it adds (`ConsentCarried`);
- `StateLifeHolds`: `Spec => []StateLife`, inductive given the types;
- `VerificationNeverLost`: `Spec => VerificationKept`, an action property: only
  `SaveCredential` touches the record, and its upsert takes the disjunction;
- `KeyInvariant`: `Spec => []KeyInv`. A token was made for one flow and stands for one
  thing: one state row, with which every handler that still holds a copy agrees, or
  one code. The next three rest on it;
- `EmailProvenHolds`: `EmailInv` follows what was said of an address through
  selections, handlers and codes. What a provider asserted is passed on for the
  identity it was asserted for (`Said`), a local verification is recorded only for an
  identity that was proved, and a handler past the decision has what the mode
  demands (`Believed`);
- `CredentialOfFlowHolds`: `CredentialInv`. A credential is kept under a token of its
  own flow and belongs to an account that a callback of that flow came for;
- `CodeKeepsCredentialHolds`: no code outlives one that is issued now (`CodeLife`), so
  the lifetime that the relabelling gives a credential is enough, and no other flow
  writes under that code;
- `OneCarrierHolds`: the property counts rows and handlers; its invariant `Sole` says
  instead that any two carriers of a flow are the same one, which each action
  preserves by handing the flow over (`Handover`): what it adds replaces what it takes.

`NoneAssumption` says that the value for "no token" is none of the tokens.

## 7. Policy: ClientCache, SchemaCache, IssuerKeys, TrustExchange

`LRU` has the list operations of `container/list` as the two caches of
`authpolicy/postgresql.go` use them, on sequences.

`ClientCache` is `clientExists`. A call reads the clock (`Call`), looks the client
up under the mutex (`Lookup`: hit, expired, miss), joins or leads a flight (`Do`);
the database reads the row at some moment (`Read`), and the flight ends with an
answer that fills the cache and trims it (`Finish`) or with an error for everyone
who waits (`Fail`: the query, its deadline, the leader's cancelled request).
Cached and fresh calls have flights of their own; fresh ones neither look nor
fill. Rows change at any time (`Change`). Each answer carries the moment its row
was read (`asOf`), which the code does not store; only `AnswerAge` reads it.

`SchemaCache` is `compiledSchema`: the flight looks again (`Recheck`), compiles
without the mutex and inserts without looking for an older element (`Insert`).

`IssuerKeys` is `loadIssuer` and the two loads of `VerifyAndEvaluate`. All loads of
an issuer share a flight that behaves as its first caller asked; a forced one
stamps the entry before it goes upstream (`Recheck`), the issuer's server answers
with the keys it publishes at that moment (`Serve`), and the insertion evicts the
entry that expires first (`Finish`). `Prompt` says that goroutines that can run do
so before the clock moves: waiting inside the process is nothing beside the
lifetimes, and without it no bound on ages could hold.

`TrustExchange` is the token exchange: standard claims (`Begin`), client, issuer,
keys and standard claims again, bindings, signature, one query at a time against
rows that an administrator edits meanwhile (`ChangePolicy`). A schema fragment is
the set of values it admits; the merge of required, policy and binding fragments
in `BuildSchema` is `Accepts`. Zero dates, which the JWT library does not check,
are among the tokens.

The run `policy` moves one of the three:

- 2 callers, 2 clients, room for one, lifetimes 2 and 1, query timeout 1, clock to
  3: hits, expired entries, evictions and joined flights all occur;
- 2 verifications, 2 issuers of which one rotates its key, room for one, key
  lifetime 1, refresh wait 2, clock to 3. The wait is longer than the lifetime,
  contrary to the code's 30 s and 5 min: it makes the throttled load that finds
  expired keys, the hard case, happen within three ticks;
- 1 exchange with every token, four database rows and two static ones that
  overlap, one of them malformed, and one change of the policy at any moment.
  Exchanges do not share state, so one is enough.

### Proofs (`LRUProofs`, `PolicyProofs`, `SchemaCacheProofs`)

For all sets of clients, callers, issuers, tokens and policy rows, and all lifetimes,
timeouts and capacities, from the assumptions of `ClientCache` and from
`ExchangeAssumption` and `KeysAssumption` (tables are finite, times are numbers):

- `LRUProofs`: which keys a list holds after each operation, once each
  (`PushFrontKeys`, `RemoveKeyKeys`, `MoveToFrontKeys`, `KeptKeys`);
- `ClientTypeCorrect`, `AnswerAgeHolds`: the invariant adds that a flight's row was
  read within the query timeout of its deadline (`FlightAge`), that an entry ends
  one lifetime and one timeout after its row was read at the latest (`EntryAge`),
  and that calls began in the past (`CallsBegan`);
- `MapAndListAgreeHolds`: `ListInv` is the property and that the list is a sequence
  of clients; an expired entry is removed from both, a fill removes the old element
  before it adds the new one, and trimming drops the same keys from both;
- `SchemaListAgreesHolds`, `CompilesOnlyMissesHolds`: the two need each other. While
  a key is being compiled it is not in the cache, since only its own flight could
  insert it; so the insertion that does not look adds no second element;
- `OnlyBindingHolds`, `TokenCurrentHolds`, `StaticIssuerKeysHolds`: `ExchangeInv` says what each stage of an exchange has
  established (`Established`: keys of the issuer's own kind, then dates current when
  the signature was verified, then a binding that is the only one to admit the token
  among the rows that were read). Later stages and edits of the policy undo none of it;
- `KeysFreshHolds`: on the condition `Prompt`. `EntryInv` says that cached keys
  end one lifetime and one fetch after they were published at the latest;
  `FreshInv` adds that a forced load, which looks only at its own interval, begins
  with keys that are fresh by themselves;
- `ForcedLoadsSpacedHolds`: an action property, needing no condition on goroutines.
  `StampInv` relates the stamp of an entry, and of a fetch that will replace it, to the
  last forced load that was counted.

## 8. Connectors: Configuration, UpstreamClient

`Configuration` starts from documents an operator may deploy. `Accepted` is
`Parse`: defaults, then the rules that relate sections to one another; `Start` and
`Stop` are `serve`; the other actions are one sign-in through the handlers, each
asking the running configuration for what it needs. The server may be restarted
with another document between any two of them; `undisturbed` says that it was not. The
credential remembers the type of the provider it came from, which the code does not
store: `HandleToken` only notices a connector that changed between email and a provider.
If an operator gives a connector id from one type of provider to another in the middle of
a sign-in, the family holds the former type's credential, and its first refresh, refused
by the new provider, ends it. `SignInBacked` therefore claims a readable credential of
every family at a provider, and one of the connector's own type of sign-ins that one
server carried out.
The instance has two connectors (one of any type, the other of type email), two
encryption keys, and documents with every combination of verification mode, code
secret, mail server, a static and a database client with refresh policies that
leave durations to their defaults. Connectors and keys are symmetric.

`UpstreamClient` has what a provider knows (`current`, the refresh token it
accepts), the family with its credential, and one login or refresh at a time,
whose calls take time: the renewal window (30 s), the 10 s before expiry at which
the oauth2 client refreshes by itself, the budget of a refresh (25 s) and the
lifetimes of tokens are in seconds. `ClassifyError`, `ClassifyHTTPStatus` are the
classification, with GitHub's exceptions; `RefreshSucceeds`, `RefreshFails`,
`Identify` the explicit calls; `RenewQuietly` the oauth2 client's own refresh. In
the run each call takes 0, 1, 10 or 19 seconds and tokens live 31 or 60 seconds
or for an unstated time, so that expiry falls on either side of each threshold;
or (`SlowClient`) calls take 0 or 23 seconds and tokens live 5 or 31, so that the
oauth2 client does refresh by itself, which may fail in every way.
A family is revoked for a refusal, a refresh in doubt, or an access token that is over
(`Begin`: it cannot be renewed; `Finish`: nothing can be issued on it), and the model
keeps which. `RotationRecorded` is about the former, `OutagesKeepFamily` about both; three
generations are two rotations.

### Proofs (`ConnectorsProofs`)

For all sets of connectors, clients and documents (`ConfigurationAssumption`: a
document has the shape of the configuration types), and for every window, budget,
lifetime and latency (`ClientAssumption`):

- `OutagesKeepFamilyHolds`, of any provider: each step that ends a family comes after
  a refusal, after the mark, or with an access token that is over;
- `RotationRecordedHolds`, of a provider for which `AnswersSoon` holds: its calls end
  within what the renewal window leaves before the oauth2 client refreshes by itself
  (20 s with the code's 30 s and 10 s), and its tokens outlive the window or state no
  lifetime. The condition is what separates the property from the finding
  `upstream_quiet`, and the run's instance satisfies it at the limit (19 s, 31 s).
  `RotationInv` says that a call holds the provider's refresh token, that the family
  does too until the call has marked it, and that the access token of each lookup is
  far enough from its end;
- `UndisturbedSignInSucceedsHolds`, `SignInBackedHolds`: `ConfigInv` says that a server
  runs with a completed and validated document (`RunningInv`), and what a sign-in
  that no restart disturbed can rely on at each of its steps (`UndisturbedInv`): its
  connector is configured, its credential is the one its mode asks for, of its connector's
  type and readable with
  the running server's key, and mailer and secret are there when a code has to be
  mailed.

## 9. Lifecycle: Serve, StateSchema, StatePath

`Serve` is one process: the startup steps in the order of `serve`, the HTTP server,
the reload goroutine that reads two files one after the other, the cleanup
goroutine, requests that use both databases, a signal, `Shutdown` with its grace
period and the deferred closes. Certificates are numbered; the second one of the
instance renews the first one's key, the third has a new key.

`StateSchema` is the PostgreSQL database during a rollout: migration jobs of three
releases (golang-migrate is external: advisory lock, dirty mark, migration,
clean mark, each a step), jobs that fail or die at any of them, an operator who
repairs and grants, and a replica of this release whose startup and readiness
checks are three queries each. Replicas do not influence each other or the
database, so the run has one; two jobs are enough for one to wait for the other's
lock or to follow its crash.

Fairness. `Serve`: weak fairness of the startup steps, of the select, of the end of
the shutdown and of the closes, since each is the main goroutine running or a call
with a deadline; of the cleanup's batches, of database statements, which the drivers
bound, and of the reload timer. Strong fairness of `StopCleaner`: the goroutine
notices its cancellation between two batches, and its select may take the timer a
number of times but not for ever. Nothing is assumed of handlers, files,
clients or signals. `StateSchema`: weak fairness of the probes, which the
orchestrator keeps sending; nothing is assumed of jobs or of the operator.

`StatePath` is who may read the SQLite state: `serve` and `migrate` create and
inspect the directory and the file, in any interleaving and under either umask,
and the operator rearranges both while no command runs.

### Proofs (`LifecycleProofs`)

For any certificates, requests, processes, jobs, replicas and releases
(`SchemaAssumption`: no job is called `None`, releases are numbered):

- `ServeTypeCorrect`, `CleanupFindsStoreHolds`: `CleanerInv` ties the store and the cleanup goroutine to where
  `serve` stands: the close waits for the goroutine, and a startup that failed earlier has
  neither;
- `SchemaTypeCorrect`, `MigrationInvariant`, `StartsOnItsTablesHolds`: a job at work holds
  the lock and has announced its migration, so clean metadata names the tables that
  are there (`MigrationInv`) and a replica that read it found its own;
- `PrivateWhileServingHolds`: no server runs on state that others can read. From its
  inspection on the directory is private, and stays so because no command changes a
  directory that exists (`PathInv`).

## 10. SelfService

The grants of two addresses (created, refreshed, revoked, expired and deleted by the
rest of the system), the actions and the pages. `ListActiveGrants` and
`CreateGrantActions` are separate steps, the latter one batch at a time, each of
which may fail; `Render` shows the page; `ConsumeGrantActionAndRevoke` takes any
combination of token, address and grant a form may hold; `CleanActions` and
`CleanGrants` delete what has expired, in batches of any size. Times are what is left
of a lifetime. The run `one_time` has three grants, two of one address, two pages,
and batches of one, so that a page of two grants needs two of them.

`OneTimeProofs` proves both properties for any grants, addresses, pages, batches and
lifetimes satisfying `PageAssumption`. `OwnGrantsOnlyHolds` needs that an action
belongs to a page that was begun, for its address, and ends with it (`ActionInv`);
`ShownActionsWorkHolds` needs `ButtonInv`: as long as a page is not over, each grant it
lists whose batch was stored and whose button was not used has its action or is
gone.

## 11. Findings

Each is a run that TLC must find violated; `PROJECT.json` quotes the lines.

- `refresh_denied`: the documentation says a client denial during refresh revokes
  the family; the handler answers `invalid_grant` before the service that revokes
  is reached.
- `replay_docs`: a proof reserved at the first instant of its window can be
  accepted again at the last one.
- `otp_locked`: a resend resets the attempts of a challenge that had used them up.
- `upstream_quiet`: when GitHub's first identity call takes 20 to 25 seconds, the
  oauth2 client refreshes the token before the second call, and the rotated refresh
  token is thrown away without the mark.

Three more differences between code and words appeared while modelling. The first
two are delimited by a property that holds, the third is visible in `StatePath`:

- `authpolicy/resolver.go:54` says that a fresh resolution bypasses the cache; two
  fresh resolutions share a flight, so one may be told of a row that was read up to
  one query timeout before it began (`AnswerAge`);
- `docs/policy-database.md:366` gives issuer keys five minutes; an ordinary load that
  joins a throttled forced one is given keys whose time is over (`KeysFresh` bounds
  their age);
- `migrate` creates the state directory with 0755 (`cmd/migrate.go:31`), which
  `serve` then refuses (`cmd/serve.go:279`).

## 12. What is proved, what is only model-checked, what is left out

Proved by TLAPS: every invariant and every action property of the runs that pass,
the refinement of `RefreshLedger`, and the properties of `SchemaCache` and `StatePath`,
each for every value of the constants that satisfies the named assumptions. Some have a
condition of their own, stated in the property or in the theorem: `KeysFreshHolds`
(`Prompt`); `RotationRecordedHolds`, `FenceHolds`, `OneCaller` for its stray calls, and
`LedgerImplemented` (`AnswersSoon`, in `ConnectorsProofs` and in `RefreshFamily`). Of a
provider that is slower, or whose access tokens live for less than the renewal window,
the code promises none of the last four: its lookup may rotate the refresh token without
a mark (`upstream_quiet`).

Only model-checked: liveness (`RequestsEnd`, `RotationServed`, `SignalEnds`,
`StaleReplicaNotReady`), since fairness and ENABLED are out of the prover's reach. The
properties of the four runs of section 11 are refuted; one of them, `RotationRecorded`,
is refuted of slow providers and proved of the others.

The parts of a run stay still while another one moves; the theorems about a part are
about its own specification (`Codes!Spec`, `Page!Spec`, `Exchange!Spec`, ...), with the
very constants, variables and property definitions that the run checks.

Not modelled:

- token cryptography, JWKS and JSON layout, DPoP header and signature parsing,
  HTTP destination checks, rendering, mail, the bot check, secrets, the development
  server: pure, or I/O without state of its own;
- the userinfo endpoint, which only reads a signed token, and the change of a
  client's DPoP mode between two of its requests;
- group queries of the policy database and its limits on rows and bytes;
- rules of the loader that look at a single field (URLs, names, ranges);
- that a flight always ends for those who joined it: its query and its HTTP requests
  have deadlines, and the end of a flight and the answers to its callers are one
  step of the models;
- connection handling and the statements' own locking: the models rest on one store
  method being one serialised transaction.
