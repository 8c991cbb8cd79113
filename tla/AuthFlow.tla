------------------------------- MODULE AuthFlow -------------------------------
(***************************************************************************)
(* Browser sign-in, from the authorization request to the redemption of    *)
(* the authorization code: pushed requests, state tokens, consent,         *)
(* connector and identity selection, callbacks, local email verification,  *)
(* codes, and the upstream credential that follows a flow from its state   *)
(* token to its code (src/internal/oidc, src/internal/statedb).            *)
(*                                                                         *)
(* A flow is one authorization request.  Everything of it that the rows    *)
(* merely copy (client, redirect URI, PKCE challenge, nonce, scopes,       *)
(* purpose, DPoP key) is the flow's name and its profile.  A row carries   *)
(* what the handlers change: connector, refresh mode and consent.          *)
(*                                                                         *)
(* Each store call is one step.  A browser may send any page's form, with  *)
(* any token it was given, at any time and several times at once, and a    *)
(* handler may fail or crash between two store calls.  A token is a pair   *)
(* of its flow and a number, so tokens are fresh and known only to those   *)
(* who were given them.  Policy decisions are taken either way.            *)
(***************************************************************************)
EXTENDS Integers, FiniteSets

CONSTANTS
    Requests,          \* concurrent HTTP requests
    Flows,             \* authorization requests
    Profiles,          \* the kinds of flow that are begun
    Upstream,          \* connector IDs of upstream providers
    Direct,            \* connector IDs of type "email"
    Subjects,          \* accounts at the upstream providers
    Emails,            \* normalised email addresses
    Assertions,        \* what an upstream account may assert: sets of emails
    VerificationMode,  \* email.verification_mode
    None,              \* the empty string
    StateTTL,          \* life of a state token and of a flow's credential: 10 min
    SelectionTTL,      \* life of an identity selection: 5 min
    PushTTL,           \* life of a pushed request: 60 s
    OTPTTL,            \* life of a one-time code
    CodeTTL,           \* life of an authorization code and its credential: 5 min
    MaxTime,           \* bound on the clock
    MaxKeys            \* bound on the tokens generated for one flow

Profile == [kind : {"direct", "pushed", "manage"}, offline : BOOLEAN, create : BOOLEAN]

\* An email with the provider's word on whether it is verified.
Assertion == [email : Emails, verified : BOOLEAN]

ASSUME FlowAssumption ==
    /\ Profiles \subseteq Profile
    /\ Assertions \subseteq SUBSET Assertion
    /\ Upstream \cap Direct = {} /\ None \notin Upstream \cup Direct \cup Profile
    /\ VerificationMode \in {"disabled", "provider", "strict"}
    /\ StateTTL \in Nat /\ SelectionTTL \in Nat /\ PushTTL \in Nat
    /\ OTPTTL \in Nat /\ CodeTTL \in Nat /\ MaxTime \in Nat /\ MaxKeys \in Nat

VARIABLES
    clock,
    profile,      \* what each flow asks for, None until it begins
    issued,       \* how many tokens were generated for each flow
    pushed,       \* pushed_requests
    states,       \* oauth_states
    selections,   \* identity_selections
    otps,         \* otp_challenges, by the flow each of them holds
    known,        \* upstream_credentials: the identities accepted before
    credentials,  \* flow_credentials
    codes,        \* auth_codes
    redeemed,     \* the sign-ins completed at the token endpoint
    req,          \* requests in progress
    consented,    \* history: flows whose user accepted offline access
    proved,       \* history: identities whose emailed code was typed
    asserted,     \* history: identities a provider called verified
    callers       \* history: the accounts for which callbacks of a flow came

rows    == <<pushed, states, selections, otps, known, credentials, codes, redeemed>>
history == <<consented, proved, asserted, callers>>
vars    == <<clock, profile, issued, rows, req, history>>

Keys == Flows \X (1..MaxKeys)

Connectors == Upstream \cup Direct

\* OAuthState: flow stands for the fields no handler changes.
State == [flow : Flows, key : Keys \cup {None}, connector : Connectors \cup {None},
          mode : {"", "session", "offline"}, consent : BOOLEAN]

\* A connector identity: subjects of direct email are the addresses themselves.
Identity == [connector : Connectors \cup {None}, subject : Subjects \cup Emails, email : Emails]

\* A credential stands for the callback that obtained it.
Credential == [flow : Flows, subject : Subjects]

\* The empty string is neither a token nor a credential.
ASSUME NoneAssumption == None \notin Keys \cup Credential

\* What a handler knows of the person who signs in.
Person == [subject : Subjects \cup Emails, email : Emails, verified : BOOLEAN]

\* A state that was read from a row has the row's token.
Stored == {s \in State : s.key \in Keys}

Pushed     == [flow : Flows, exp : Nat]
StateRow   == [state : Stored, made : Nat, exp : Nat]
Selection  == [key : Keys, state : State, subject : Subjects, emails : SUBSET Assertion,
               exp : Nat]
Challenge  == [state : State, person : Person, exp : Nat]
Known      == [id : Identity, local : BOOLEAN]
Kept       == [key : Keys, cred : Credential, exp : Nat]
Code       == [key : Keys, state : State, person : Person, exp : Nat, sent : BOOLEAN]
SignIn     == [code : Keys, state : State, person : Person, cred : Credential \cup {None}]

Idle == [pc |-> "idle"]

\* A request in progress: where its handler is, and what it holds there.
Request ==
    {Idle}
    \cup [pc : {"encoding"}, state : State]
    \cup [pc : {"saving", "asking"}, state : Stored, subject : Subjects]
    \cup [pc : {"offering"}, state : State, subject : Subjects, emails : SUBSET Assertion]
    \cup [pc : {"deciding", "verifying", "challenging", "completing"}, state : State,
          person : Person]
    \cup [pc : {"challenging", "recording", "completing"}, state : State, person : Person,
          local : BOOLEAN]
    \cup [pc : {"loading", "minting"}, state : State, person : Person,
          cred : Credential \cup {None}]
    \cup [pc : {"relabelling"}, state : State, cred : Credential, code : Keys]
    \cup [pc : {"backing", "consuming"}, code : Code, cred : Credential \cup {None}]

Init ==
    /\ clock = 0
    /\ profile = [f \in Flows |-> None]
    /\ issued = [f \in Flows |-> 0]
    /\ pushed = {} /\ states = {} /\ selections = {} /\ otps = {}
    /\ known = {} /\ credentials = {} /\ codes = {} /\ redeemed = {}
    /\ req = [r \in Requests |-> Idle]
    /\ consented = {} /\ proved = {} /\ asserted = {}
    /\ callers = [f \in Flows |-> {}]

At(r, l) == req[r].pc = l

Return(r) == req' = [req EXCEPT ![r] = Idle]

\* A freshly generated token of flow f.
NewKey(f) == <<f, issued[f] + 1>>

Generate(f) == issued[f] < MaxKeys /\ issued' = [issued EXCEPT ![f] = @ + 1]

\* EncodeState and SaveState.
Saved(s) == states \cup
    {[state |-> [s EXCEPT !.key = NewKey(s.flow)], made |-> clock, exp |-> clock + StateTTL]}

\* The rows that PeekState and GetAndDeleteState find.
Valid(row) == clock <= row.exp

\* continueAuthorization: a sole upstream connector is chosen at once.
Continued(s, p) ==
    IF Direct = {} /\ Cardinality(Upstream) = 1 /\ ~p.create
    THEN [s EXCEPT !.connector = CHOOSE c \in Upstream : TRUE] ELSE s

IdentityOf(s, person) ==
    [connector |-> s.connector, subject |-> person.subject, email |-> person.email]

-----------------------------------------------------------------------------
(* Beginning a flow.                                                        *)

NewState(f, m) == [flow |-> f, key |-> None, connector |-> None, mode |-> m, consent |-> FALSE]

\* The refresh mode a flow is given: the client may have refresh tokens enabled.
ModesOf(p) ==
    IF p.offline THEN {"offline"} ELSE IF p.kind = "manage" THEN {""} ELSE {"", "session"}

\* HandlePAR.
Push(f, p) ==
    /\ profile[f] = None /\ p.kind = "pushed"
    /\ profile' = [profile EXCEPT ![f] = p]
    /\ pushed' = pushed \cup {[flow |-> f, exp |-> clock + PushTTL]}
    /\ UNCHANGED <<clock, issued, states, selections, otps, known, credentials, codes,
                   redeemed, req, history>>

\* HandleAuthorize without a request_uri, and HandleGrants. An offline request
\* is shown the consent page before it continues.
Authorize(f, p, m) ==
    LET s == NewState(f, m)
    IN  /\ profile[f] = None /\ p.kind # "pushed" /\ m \in ModesOf(p)
        /\ profile' = [profile EXCEPT ![f] = p]
        /\ Generate(f)
        /\ states' = Saved(IF p.offline THEN s ELSE Continued(s, p))
        /\ UNCHANGED <<clock, pushed, selections, otps, known, credentials, codes, redeemed,
                       req, history>>

\* handlePushedAuthorize consumes the pushed request; its state is saved next.
ConsumePushed(r, row, m) ==
    /\ At(r, "idle")
    /\ clock < row.exp
    /\ m \in ModesOf(profile[row.flow])
    /\ pushed' = pushed \ {row}
    /\ req' = [req EXCEPT ![r] = [pc |-> "encoding", state |-> NewState(row.flow, m)]]
    /\ UNCHANGED <<clock, profile, issued, states, selections, otps, known, credentials,
                   codes, redeemed, history>>

\* EncodeState at the end of a handler; the browser is given the new token.
Encode(r) ==
    /\ At(r, "encoding")
    /\ Generate(req[r].state.flow)
    /\ states' = Saved(req[r].state)
    /\ Return(r)
    /\ UNCHANGED <<clock, profile, pushed, selections, otps, known, credentials, codes,
                   redeemed, history>>

-----------------------------------------------------------------------------
(* Consent and selection. Each handler consumes the state first.            *)

\* HandleConsent with an accepting decision.
Consent(r, row) ==
    LET s == row.state
    IN  /\ At(r, "idle")
        /\ Valid(row) /\ s.mode = "offline"
        /\ states' = states \ {row}
        /\ consented' = consented \cup {s.flow}
        /\ req' = [req EXCEPT ![r] = [pc |-> "encoding",
               state |-> Continued([s EXCEPT !.consent = TRUE], profile[s.flow])]]
        /\ UNCHANGED <<clock, profile, issued, pushed, selections, otps, known, credentials,
                       codes, redeemed, proved, asserted, callers>>

\* HandleSelect, and HandleAuthorizeContinue with a sole connector. What the
\* latter peeks at before it consumes the row never changes.
Select(r, row, c) ==
    /\ At(r, "idle")
    /\ Valid(row) /\ row.state.connector = None
    /\ states' = states \ {row}
    /\ req' = [req EXCEPT ![r] = [pc |-> "encoding", state |-> [row.state EXCEPT !.connector = c]]]
    /\ UNCHANGED <<clock, profile, issued, pushed, selections, otps, known, credentials,
                   codes, redeemed, history>>

\* HandleEmailStart.
EmailStart(r, row, c, e) ==
    /\ At(r, "idle")
    /\ Valid(row) /\ row.state.connector = None
    /\ states' = states \ {row}
    /\ req' = [req EXCEPT ![r] = [pc |-> "challenging", state |-> [row.state EXCEPT !.connector = c],
               person |-> [subject |-> e, email |-> e, verified |-> FALSE]]]
    /\ UNCHANGED <<clock, profile, issued, pushed, selections, otps, known, credentials,
                   codes, redeemed, history>>

\* Consent denied, a form sent to the wrong page, an unknown connector, a failed
\* bot check: the handler has consumed the state and stops.
Discard(row) ==
    /\ Valid(row)
    /\ states' = states \ {row}
    /\ UNCHANGED <<clock, profile, issued, pushed, selections, otps, known, credentials,
                   codes, redeemed, req, history>>

-----------------------------------------------------------------------------
(* HandleCallback. The state is only peeked at until the identity is known. *)

\* The upstream code of the given account is exchanged.
Callback(r, row, subject) ==
    /\ At(r, "idle")
    /\ Valid(row) /\ row.state.connector \in Upstream
    /\ req' = [req EXCEPT ![r] = [pc |-> IF row.state.mode = "" THEN "asking" ELSE "saving",
                                  state |-> row.state, subject |-> subject]]
    /\ callers' = [callers EXCEPT ![row.state.flow] = @ \cup {subject}]
    /\ UNCHANGED <<clock, profile, issued, rows, consented, proved, asserted>>

\* SaveFlowCredential: rows of the given keys are replaced by the new one.
Relabelled(from, key, cred, exp) ==
    {w \in credentials : w.key \notin {from, key}} \cup {[key |-> key, cred |-> cred, exp |-> exp]}

\* The credential is kept under the state token, whether or not that is still there.
SaveFlowCredential(r) ==
    LET q == req[r]
    IN  /\ At(r, "saving")
        /\ credentials' = Relabelled(None, q.state.key,
               [flow |-> q.state.flow, subject |-> q.subject], clock + StateTTL)
        /\ req' = [req EXCEPT ![r].pc = "asking"]
        /\ UNCHANGED <<clock, profile, issued, pushed, states, selections, otps, known, codes,
                       redeemed, history>>

\* GetIdentity answers with the emails of the account.
GetIdentity(r, emails) ==
    LET q == req[r]
        single == CHOOSE a \in emails : TRUE
    IN  /\ At(r, "asking")
        /\ emails # {}
        /\ req' = [req EXCEPT ![r] =
               IF Cardinality(emails) > 1
               THEN [pc |-> "offering", state |-> q.state, subject |-> q.subject, emails |-> emails]
               ELSE [pc |-> "deciding", state |-> q.state,
                     person |-> [subject |-> q.subject, email |-> single.email,
                                 verified |-> single.verified]]]
        /\ asserted' = asserted \cup
               {[connector |-> q.state.connector, subject |-> q.subject, email |-> a.email] :
                   a \in {b \in emails : b.verified}}
        /\ UNCHANGED <<clock, profile, issued, rows, consented, proved, callers>>

\* Mutant: the age of the state is not looked at.
CreateIdentitySelectionAgeless(r, row) ==
    LET q == req[r]
    IN  /\ At(r, "offering")
        /\ row.state.key = q.state.key
        /\ clock < row.exp
        /\ Generate(q.state.flow)
        /\ states' = (states \ {row}) \cup {[row EXCEPT !.exp = clock + SelectionTTL]}
        /\ selections' = selections \cup
               {[key |-> NewKey(q.state.flow), state |-> q.state, subject |-> q.subject,
                 emails |-> q.emails, exp |-> clock + SelectionTTL]}
        /\ Return(r)
        /\ UNCHANGED <<clock, profile, pushed, otps, known, credentials, codes, redeemed, history>>

\* The state is given the life of the selection, if it is not too old.
CreateIdentitySelection(r, row) ==
    LET q == req[r]
    IN  /\ At(r, "offering")
        /\ row.state.key = q.state.key
        /\ clock < row.exp /\ clock < row.made + StateTTL
        /\ Generate(q.state.flow)
        /\ states' = (states \ {row}) \cup {[row EXCEPT !.exp = clock + SelectionTTL]}
        /\ selections' = selections \cup
               {[key |-> NewKey(q.state.flow), state |-> q.state, subject |-> q.subject,
                 emails |-> q.emails, exp |-> clock + SelectionTTL]}
        /\ Return(r)
        /\ UNCHANGED <<clock, profile, pushed, otps, known, credentials, codes, redeemed, history>>

\* HandleIdentitySelect consumes the selection; the state comes next.
ConsumeIdentitySelection(r, sel, a) ==
    /\ At(r, "idle")
    /\ clock < sel.exp
    /\ selections' = selections \ {sel}
    /\ req' = [req EXCEPT ![r] = [pc |-> "deciding", state |-> sel.state,
               person |-> [subject |-> sel.subject, email |-> a.email, verified |-> a.verified]]]
    /\ UNCHANGED <<clock, profile, issued, pushed, states, otps, known, credentials, codes,
                   redeemed, history>>

\* Mutant: the state is read but not deleted.
DecodeStateKept(r, row) ==
    /\ At(r, "deciding")
    /\ row.state.key = req[r].state.key /\ Valid(row)
    /\ states' = states
    /\ req' = [req EXCEPT ![r].pc = "verifying", ![r].state = row.state]
    /\ UNCHANGED <<clock, profile, issued, pushed, selections, otps, known, credentials,
                   codes, redeemed, history>>

\* The state is consumed: one identity is taken for the flow.
DecodeState(r, row) ==
    /\ At(r, "deciding")
    /\ row.state.key = req[r].state.key /\ Valid(row)
    /\ states' = states \ {row}
    /\ req' = [req EXCEPT ![r].pc = "verifying", ![r].state = row.state]
    /\ UNCHANGED <<clock, profile, issued, pushed, selections, otps, known, credentials,
                   codes, redeemed, history>>

-----------------------------------------------------------------------------
(* acceptOrChallenge and HandleEmailVerify.                                 *)

\* upstream_credentials: whether an identity was accepted, and verified here.
Exists(i) == \E k \in known : k.id = i
Local(i)  == \E k \in known : k.id = i /\ k.local

\* Mutant: in strict mode the provider's word counts too.
VerificationAcceptedLax(verified, local) ==
    VerificationMode = "disabled" \/ local \/ verified

VerificationAccepted(verified, local) ==
    VerificationMode = "disabled" \/ local \/ (VerificationMode = "provider" /\ verified)

\* CredentialVerified and what follows from its answer.
CredentialVerified(r) ==
    LET i == IdentityOf(req[r].state, req[r].person)
        v == req[r].person.verified
    IN  /\ At(r, "verifying")
        /\ req' = [req EXCEPT ![r] =
               [pc |-> IF ~VerificationAccepted(v, Local(i)) THEN "challenging"
                       ELSE IF ~Exists(i) \/ v THEN "recording" ELSE "completing",
                state |-> req[r].state,
                person |-> [req[r].person EXCEPT !.verified = v \/ Local(i)],
                local |-> Local(i)]]
        /\ UNCHANGED <<clock, profile, issued, rows, history>>

\* Mutant: a record made meanwhile is overwritten with what was read before.
SaveCredentialOver(r) ==
    LET i == IdentityOf(req[r].state, req[r].person)
    IN  /\ At(r, "recording")
        /\ known' = {k \in known : k.id # i} \cup {[id |-> i, local |-> req[r].local]}
        /\ req' = [req EXCEPT ![r] = [pc |-> "completing", state |-> req[r].state,
                                      person |-> req[r].person]]
        /\ UNCHANGED <<clock, profile, issued, pushed, states, selections, otps, credentials,
                       codes, redeemed, history>>

\* The upsert keeps a local verification that is already there.
SaveCredential(r) ==
    LET i == IdentityOf(req[r].state, req[r].person)
    IN  /\ At(r, "recording")
        /\ known' = {k \in known : k.id # i} \cup {[id |-> i, local |-> req[r].local \/ Local(i)]}
        /\ req' = [req EXCEPT ![r] = [pc |-> "completing", state |-> req[r].state,
                                      person |-> req[r].person]]
        /\ UNCHANGED <<clock, profile, issued, pushed, states, selections, otps, credentials,
                       codes, redeemed, history>>

\* beginOTP. The challenge holds the flow; module OTP has its quota and attempts.
CreateOTP(r) ==
    /\ At(r, "challenging")
    /\ otps' = otps \cup
           {[state |-> req[r].state, person |-> req[r].person, exp |-> clock + OTPTTL]}
    /\ Return(r)
    /\ UNCHANGED <<clock, profile, issued, pushed, states, selections, known, credentials,
                   codes, redeemed, history>>

ResendOTP(otp) ==
    /\ clock < otp.exp
    /\ otps' = (otps \ {otp}) \cup {[otp EXCEPT !.exp = clock + OTPTTL]}
    /\ UNCHANGED <<clock, profile, issued, pushed, states, selections, known, credentials,
                   codes, redeemed, req, history>>

\* HandleEmailVerify with the right code.
ConsumeOTP(r, otp) ==
    /\ At(r, "idle")
    /\ clock < otp.exp
    /\ otps' = otps \ {otp}
    /\ proved' = proved \cup {IdentityOf(otp.state, otp.person)}
    /\ req' = [req EXCEPT ![r] = [pc |-> "recording", state |-> otp.state, local |-> TRUE,
                                  person |-> [otp.person EXCEPT !.verified = TRUE]]]
    /\ UNCHANGED <<clock, profile, issued, pushed, states, selections, known, credentials,
                   codes, redeemed, consented, asserted, callers>>

-----------------------------------------------------------------------------
(* complete: the code is issued.                                            *)

\* A self-service flow ends in the list of the user's grants; the action tokens
\* made for that page are not part of the flow.
RenderGrants(r) ==
    /\ At(r, "completing")
    /\ profile[req[r].state.flow].kind = "manage"
    /\ Return(r)
    /\ UNCHANGED <<clock, profile, issued, rows, history>>

\* Mutant: consent is taken for given.
AdmitWithoutConsent(r) ==
    LET s == req[r].state
    IN  /\ At(r, "completing")
        /\ profile[s.flow].kind # "manage"
        /\ req' = [req EXCEPT ![r] = [pc |-> IF s.mode = "" THEN "minting" ELSE "loading",
                                      state |-> s, person |-> req[r].person, cred |-> None]]
        /\ UNCHANGED <<clock, profile, issued, rows, history>>

\* Client and user policy, resolved anew, admit the flow.
Admit(r) ==
    LET s == req[r].state
    IN  /\ At(r, "completing")
        /\ profile[s.flow].kind # "manage"
        /\ s.mode = "offline" => s.consent
        /\ req' = [req EXCEPT ![r] = [pc |-> IF s.mode = "" THEN "minting" ELSE "loading",
                                      state |-> s, person |-> req[r].person, cred |-> None]]
        /\ UNCHANGED <<clock, profile, issued, rows, history>>

\* The rows that LoadFlowCredential finds; client and connector are the flow's.
Loadable(key) == {w \in credentials : w.key = key /\ clock < w.exp}

\* Mutant: any credential of the connector will do.
LoadFlowCredentialOfAny(r) ==
    LET s == req[r].state
        found == {w \in credentials : clock < w.exp}
    IN  /\ At(r, "loading")
        /\ (found # {}) = (s.connector \in Upstream)
        /\ req' = [req EXCEPT ![r].pc = "minting",
                              ![r].cred = IF found = {} THEN None ELSE (CHOOSE w \in found : TRUE).cred]
        /\ UNCHANGED <<clock, profile, issued, rows, history>>

\* A refresh flow through a provider must have its credential, one through
\* direct email must have none.
LoadFlowCredential(r) ==
    LET s == req[r].state
        found == Loadable(s.key)
    IN  /\ At(r, "loading")
        /\ (found # {}) = (s.connector \in Upstream)
        /\ req' = [req EXCEPT ![r].pc = "minting",
                              ![r].cred = IF found = {} THEN None ELSE (CHOOSE w \in found : TRUE).cred]
        /\ UNCHANGED <<clock, profile, issued, rows, history>>

\* GenerateCode. Without a credential to keep, the redirect delivers it at once.
GenerateCode(r) ==
    LET q == req[r]
    IN  /\ At(r, "minting")
        /\ Generate(q.state.flow)
        /\ codes' = codes \cup
               {[key |-> NewKey(q.state.flow), state |-> q.state, person |-> q.person,
                 exp |-> clock + CodeTTL, sent |-> q.cred = None]}
        /\ req' = [req EXCEPT ![r] =
               IF q.cred = None THEN Idle
               ELSE [pc |-> "relabelling", state |-> q.state, cred |-> q.cred,
                     code |-> NewKey(q.state.flow)]]
        /\ UNCHANGED <<clock, profile, pushed, states, selections, otps, known, credentials,
                       redeemed, history>>

Sent(key) == {IF c.key = key THEN [c EXCEPT !.sent = TRUE] ELSE c : c \in codes}

\* Mutant: the row keeps the expiry it had under the state token.
RelabelCredentialKeepingExpiry(r) ==
    LET q == req[r]
    IN  /\ At(r, "relabelling")
        /\ \E w \in credentials :
              w.key = q.state.key /\ credentials' = Relabelled(q.state.key, q.code, q.cred, w.exp)
        /\ codes' = Sent(q.code)
        /\ Return(r)
        /\ UNCHANGED <<clock, profile, issued, pushed, states, selections, otps, known,
                       redeemed, history>>

\* The credential moves from the state token to the code, which is delivered.
RelabelCredential(r) ==
    LET q == req[r]
    IN  /\ At(r, "relabelling")
        /\ credentials' = Relabelled(q.state.key, q.code, q.cred, clock + CodeTTL)
        /\ codes' = Sent(q.code)
        /\ Return(r)
        /\ UNCHANGED <<clock, profile, issued, pushed, states, selections, otps, known,
                       redeemed, history>>

-----------------------------------------------------------------------------
(* exchangeCode.                                                            *)

\* Peek, PKCE and current client policy; a code that was not delivered is not
\* known to anyone.
PeekCode(r, c) ==
    /\ At(r, "idle")
    /\ c.sent /\ clock < c.exp
    /\ c.state.mode = "offline" => c.state.consent
    /\ req' = [req EXCEPT ![r] = [pc |-> IF c.state.mode = "" THEN "consuming" ELSE "backing",
                                  code |-> c, cred |-> None]]
    /\ UNCHANGED <<clock, profile, issued, rows, history>>

LoadCodeCredential(r) ==
    LET found == Loadable(req[r].code.key)
    IN  /\ At(r, "backing")
        /\ (found # {}) = (req[r].code.state.connector \in Upstream)
        /\ req' = [req EXCEPT ![r].pc = "consuming",
                              ![r].cred = IF found = {} THEN None ELSE (CHOOSE w \in found : TRUE).cred]
        /\ UNCHANGED <<clock, profile, issued, rows, history>>

\* ConsumeAuthCode: the code is deleted, and a refresh grant made of it.
ConsumeAuthCode(r) ==
    LET c == req[r].code
    IN  /\ At(r, "consuming")
        /\ c \in codes /\ clock < c.exp
        /\ codes' = codes \ {c}
        /\ redeemed' = redeemed \cup
               {[code |-> c.key, state |-> c.state, person |-> c.person, cred |-> req[r].cred]}
        /\ credentials' = IF req[r].cred = None THEN credentials
                          ELSE {w \in credentials : w.key # c.key}
        /\ Return(r)
        /\ UNCHANGED <<clock, profile, issued, pushed, states, selections, otps, known, history>>

-----------------------------------------------------------------------------
(* Failure, cleanup and time.                                               *)

\* An error answer, a denied or unavailable policy, a row that is gone, or a
\* crash: the request ends where it is.
Fail(r) ==
    /\ ~At(r, "idle")
    /\ Return(r)
    /\ UNCHANGED <<clock, profile, issued, rows, history>>

\* Background cleanup, one statement per table.
CleanupPushed ==
    /\ \E p \in pushed : p.exp < clock
    /\ pushed' = {p \in pushed : p.exp >= clock}
    /\ UNCHANGED <<clock, profile, issued, states, selections, otps, known, credentials,
                   codes, redeemed, req, history>>

CleanupStates ==
    /\ \E s \in states : s.exp < clock
    /\ states' = {s \in states : s.exp >= clock}
    /\ UNCHANGED <<clock, profile, issued, pushed, selections, otps, known, credentials,
                   codes, redeemed, req, history>>

CleanupSelections ==
    /\ \E s \in selections : s.exp <= clock
    /\ selections' = {s \in selections : s.exp > clock}
    /\ UNCHANGED <<clock, profile, issued, pushed, states, otps, known, credentials,
                   codes, redeemed, req, history>>

CleanupOTPs ==
    /\ \E o \in otps : o.exp < clock
    /\ otps' = {o \in otps : o.exp >= clock}
    /\ UNCHANGED <<clock, profile, issued, pushed, states, selections, known, credentials,
                   codes, redeemed, req, history>>

CleanupCredentials ==
    /\ \E w \in credentials : w.exp <= clock
    /\ credentials' = {w \in credentials : w.exp > clock}
    /\ UNCHANGED <<clock, profile, issued, pushed, states, selections, otps, known,
                   codes, redeemed, req, history>>

CleanupCodes ==
    /\ \E c \in codes : c.exp < clock
    /\ codes' = {c \in codes : c.exp >= clock}
    /\ UNCHANGED <<clock, profile, issued, pushed, states, selections, otps, known,
                   credentials, redeemed, req, history>>

Tick ==
    /\ clock < MaxTime
    /\ clock' = clock + 1
    /\ UNCHANGED <<profile, issued, rows, req, history>>

\* What a browser or a client may ask for.
Ask(r) ==
    \/ \E p \in pushed, m \in {"", "session", "offline"} : ConsumePushed(r, p, m)
    \/ \E s \in states :
          \/ Consent(r, s)
          \/ \E c \in Upstream : Select(r, s, c)
          \/ \E c \in Direct, e \in Emails : EmailStart(r, s, c, e)
          \/ \E a \in Subjects : Callback(r, s, a)
    \/ \E s \in selections : \E a \in s.emails : ConsumeIdentitySelection(r, s, a)
    \/ \E o \in otps : ConsumeOTP(r, o)
    \/ \E c \in codes : PeekCode(r, c)

\* What a handler goes on to do.
Step(r) ==
    \/ Encode(r) \/ SaveFlowCredential(r)
    \/ \E e \in Assertions : GetIdentity(r, e)
    \/ \E s \in states : CreateIdentitySelection(r, s) \/ DecodeState(r, s)
    \/ CredentialVerified(r) \/ SaveCredential(r) \/ CreateOTP(r)
    \/ RenderGrants(r) \/ Admit(r) \/ LoadFlowCredential(r) \/ GenerateCode(r)
    \/ RelabelCredential(r) \/ LoadCodeCredential(r) \/ ConsumeAuthCode(r)

Next ==
    \/ \E f \in Flows, p \in Profiles :
          Push(f, p) \/ \E m \in {"", "session", "offline"} : Authorize(f, p, m)
    \/ \E s \in states : Discard(s)
    \/ \E o \in otps : ResendOTP(o)
    \/ \E r \in Requests : Ask(r) \/ Step(r) \/ Fail(r)
    \/ CleanupPushed \/ CleanupStates \/ CleanupSelections \/ CleanupOTPs
    \/ CleanupCredentials \/ CleanupCodes
    \/ Tick

Spec == Init /\ [][Next]_vars

-----------------------------------------------------------------------------
(* Properties.                                                              *)

\* Rows and histories keep their types.
TypeOK ==
    /\ clock \in Nat
    /\ profile \in [Flows -> Profile \cup {None}]
    /\ issued \in [Flows -> 0..MaxKeys]
    /\ pushed \subseteq Pushed /\ states \subseteq StateRow
    /\ selections \subseteq Selection /\ otps \subseteq Challenge
    /\ known \subseteq Known /\ credentials \subseteq Kept
    /\ codes \subseteq Code /\ redeemed \subseteq SignIn
    /\ req \in [Requests -> Request]
    /\ consented \subseteq Flows
    /\ proved \subseteq Identity /\ asserted \subseteq Identity
    /\ callers \in [Flows -> SUBSET Subjects]

\* Requests that have consumed what they work on.
Holding == {"encoding", "challenging", "verifying", "recording", "completing", "loading", "minting"}

\* Everything that can still lead to a sign-in of flow f, or is one.
Carriers(f) ==
      Cardinality({p \in pushed : p.flow = f})
    + Cardinality({s \in states : s.state.flow = f})
    + Cardinality({r \in Requests : req[r].pc \in Holding /\ req[r].state.flow = f})
    + Cardinality({o \in otps : o.state.flow = f})
    + Cardinality({c \in codes : c.state.flow = f})
    + Cardinality({d \in redeemed : d.state.flow = f})

\* However often a browser sends its forms, and whatever fails, an authorization
\* request is carried by at most one row or handler at a time, and ends in at most
\* one code and one sign-in.
OneCarrier == \A f \in Flows : Carriers(f) <= 1

\* No code is issued, and nothing redeemed, for offline access that the user of
\* that very flow did not accept; and none at all for a self-service flow.
ConsentGiven ==
    \A x \in {c.state : c \in codes} \cup {d.state : d \in redeemed} :
        /\ profile[x.flow].kind # "manage"
        /\ profile[x.flow].offline => x.mode = "offline" /\ x.flow \in consented

\* The email of a code was verified the way the configured mode demands, and is
\* called verified only if the provider or the user's typed code said so.
EmailProven ==
    \A c \in codes :
        LET i == IdentityOf(c.state, c.person)
        IN  /\ c.state.connector \in Direct => i \in proved
            /\ VerificationMode = "strict" => i \in proved
            /\ VerificationMode = "provider" => i \in proved \cup asserted
            /\ c.person.verified => i \in proved \cup asserted

\* A local verification, once recorded, is never lost to a sign-in that looked
\* the identity up before it was recorded.
VerificationKept ==
    [][\A k \in known : k.local => [id |-> k.id, local |-> TRUE] \in known']_vars

\* A state token outlives its first expiry only by the choice of an identity, once.
StateLife == \A s \in states : s.exp <= s.made + StateTTL + SelectionTTL

\* A code that was delivered finds its credential for as long as it is valid.
CodeKeepsCredential ==
    \A c \in codes :
        c.sent /\ clock < c.exp /\ c.state.mode # "" /\ c.state.connector \in Upstream =>
            \E w \in credentials : w.key = c.key /\ w.exp >= c.exp

\* A refresh grant keeps a credential that a callback of its own flow obtained,
\* and that of the account signed in unless callbacks came for several accounts.
CredentialOfFlow ==
    \A d \in redeemed :
        IF d.state.mode # "" /\ d.state.connector \in Upstream
        THEN /\ d.cred # None /\ d.cred.flow = d.state.flow
             /\ Cardinality(callers[d.state.flow]) = 1 => d.cred.subject = d.person.subject
        ELSE d.cred = None

=============================================================================
