----------------------------- MODULE Configuration -----------------------------
(***************************************************************************)
(* The configuration and the sign-ins that run under it: what Parse and    *)
(* validate accept (src/internal/config/loader.go), what serve builds from *)
(* an accepted document (src/internal/cmd/serve.go), and what the login    *)
(* and token handlers of src/internal/oidc then need.  A server may be     *)
(* stopped in the middle of a sign-in and started again with any other     *)
(* document: the sign-in goes on from the state database, under the new    *)
(* one.                                                                    *)
(*                                                                         *)
(* A document keeps the fields whose meaning depends on one another: the   *)
(* connectors and their types, the encryption key, the email section and   *)
(* the refresh policies of the static client and of the policy database's  *)
(* clients (durations in minutes, 0 when omitted).  The checks on a single *)
(* field, such as the syntax of a URL, are left out, and so is everything  *)
(* a sign-in does that AuthFlow models: this module follows one sign-in.   *)
(***************************************************************************)
EXTENDS Integers

CONSTANTS
    ConnectorIDs,      \* the names of user_login_connectors
    Documents,         \* the documents an operator may deploy
    None

Clients == {"static", "database"}
Duration == Nat

RefreshPolicy ==
    [enabled : BOOLEAN, offline : BOOLEAN, sessionIdle : Duration, sessionAbsolute : Duration,
     offlineIdle : Duration, offlineAbsolute : Duration]

EmailSection ==
    [mode : {"", "disabled", "provider", "strict"}, secret : BOOLEAN, smtp : BOOLEAN,
     ttl : Duration]

ConnectorTypes == {"email", "github", "google", "generic"}

\* None is the absence of a field: no connector's type and no credential.
ASSUME ConfigurationAssumption ==
    /\ None \notin ConnectorTypes
    /\ \A document \in Documents :
          /\ document \in [connectors : [ConnectorIDs -> ConnectorTypes \cup {None}],
                           encryption : {document.encryption},
                           email : EmailSection \cup {None},
                           clients : [Clients -> RefreshPolicy \cup {None}]]
          /\ \A whole \in BOOLEAN, from \in ConnectorTypes :
                None # [key |-> document.encryption, whole |-> whole, from |-> from]

VARIABLES
    running,   \* the effective configuration of the running server, or None
    flow       \* the sign-in

vars == <<running, flow>>

NoFlow == [pc |-> "none"]

Init ==
    /\ running = None
    /\ flow = NoFlow

--------------------------------------------------------------------------------
(* The loader *)

\* applyDurationDefault.
Default(value, fallback) == IF value = 0 THEN fallback ELSE value

\* applyRefreshDefaults.
RefreshDefaults(policy) ==
    [policy EXCEPT !.sessionIdle = Default(@, 30), !.sessionAbsolute = Default(@, 600),
                   !.offlineIdle = Default(@, 43200), !.offlineAbsolute = Default(@, 129600)]

\* The email section's defaults.
EmailDefaults(email) ==
    [email EXCEPT !.mode = IF @ = "" THEN "disabled" ELSE @, !.ttl = Default(@, 5)]

\* What Parse makes of a document before it validates it.
WithDefaults(document) ==
    [document EXCEPT
        !.email = IF @ = None THEN None ELSE EmailDefaults(@),
        !.clients = [c \in Clients |-> IF @[c] = None THEN None ELSE RefreshDefaults(@[c])]]

TypesOf(document) == {document.connectors[id] : id \in ConnectorIDs} \ {None}
RefreshEnabled(document) ==
    \E c \in Clients : document.clients[c] # None /\ document.clients[c].enabled

\* Mutant: the clients of the policy database are forgotten.
NeedsEncryptionStatic(document) ==
    \/ "github" \in TypesOf(document)
    \/ /\ document.clients["static"] # None /\ document.clients["static"].enabled
       /\ TypesOf(document) \ {"email"} # {}

\* Whether some sign-in stores an upstream credential.
NeedsEncryption(document) ==
    \/ "github" \in TypesOf(document)
    \/ RefreshEnabled(document) /\ TypesOf(document) \ {"email"} # {}

\* Whether some sign-in sends a code: the loader and serve each work it out.
NeedsEmailDelivery(document) ==
    "email" \in TypesOf(document) \/ document.email.mode \in {"provider", "strict"}

\* The email section: required by an email connector, complete when a code can be sent.
ValidEmail(document) ==
    IF document.email = None
    THEN "email" \notin TypesOf(document)
    ELSE NeedsEmailDelivery(document) =>
             document.email.secret /\ document.email.smtp /\ document.email.ttl \in 1 .. 10

ValidRefresh(policy) ==
    /\ policy.offline => policy.enabled
    /\ policy.sessionIdle <= policy.sessionAbsolute
    /\ policy.offlineIdle <= policy.offlineAbsolute

\* validate, without the checks on single fields.
Valid(document) ==
    /\ TypesOf(document) # {}
    /\ NeedsEncryption(document) => document.encryption # None
    /\ ValidEmail(document)
    /\ \E c \in Clients : document.clients[c] # None
    /\ \A c \in Clients : document.clients[c] # None => ValidRefresh(document.clients[c])

\* Parse.
Accepted(document) == Valid(WithDefaults(document))

--------------------------------------------------------------------------------
(* The server *)

\* serve: the document is accepted and every secret it names is there.
Start ==
    /\ running = None
    /\ \E document \in Documents :
          /\ Accepted(document)
          /\ running' = WithDefaults(document)
    /\ UNCHANGED flow

\* The server stops or crashes.  The sign-in stays in the state database and with the browser.
Stop ==
    /\ running # None
    /\ running' = None
    /\ flow' = IF flow = NoFlow THEN NoFlow ELSE [flow EXCEPT !.undisturbed = FALSE]

\* serve creates the mailer and loads the code secret only when a code can be sent.
Mailer == running.email # None /\ running.email.smtp /\ NeedsEmailDelivery(running)
OTPSecret == running.email # None /\ NeedsEmailDelivery(running)

TypeOf(id) == running.connectors[id]
ClientOf(c) == running.clients[c]

--------------------------------------------------------------------------------
(* The sign-in *)

Failed(f) == [f EXCEPT !.pc = "failed"]

\* HandleAuthorize, with the consent that an offline request asks for.
Authorize(client, offline) ==
    /\ running # None
    /\ flow = NoFlow
    /\ ClientOf(client) # None
    /\ offline => ClientOf(client).enabled /\ ClientOf(client).offline
    /\ flow' = [pc |-> "selecting", client |-> client, connector |-> None, credential |-> None,
                mode |-> IF offline THEN "offline"
                         ELSE IF ClientOf(client).enabled THEN "session" ELSE "",
                sent |-> None, family |-> None, undisturbed |-> TRUE]
    /\ UNCHANGED running

\* The user chooses a connector that leads to a provider.
SelectConnector(id) ==
    /\ running # None
    /\ flow.pc = "selecting"
    /\ TypeOf(id) \notin {None, "email"}
    /\ flow' = [flow EXCEPT !.pc = "upstream", !.connector = id]
    /\ UNCHANGED running

\* beginOTP: the challenge is stored and the code handed to the mailer.
BeginOTP(f) ==
    [f EXCEPT !.pc = "challenge",
              !.sent = [mailer |-> Mailer, secret |-> OTPSecret,
                        ttl |-> IF running.email = None THEN 0 ELSE running.email.ttl]]

HandleEmailStart(id) ==
    /\ running # None
    /\ flow.pc = "selecting"
    /\ TypeOf(id) = "email"
    /\ flow' = BeginOTP([flow EXCEPT !.connector = id])
    /\ UNCHANGED running

\* stateSatisfiesClientPolicy, for the refresh mode.
SatisfiesPolicy(f) ==
    /\ ClientOf(f.client) # None
    /\ f.mode # "" => ClientOf(f.client).enabled
    /\ f.mode = "offline" => ClientOf(f.client).offline

\* Mutant: a connector that became one with a provider is not noticed.
FitsAnyway(f) == TRUE

\* Whether the stored credential and the connector's type fit: only an email sign-in has none.
Fits(f) == (f.credential # None) # (TypeOf(f.connector) = "email")

\* complete: the credential is sealed again under the code.  One that cannot be opened with
\* this server's key any more goes on as an empty one; without a key the sign-in fails.
Complete(f) ==
    IF \/ ~SatisfiesPolicy(f)
       \/ f.credential # None /\ running.encryption = None
       \/ f.mode # "" /\ (TypeOf(f.connector) = None \/ ~Fits(f))
    THEN Failed(f)
    ELSE [f EXCEPT !.pc = "code",
                   !.credential =
                      IF @ = None THEN None
                      ELSE [key |-> running.encryption,
                            whole |-> @.whole /\ @.key = running.encryption,
                            from |-> @.from]]

\* verificationAccepted.
VerificationAccepted(verified, local) ==
    LET mode == IF running.email = None THEN "disabled" ELSE running.email.mode
    IN  mode = "disabled" \/ local \/ (mode = "provider" /\ verified)

AcceptOrChallenge(f, verified, local) ==
    IF VerificationAccepted(verified, local) THEN Complete(f)
    ELSE IF Mailer THEN BeginOTP(f) ELSE Failed(f)

\* HandleCallback: the provider's tokens are kept when the sign-in may be refreshed.  What is
\* stored does not say which type of provider they came from; the model remembers it.
HandleCallback(verified, local) ==
    /\ running # None
    /\ flow.pc = "upstream"
    /\ flow' = IF \/ TypeOf(flow.connector) \in {None, "email"}
                  \/ flow.mode # "" /\ running.encryption = None
               THEN Failed(flow)
               ELSE LET kept == IF flow.mode = "" THEN None
                                ELSE [key |-> running.encryption, whole |-> TRUE,
                                      from |-> TypeOf(flow.connector)]
                    IN  AcceptOrChallenge([flow EXCEPT !.credential = kept], verified, local)
    /\ UNCHANGED running

\* The user enters the code, while the server has the means to check it.
HandleEmailVerify ==
    /\ running # None /\ Mailer /\ OTPSecret
    /\ flow.pc = "challenge"
    /\ flow' = Complete(flow)
    /\ UNCHANGED running

\* The conditions of the token endpoint on a code of a sign-in that may be refreshed.  One that
\* fails leaves the code as it is.
Redeemable(f) ==
    /\ ClientOf(f.client) # None
    /\ f.mode # "" =>
          /\ SatisfiesPolicy(f)
          /\ TypeOf(f.connector) # None
          /\ Fits(f)
          /\ f.credential # None =>
                f.credential.whole /\ f.credential.key = running.encryption

\* HandleToken: the family takes its lifetimes from the client's policy now.
HandleToken ==
    /\ running # None
    /\ flow.pc = "code" /\ Redeemable(flow)
    /\ LET policy == ClientOf(flow.client)
           family == [type |-> TypeOf(flow.connector), credential |-> flow.credential,
                      idle |-> IF flow.mode = "offline" THEN policy.offlineIdle
                               ELSE policy.sessionIdle,
                      absolute |-> IF flow.mode = "offline" THEN policy.offlineAbsolute
                                   ELSE policy.sessionAbsolute]
       IN  flow' = [flow EXCEPT !.pc = "done",
                                !.family = IF flow.mode = "" THEN None ELSE family]
    /\ UNCHANGED running

\* The user gives up or has signed in, and begins again.
Again ==
    /\ flow # NoFlow
    /\ flow' = NoFlow
    /\ UNCHANGED running

Next ==
    \/ Start \/ Stop
    \/ \E client \in Clients, offline \in BOOLEAN : Authorize(client, offline)
    \/ \E id \in ConnectorIDs : SelectConnector(id) \/ HandleEmailStart(id)
    \/ \E verified, local \in BOOLEAN : HandleCallback(verified, local)
    \/ HandleEmailVerify \/ HandleToken \/ Again

Spec == Init /\ [][Next]_vars

--------------------------------------------------------------------------------
(* Properties *)

\* A sign-in that one server carried out from its beginning is never refused for something
\* the configuration lacks: the loader's rules, what serve builds from them and what the
\* handlers ask for agree, for every connector, verification mode and kind of client.
UndisturbedSignInSucceeds ==
    flow # NoFlow /\ running # None /\ flow.undisturbed =>
        /\ flow.pc # "failed"
        /\ flow.pc = "code" => Redeemable(flow)
        /\ flow.pc = "challenge" => Mailer /\ OTPSecret

\* What a sign-in leaves behind rests on what it needs, whatever was restarted and reconfigured
\* on the way (the connector's type, the encryption key, the mailer, the client's policy).  A
\* code is stored only where it can be sent, sealed with the code secret and with a lifetime of
\* one to ten minutes: HandleEmailStart does not look at the mailer, it relies on the loader.  A
\* family of an email connector holds no credential, one at a provider a readable one: HandleToken
\* notices a connector that changed between the two kinds.  It does not compare the types of two
\* providers, so only a sign-in that one server carried out is known to hold the credential of its
\* connector's own type; after a restart in between it may be the former type's, which the new
\* provider does not accept.  The idle lifetime of a family is positive and no longer than its
\* absolute one, whichever of the durations the document left to their defaults.
SignInBacked ==
    flow # NoFlow =>
        /\ flow.sent # None =>
              flow.sent.mailer /\ flow.sent.secret /\ flow.sent.ttl \in 1 .. 10
        /\ flow.family # None =>
              /\ flow.family.type = "email" => flow.family.credential = None
              /\ flow.family.type # "email" =>
                    flow.family.credential # None /\ flow.family.credential.whole
              /\ 0 < flow.family.idle /\ flow.family.idle <= flow.family.absolute
        /\ flow.pc = "done" /\ flow.undisturbed /\ flow.family # None =>
              flow.family.type = "email" \/ flow.family.credential.from = flow.family.type

================================================================================
