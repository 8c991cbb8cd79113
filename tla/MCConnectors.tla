----------------------------- MODULE MCConnectors ------------------------------
(* A small instance for TLC of the connectors: as they are configured and   *)
(* sign-ins depend on them (Configuration), and as they use their provider  *)
(* (UpstreamClient).  Configuration takes a provider's answers either way,  *)
(* and the configuration of a connector does not change while it is called, *)
(* so one of the two moves in a behaviour and the other rests.              *)
EXTENDS Configuration, TLC

CONSTANTS Keys,
          Types, Lifetimes, Latencies, ShortLifetimes, LongLatencies, Pauses, RenewWindow,
          ExpiryDelta, Budget, Patience, MaxGen

\* Times are whole seconds.
ASSUME ClientAssumption ==
    /\ RenewWindow \in Nat /\ ExpiryDelta \in Nat /\ Budget \in Nat /\ Patience \in Nat
    /\ Lifetimes \subseteq Nat /\ Latencies \subseteq Nat /\ Pauses \subseteq Nat

VARIABLE part   \* the part that moves
VARIABLES type, current, family, marked, call

\* A provider that answers soon, and one whose tokens live briefly or whose
\* answers take long: the HTTP client then renews tokens by itself.
Client == INSTANCE UpstreamClient
SlowClient == INSTANCE UpstreamClient
                WITH Lifetimes <- ShortLifetimes, Latencies <- LongLatencies
clientVars == <<type, current, family, marked, call>>

Policy(enabled, offline, sessionIdle, sessionAbsolute, offlineAbsolute) ==
    [enabled |-> enabled, offline |-> offline, sessionIdle |-> sessionIdle,
     sessionAbsolute |-> sessionAbsolute, offlineIdle |-> 0, offlineAbsolute |-> offlineAbsolute]

Defaults(enabled, offline) == Policy(enabled, offline, 0, 0, 0)

\* Disabled; sessions with the defaults; an absolute lifetime below the default idle one.
MCDatabasePolicies ==
    {None, Defaults(FALSE, FALSE), Defaults(TRUE, FALSE), Policy(TRUE, FALSE, 0, 20, 0)}

\* And offline without refresh; offline with it, and with an absolute lifetime below the
\* default idle one.
MCStaticPolicies ==
    MCDatabasePolicies \cup
        {Defaults(FALSE, TRUE), Policy(TRUE, TRUE, 20, 20, 0), Policy(TRUE, TRUE, 0, 0, 20)}

\* No section, a complete one, and one in which the secret, the server or the lifetime is wrong.
MCEmail ==
    {None} \cup {e \in [mode : {"", "provider", "strict"}, secret : BOOLEAN, smtp : BOOLEAN,
                        ttl : {0, 11}] :
                    e.ttl = 11 => e.secret /\ e.smtp}

\* One connector may be of any type; the other one, if there is one, is an email connector.
MCDocuments ==
    [connectors : {f \in [ConnectorIDs -> {"email", "github", "google", None}] :
                      \E id \in ConnectorIDs :
                          \A other \in ConnectorIDs \ {id} : f[other] \in {"email", None}},
     encryption : Keys \cup {None}, email : MCEmail,
     clients : {f \in [Clients -> MCStaticPolicies] : f["database"] \in MCDatabasePolicies}]

MCInit ==
    /\ Init /\ Client!Init
    /\ \/ part = "configuration" /\ type = CHOOSE t \in Types : TRUE
       \/ part \in {"client", "slowClient"}

MCNext ==
    /\ UNCHANGED part
    /\ \/ part = "configuration" /\ Next /\ UNCHANGED clientVars
       \/ part = "client" /\ Client!Next /\ UNCHANGED vars
       \/ part = "slowClient" /\ SlowClient!Next /\ UNCHANGED vars

MCSpec == MCInit /\ [][MCNext]_<<part, vars, clientVars>>

\* A rotation at a provider that answers soon is recorded before it can happen
\* (MarkUpstreamRefreshStarted and the renewal window).
RotationRecorded == part # "slowClient" => Client!RotationRecorded

\* Only a refusal, a refresh in doubt or a credential that is over ends a family
\* (Service.connector).
OutagesKeepFamily == Client!OutagesKeepFamily

\* Connectors and keys are only compared.
MCSymmetry == Permutations(ConnectorIDs) \cup Permutations(Keys)

================================================================================
