---------------------------- MODULE AuthFlowProofs ----------------------------
(***************************************************************************)
(* Proofs about AuthFlow, for any number of flows, requests, connectors,   *)
(* accounts and addresses, every verification mode and all lifetimes.      *)
(***************************************************************************)
EXTENDS AuthFlow, FiniteSetTheorems, TLAPS

-----------------------------------------------------------------------------
(* Types.                                                                   *)

\* A state keeps its type when a handler sets its token, connector or consent.
LEMMA StateUpdates ==
    ASSUME NEW s \in State
    PROVE  /\ s.flow \in Flows
           /\ s.connector \in Connectors \cup {None}
           /\ s.mode \in {"", "session", "offline"}
           /\ \A k \in Keys : [s EXCEPT !.key = k] \in Stored
           /\ \A c \in Connectors : [s EXCEPT !.connector = c] \in State
           /\ [s EXCEPT !.consent = TRUE] \in State
BY DEF State, Stored

\* What a request holds at each place.
LEMMA RequestAt ==
    ASSUME NEW q \in Request
    PROVE  /\ q.pc = "encoding" => q \in [pc : {"encoding"}, state : State]
           /\ q.pc \in {"saving", "asking"} =>
                  q \in [pc : {"saving", "asking"}, state : Stored, subject : Subjects]
           /\ q.pc = "offering" => q \in [pc : {"offering"}, state : State, subject : Subjects,
                                          emails : SUBSET Assertion]
           /\ q.pc \in {"deciding", "verifying"} =>
                  q \in [pc : {"deciding", "verifying", "challenging", "completing"},
                         state : State, person : Person]
           /\ q.pc \in {"challenging", "completing", "recording", "loading", "minting"} =>
                  q.state \in State /\ q.person \in Person
           /\ q.pc = "recording" => q.local \in BOOLEAN
           /\ q.pc \in {"loading", "minting"} =>
                  q \in [pc : {"loading", "minting"}, state : State, person : Person,
                         cred : Credential \cup {None}]
           /\ q.pc = "relabelling" =>
                  q \in [pc : {"relabelling"}, state : State, cred : Credential, code : Keys]
           /\ q.pc \in {"backing", "consuming"} =>
                  q \in [pc : {"backing", "consuming"}, code : Code,
                         cred : Credential \cup {None}]
BY DEF Request, Idle

\* What NewKey and Generate make is a token, and counted.
LEMMA GenerateType ==
    ASSUME TypeOK, NEW f \in Flows, Generate(f)
    PROVE  NewKey(f) \in Keys /\ issued' \in [Flows -> 0..MaxKeys]
BY FlowAssumption DEF TypeOK, Generate, NewKey, Keys

\* A state that is saved is a row.
LEMMA SavedType ==
    ASSUME TypeOK, NEW s \in State, Generate(s.flow)
    PROVE  Saved(s) \subseteq StateRow
<1>1. s.flow \in Flows
    BY StateUpdates
<1>2. NewKey(s.flow) \in Keys
    BY <1>1, GenerateType
<1>3. [s EXCEPT !.key = NewKey(s.flow)] \in Stored
    BY <1>2, StateUpdates
<1>4. clock \in Nat /\ clock + StateTTL \in Nat /\ states \subseteq StateRow
    BY FlowAssumption DEF TypeOK
<1> QED
    BY <1>3, <1>4 DEF Saved, StateRow

\* A sole connector is one of the connectors.
LEMMA SoleConnector ==
    ASSUME Cardinality(Upstream) = 1
    PROVE  (CHOOSE c \in Upstream : TRUE) \in Upstream
<1>1. Upstream # {}
    BY FS_EmptySet
<1> QED
    BY <1>1

\* continueAuthorization goes on with a state.
LEMMA ContinuedType ==
    ASSUME NEW s \in State, NEW p
    PROVE  Continued(s, p) \in State
<1>1. CASE Direct = {} /\ Cardinality(Upstream) = 1 /\ ~p.create
    <2>1. (CHOOSE c \in Upstream : TRUE) \in Connectors
        BY <1>1, SoleConnector DEF Connectors
    <2> QED
        BY <1>1, <2>1, StateUpdates DEF Continued
<1>2. CASE ~(Direct = {} /\ Cardinality(Upstream) = 1 /\ ~p.create)
    BY <1>2 DEF Continued
<1> QED
    BY <1>1, <1>2

\* Beginning a flow keeps the types.
LEMMA BeginType ==
    ASSUME TypeOK, NEW f \in Flows, NEW p \in Profiles
    PROVE  /\ Push(f, p) => TypeOK'
           /\ \A m \in {"", "session", "offline"} : Authorize(f, p, m) => TypeOK'
<1>1. p \in Profile
    BY FlowAssumption
<1>2. ASSUME Push(f, p) PROVE TypeOK'
    <2>1. clock + PushTTL \in Nat
        BY FlowAssumption DEF TypeOK
    <2>2. pushed' \subseteq Pushed
        BY <1>2, <2>1 DEF Push, TypeOK, Pushed
    <2>3. profile' \in [Flows -> Profile \cup {None}]
        BY <1>1, <1>2 DEF Push, TypeOK
    <2> QED
        BY <1>2, <2>2, <2>3 DEF Push, TypeOK, history
<1>3. ASSUME NEW m \in {"", "session", "offline"}, Authorize(f, p, m) PROVE TypeOK'
    <2>1. NewState(f, m) \in State
        BY DEF NewState, State
    <2>2. PICK s \in State : s.flow = f /\ states' = Saved(s)
        <3> DEFINE s == IF p.offline THEN NewState(f, m) ELSE Continued(NewState(f, m), p)
        <3>1. s \in State
            BY <2>1, ContinuedType
        <3>2. NewState(f, m).flow = f
            BY DEF NewState
        <3>3. s.flow = f
            BY <3>2, <2>1 DEF Continued, State
        <3>4. states' = Saved(s)
            BY <1>3 DEF Authorize
        <3> QED
            BY <3>1, <3>3, <3>4
    <2>3. states' \subseteq StateRow
        BY <1>3, <2>2, SavedType DEF Authorize
    <2>4. issued' \in [Flows -> 0..MaxKeys]
        BY <1>3, GenerateType DEF Authorize
    <2>5. profile' \in [Flows -> Profile \cup {None}]
        BY <1>1, <1>3 DEF Authorize, TypeOK
    <2> QED
        BY <1>3, <2>3, <2>4, <2>5 DEF Authorize, TypeOK, history
<1> QED
    BY <1>2, <1>3

\* So does whatever a browser or a client asks for.
LEMMA AskType ==
    ASSUME TypeOK, NEW r \in Requests, Ask(r)
    PROVE  TypeOK'
<1> DEFINE ReqOK(q) == q \in Request => [req EXCEPT ![r] = q] \in [Requests -> Request]
<1>0. \A q : ReqOK(q)
    BY DEF TypeOK
<1>1. ASSUME NEW p \in pushed, NEW m \in {"", "session", "offline"}, ConsumePushed(r, p, m)
      PROVE  TypeOK'
    <2>1. NewState(p.flow, m) \in State
        BY DEF NewState, State, TypeOK, Pushed
    <2>2. [pc |-> "encoding", state |-> NewState(p.flow, m)] \in Request
        BY <2>1 DEF Request
    <2>3. req' \in [Requests -> Request]
        BY <1>0, <1>1, <2>2 DEF ConsumePushed
    <2> QED
        BY <1>1, <2>3 DEF ConsumePushed, TypeOK, history
<1>2. ASSUME NEW w \in states, Consent(r, w) PROVE TypeOK'
    <2>1. w.state \in State
        BY DEF TypeOK, StateRow, Stored
    <2>2. [w.state EXCEPT !.consent = TRUE] \in State /\ w.state.flow \in Flows
        BY <2>1, StateUpdates
    <2>3. [pc |-> "encoding", state |->
              Continued([w.state EXCEPT !.consent = TRUE], profile[w.state.flow])] \in Request
        BY <2>2, ContinuedType DEF Request
    <2>4. req' \in [Requests -> Request]
        BY <1>0, <1>2, <2>3 DEF Consent
    <2> QED
        BY <1>2, <2>2, <2>4 DEF Consent, TypeOK
<1>3. ASSUME NEW w \in states, NEW c \in Upstream, Select(r, w, c) PROVE TypeOK'
    <2>1. [w.state EXCEPT !.connector = c] \in State
        BY StateUpdates DEF TypeOK, StateRow, Stored, Connectors
    <2>2. [pc |-> "encoding", state |-> [w.state EXCEPT !.connector = c]] \in Request
        BY <2>1 DEF Request
    <2>3. req' \in [Requests -> Request]
        BY <1>0, <1>3, <2>2 DEF Select
    <2> QED
        BY <1>3, <2>3 DEF Select, TypeOK, history
<1>4. ASSUME NEW w \in states, NEW c \in Direct, NEW e \in Emails, EmailStart(r, w, c, e)
      PROVE  TypeOK'
    <2>1. [w.state EXCEPT !.connector = c] \in State
        BY StateUpdates DEF TypeOK, StateRow, Stored, Connectors
    <2>2. [subject |-> e, email |-> e, verified |-> FALSE] \in Person
        BY DEF Person
    <2>3. [pc |-> "challenging", state |-> [w.state EXCEPT !.connector = c],
           person |-> [subject |-> e, email |-> e, verified |-> FALSE]] \in Request
        BY <2>1, <2>2 DEF Request
    <2>4. req' \in [Requests -> Request]
        BY <1>0, <1>4, <2>3 DEF EmailStart
    <2> QED
        BY <1>4, <2>4 DEF EmailStart, TypeOK, history
<1>5. ASSUME NEW w \in states, NEW a \in Subjects, Callback(r, w, a) PROVE TypeOK'
    <2>1. w.state \in Stored /\ w.state.flow \in Flows
        BY StateUpdates DEF TypeOK, StateRow, Stored
    <2>2. [pc |-> IF w.state.mode = "" THEN "asking" ELSE "saving", state |-> w.state,
           subject |-> a] \in Request
        BY <2>1 DEF Request
    <2>3. req' \in [Requests -> Request]
        BY <1>0, <1>5, <2>2 DEF Callback
    <2>4. callers' \in [Flows -> SUBSET Subjects]
        BY <1>5, <2>1 DEF Callback, TypeOK
    <2> QED
        BY <1>5, <2>3, <2>4 DEF Callback, TypeOK, rows
<1>6. ASSUME NEW w \in selections, NEW a \in w.emails, ConsumeIdentitySelection(r, w, a)
      PROVE  TypeOK'
    <2>1. w.state \in State /\ w.subject \in Subjects /\ a \in Assertion
        BY DEF TypeOK, Selection
    <2>2. [subject |-> w.subject, email |-> a.email, verified |-> a.verified] \in Person
        BY <2>1 DEF Person, Assertion
    <2>3. [pc |-> "deciding", state |-> w.state,
           person |-> [subject |-> w.subject, email |-> a.email, verified |-> a.verified]]
              \in Request
        BY <2>1, <2>2 DEF Request
    <2>4. req' \in [Requests -> Request]
        BY <1>0, <1>6, <2>3 DEF ConsumeIdentitySelection
    <2> QED
        BY <1>6, <2>4 DEF ConsumeIdentitySelection, TypeOK, history
<1>7. ASSUME NEW o \in otps, ConsumeOTP(r, o) PROVE TypeOK'
    <2>1. o.state \in State /\ o.person \in Person
        BY DEF TypeOK, Challenge
    <2>2. [o.person EXCEPT !.verified = TRUE] \in Person
        BY <2>1 DEF Person
    <2>3. [pc |-> "recording", state |-> o.state, local |-> TRUE,
           person |-> [o.person EXCEPT !.verified = TRUE]] \in Request
        BY <2>1, <2>2 DEF Request
    <2>4. req' \in [Requests -> Request]
        BY <1>0, <1>7, <2>3 DEF ConsumeOTP
    <2>5. IdentityOf(o.state, o.person) \in Identity
        BY <2>1 DEF IdentityOf, Identity, State, Person
    <2> QED
        BY <1>7, <2>4, <2>5 DEF ConsumeOTP, TypeOK
<1>8. ASSUME NEW c \in codes, PeekCode(r, c) PROVE TypeOK'
    <2>1. c \in Code
        BY DEF TypeOK
    <2>2. [pc |-> IF c.state.mode = "" THEN "consuming" ELSE "backing", code |-> c,
           cred |-> None] \in Request
        BY <2>1 DEF Request
    <2>3. req' \in [Requests -> Request]
        BY <1>0, <1>8, <2>2 DEF PeekCode
    <2> QED
        BY <1>8, <2>3 DEF PeekCode, TypeOK, rows, history
<1> QED
    BY <1>1, <1>2, <1>3, <1>4, <1>5, <1>6, <1>7, <1>8 DEF Ask

\* And whatever a handler goes on to do.
LEMMA StepType ==
    ASSUME TypeOK, NEW r \in Requests, Step(r)
    PROVE  TypeOK'
<1> DEFINE q == req[r]
           ReqOK(x) == x \in Request => [req EXCEPT ![r] = x] \in [Requests -> Request]
<1>0. \A x : ReqOK(x)
    BY DEF TypeOK
<1>q. q \in Request /\ Idle \in Request
    BY DEF TypeOK, Request
<1>t. /\ clock \in Nat /\ clock + StateTTL \in Nat /\ clock + SelectionTTL \in Nat
      /\ clock + OTPTTL \in Nat /\ clock + CodeTTL \in Nat
    BY FlowAssumption DEF TypeOK
<1>1. ASSUME Encode(r) PROVE TypeOK'
    <2>1. q.state \in State /\ q.state.flow \in Flows
        BY <1>1, <1>q, RequestAt, StateUpdates DEF Encode, At
    <2>2. states' \subseteq StateRow /\ issued' \in [Flows -> 0..MaxKeys]
        BY <1>1, <2>1, SavedType, GenerateType DEF Encode
    <2>3. req' \in [Requests -> Request]
        BY <1>0, <1>q, <1>1 DEF Encode, Return
    <2> QED
        BY <1>1, <2>2, <2>3 DEF Encode, TypeOK, history
<1>2. ASSUME SaveFlowCredential(r) PROVE TypeOK'
    <2>1. q \in [pc : {"saving", "asking"}, state : Stored, subject : Subjects]
        BY <1>2, <1>q, RequestAt DEF SaveFlowCredential, At
    <2>2. [q EXCEPT !.pc = "asking"] \in Request
        BY <2>1 DEF Request
    <2>3. req' = [req EXCEPT ![r] = [q EXCEPT !.pc = "asking"]]
        BY <1>2 DEF SaveFlowCredential
    <2>4. req' \in [Requests -> Request]
        BY <1>0, <2>2, <2>3
    <2>5. q.state.flow \in Flows /\ q.state.key \in Keys /\ q.subject \in Subjects
        BY <2>1, StateUpdates DEF Stored
    <2>6. [key |-> q.state.key, cred |-> [flow |-> q.state.flow, subject |-> q.subject],
           exp |-> clock + StateTTL] \in Kept
        BY <1>t, <2>5 DEF Kept, Credential
    <2>7. credentials' \subseteq Kept
        BY <1>2, <2>6 DEF SaveFlowCredential, Relabelled, TypeOK
    <2> QED
        BY <1>2, <2>4, <2>7 DEF SaveFlowCredential, TypeOK, history
<1>3. ASSUME NEW e \in Assertions, GetIdentity(r, e) PROVE TypeOK'
    <2> DEFINE single == CHOOSE a \in e : TRUE
               person == [subject |-> q.subject, email |-> single.email,
                          verified |-> single.verified]
               offer  == [pc |-> "offering", state |-> q.state, subject |-> q.subject, emails |-> e]
               accept == [pc |-> "deciding", state |-> q.state, person |-> person]
    <2>1. q \in [pc : {"saving", "asking"}, state : Stored, subject : Subjects]
        BY <1>3, <1>q, RequestAt DEF GetIdentity, At
    <2>2. e \in SUBSET Assertion /\ single \in Assertion
        BY <1>3, FlowAssumption DEF GetIdentity
    <2>3. q.state \in State /\ q.subject \in Subjects
        BY <2>1 DEF Stored
    <2>4. person \in Person
        BY <2>2, <2>3 DEF Person, Assertion
    <2>5. offer \in Request /\ accept \in Request
        BY <2>2, <2>3, <2>4 DEF Request
    <2>6. req' = [req EXCEPT ![r] = IF Cardinality(e) > 1 THEN offer ELSE accept]
        BY <1>3 DEF GetIdentity
    <2>7. req' \in [Requests -> Request]
        BY <1>0, <2>5, <2>6
    <2>8. \A a \in e : [connector |-> q.state.connector, subject |-> q.subject, email |-> a.email]
                          \in Identity
        BY <2>2, <2>3 DEF Identity, State, Assertion
    <2>9. asserted' \subseteq Identity
        BY <1>3, <2>8 DEF GetIdentity, TypeOK
    <2> QED
        BY <1>3, <2>7, <2>9 DEF GetIdentity, TypeOK, rows
<1>4. ASSUME NEW w \in states, CreateIdentitySelection(r, w) PROVE TypeOK'
    <2>1. q \in [pc : {"offering"}, state : State, subject : Subjects, emails : SUBSET Assertion]
        BY <1>4, <1>q, RequestAt DEF CreateIdentitySelection, At
    <2>2. q.state.flow \in Flows
        BY <2>1, StateUpdates
    <2>3. NewKey(q.state.flow) \in Keys /\ issued' \in [Flows -> 0..MaxKeys]
        BY <1>4, <2>2, GenerateType DEF CreateIdentitySelection
    <2>4. [w EXCEPT !.exp = clock + SelectionTTL] \in StateRow
        BY <1>t DEF TypeOK, StateRow
    <2>5. [key |-> NewKey(q.state.flow), state |-> q.state, subject |-> q.subject,
           emails |-> q.emails, exp |-> clock + SelectionTTL] \in Selection
        BY <1>t, <2>1, <2>3 DEF Selection
    <2>6. req' \in [Requests -> Request]
        BY <1>0, <1>q, <1>4 DEF CreateIdentitySelection, Return
    <2>7. states' \subseteq StateRow /\ selections' \subseteq Selection
        BY <1>4, <2>4, <2>5 DEF CreateIdentitySelection, TypeOK
    <2> QED
        BY <1>4, <2>3, <2>6, <2>7 DEF CreateIdentitySelection, TypeOK, history
<1>5. ASSUME NEW w \in states, DecodeState(r, w) PROVE TypeOK'
    <2>1. q \in [pc : {"deciding", "verifying", "challenging", "completing"}, state : State,
                 person : Person]
        BY <1>5, <1>q, RequestAt DEF DecodeState, At
    <2>2. w.state \in State
        BY DEF TypeOK, StateRow, Stored
    <2>3. [q EXCEPT !.pc = "verifying", !.state = w.state] \in Request
        BY <2>1, <2>2 DEF Request
    <2>4. req' = [req EXCEPT ![r] = [q EXCEPT !.pc = "verifying", !.state = w.state]]
        BY <1>5 DEF DecodeState, TypeOK
    <2>5. req' \in [Requests -> Request]
        BY <1>0, <2>3, <2>4
    <2> QED
        BY <1>5, <2>5 DEF DecodeState, TypeOK, history
<1>6. ASSUME CredentialVerified(r) PROVE TypeOK'
    <2> DEFINE known_ == Local(IdentityOf(q.state, q.person))
               p      == [q.person EXCEPT !.verified = q.person.verified \/ known_]
    <2>1. q.state \in State /\ q.person \in Person
        BY <1>6, <1>q, RequestAt DEF CredentialVerified, At
    <2>2. p \in Person
        BY <2>1 DEF Person
    <2>3. known_ \in BOOLEAN
        BY DEF Local
    <2>4. \A l \in {"challenging", "recording", "completing"} :
              [pc |-> l, state |-> q.state, person |-> p, local |-> known_] \in Request
        BY <2>1, <2>2, <2>3 DEF Request
    <2>5. \E l \in {"challenging", "recording", "completing"} :
              req' = [req EXCEPT ![r] = [pc |-> l, state |-> q.state, person |-> p, local |-> known_]]
        BY <1>6 DEF CredentialVerified
    <2>6. req' \in [Requests -> Request]
        BY <1>0, <2>4, <2>5
    <2> QED
        BY <1>6, <2>6 DEF CredentialVerified, TypeOK, rows, history
<1>7. ASSUME SaveCredential(r) PROVE TypeOK'
    <2>1. q.state \in State /\ q.person \in Person /\ q.local \in BOOLEAN
        BY <1>7, <1>q, RequestAt DEF SaveCredential, At
    <2>2. IdentityOf(q.state, q.person) \in Identity
        BY <2>1 DEF IdentityOf, Identity, State, Person
    <2>3. known' \subseteq Known
        BY <1>7, <2>1, <2>2 DEF SaveCredential, TypeOK, Known, Local
    <2>4. [pc |-> "completing", state |-> q.state, person |-> q.person] \in Request
        BY <2>1 DEF Request
    <2>5. req' \in [Requests -> Request]
        BY <1>0, <1>7, <2>4 DEF SaveCredential
    <2> QED
        BY <1>7, <2>3, <2>5 DEF SaveCredential, TypeOK, history
<1>8. ASSUME CreateOTP(r) PROVE TypeOK'
    <2>1. q.state \in State /\ q.person \in Person
        BY <1>8, <1>q, RequestAt DEF CreateOTP, At
    <2>2. otps' \subseteq Challenge
        BY <1>8, <1>t, <2>1 DEF CreateOTP, TypeOK, Challenge
    <2>3. req' \in [Requests -> Request]
        BY <1>0, <1>q, <1>8 DEF CreateOTP, Return
    <2> QED
        BY <1>8, <2>2, <2>3 DEF CreateOTP, TypeOK, history
<1>9. ASSUME RenderGrants(r) PROVE TypeOK'
    <2>1. req' \in [Requests -> Request]
        BY <1>0, <1>q, <1>9 DEF RenderGrants, Return
    <2> QED
        BY <1>9, <2>1 DEF RenderGrants, TypeOK, rows, history
<1>10. ASSUME Admit(r) PROVE TypeOK'
    <2>1. q.state \in State /\ q.person \in Person
        BY <1>10, <1>q, RequestAt DEF Admit, At
    <2>2. [pc |-> IF q.state.mode = "" THEN "minting" ELSE "loading", state |-> q.state,
           person |-> q.person, cred |-> None] \in Request
        BY <2>1 DEF Request
    <2>3. req' \in [Requests -> Request]
        BY <1>0, <1>10, <2>2 DEF Admit
    <2> QED
        BY <1>10, <2>3 DEF Admit, TypeOK, rows, history
<1>l. \A key : LET found == Loadable(key)
              IN  (IF found = {} THEN None ELSE (CHOOSE w \in found : TRUE).cred)
                      \in Credential \cup {None}
    BY DEF Loadable, TypeOK, Kept
<1>11. ASSUME LoadFlowCredential(r) PROVE TypeOK'
    <2> DEFINE found == Loadable(q.state.key)
               c     == IF found = {} THEN None ELSE (CHOOSE w \in found : TRUE).cred
    <2>1. q \in [pc : {"loading", "minting"}, state : State, person : Person,
                 cred : Credential \cup {None}]
        BY <1>11, <1>q, RequestAt DEF LoadFlowCredential, At
    <2>2. c \in Credential \cup {None}
        BY <1>l
    <2>3. req' = [req EXCEPT ![r] = [q EXCEPT !.pc = "minting", !.cred = c]]
        BY <1>11 DEF LoadFlowCredential, TypeOK
    <2>4. [q EXCEPT !.pc = "minting", !.cred = c] \in Request
        BY <2>1, <2>2 DEF Request
    <2>5. req' \in [Requests -> Request]
        BY <1>0, <2>3, <2>4
    <2> QED
        BY <1>11, <2>5 DEF LoadFlowCredential, TypeOK, rows, history
<1>12. ASSUME GenerateCode(r) PROVE TypeOK'
    <2>1. q \in [pc : {"loading", "minting"}, state : State, person : Person,
                 cred : Credential \cup {None}]
        BY <1>12, <1>q, RequestAt DEF GenerateCode, At
    <2>2. q.state.flow \in Flows
        BY <2>1, StateUpdates
    <2>3. NewKey(q.state.flow) \in Keys /\ issued' \in [Flows -> 0..MaxKeys]
        BY <1>12, <2>2, GenerateType DEF GenerateCode
    <2>c. \A b \in BOOLEAN :
              [key |-> NewKey(q.state.flow), state |-> q.state, person |-> q.person,
               exp |-> clock + CodeTTL, sent |-> b] \in Code
        BY <1>t, <2>1, <2>3 DEF Code
    <2>4. codes' \subseteq Code
        BY <1>12, <2>c DEF GenerateCode, TypeOK
    <2>5. q.cred # None =>
              [pc |-> "relabelling", state |-> q.state, cred |-> q.cred,
               code |-> NewKey(q.state.flow)] \in Request
        BY <2>1, <2>3 DEF Request
    <2>6. req' \in [Requests -> Request]
        BY <1>0, <1>q, <1>12, <2>5 DEF GenerateCode
    <2> QED
        BY <1>12, <2>3, <2>4, <2>6 DEF GenerateCode, TypeOK, history
<1>13. ASSUME RelabelCredential(r) PROVE TypeOK'
    <2>1. q \in [pc : {"relabelling"}, state : State, cred : Credential, code : Keys]
        BY <1>13, <1>q, RequestAt DEF RelabelCredential, At
    <2>2. credentials' \subseteq Kept
        BY <1>13, <1>t, <2>1 DEF RelabelCredential, Relabelled, TypeOK, Kept
    <2>3. \A c \in codes : c \in Code /\ [c EXCEPT !.sent = TRUE] \in Code
        BY DEF TypeOK, Code
    <2>4. codes' \subseteq Code
        BY <1>13, <2>3 DEF RelabelCredential, Sent
    <2>5. req' \in [Requests -> Request]
        BY <1>0, <1>q, <1>13 DEF RelabelCredential, Return
    <2> QED
        BY <1>13, <2>2, <2>4, <2>5 DEF RelabelCredential, TypeOK, history
<1>14. ASSUME LoadCodeCredential(r) PROVE TypeOK'
    <2> DEFINE found == Loadable(q.code.key)
               c     == IF found = {} THEN None ELSE (CHOOSE w \in found : TRUE).cred
    <2>1. q \in [pc : {"backing", "consuming"}, code : Code, cred : Credential \cup {None}]
        BY <1>14, <1>q, RequestAt DEF LoadCodeCredential, At
    <2>2. c \in Credential \cup {None}
        BY <1>l
    <2>3. req' = [req EXCEPT ![r] = [q EXCEPT !.pc = "consuming", !.cred = c]]
        BY <1>14 DEF LoadCodeCredential, TypeOK
    <2>4. [q EXCEPT !.pc = "consuming", !.cred = c] \in Request
        BY <2>1, <2>2 DEF Request
    <2>5. req' \in [Requests -> Request]
        BY <1>0, <2>3, <2>4
    <2> QED
        BY <1>14, <2>5 DEF LoadCodeCredential, TypeOK, rows, history
<1>15. ASSUME ConsumeAuthCode(r) PROVE TypeOK'
    <2>1. q \in [pc : {"backing", "consuming"}, code : Code, cred : Credential \cup {None}]
        BY <1>15, <1>q, RequestAt DEF ConsumeAuthCode, At
    <2>2. [code |-> q.code.key, state |-> q.code.state, person |-> q.code.person,
           cred |-> q.cred] \in SignIn
        BY <2>1 DEF SignIn, Code
    <2>3. codes' \subseteq Code /\ redeemed' \subseteq SignIn /\ credentials' \subseteq Kept
        BY <1>15, <2>2 DEF ConsumeAuthCode, TypeOK
    <2>4. req' \in [Requests -> Request]
        BY <1>0, <1>q, <1>15 DEF ConsumeAuthCode, Return
    <2> QED
        BY <1>15, <2>3, <2>4 DEF ConsumeAuthCode, TypeOK, history
<1> QED
    BY <1>1, <1>2, <1>3, <1>4, <1>5, <1>6, <1>7, <1>8, <1>9, <1>10, <1>11, <1>12, <1>13,
       <1>14, <1>15 DEF Step

\* Every step keeps the types.
LEMMA NextType ==
    ASSUME TypeOK, [Next]_vars
    PROVE  TypeOK'
<1>1. CASE UNCHANGED vars
    BY <1>1 DEF vars, rows, history, TypeOK
<1>2. ASSUME NEW w \in states, Discard(w) PROVE TypeOK'
    BY <1>2 DEF Discard, TypeOK, history
<1>3. ASSUME NEW o \in otps, ResendOTP(o) PROVE TypeOK'
    <2>1. [o EXCEPT !.exp = clock + OTPTTL] \in Challenge
        BY FlowAssumption DEF TypeOK, Challenge
    <2>2. otps' \subseteq Challenge
        BY <1>3, <2>1 DEF ResendOTP, TypeOK
    <2> QED
        BY <1>3, <2>2 DEF ResendOTP, TypeOK, history
<1>4. ASSUME NEW r \in Requests, Fail(r) PROVE TypeOK'
    <2>1. Idle \in Request
        BY DEF Request
    <2>2. req' \in [Requests -> Request]
        BY <1>4, <2>1 DEF Fail, Return, TypeOK
    <2> QED
        BY <1>4, <2>2 DEF Fail, TypeOK, rows, history
<1>5. CASE \/ CleanupPushed \/ CleanupStates \/ CleanupSelections \/ CleanupOTPs
           \/ CleanupCredentials \/ CleanupCodes
    BY <1>5 DEF CleanupPushed, CleanupStates, CleanupSelections, CleanupOTPs,
                CleanupCredentials, CleanupCodes, TypeOK, history
<1>6. CASE Tick
    BY <1>6 DEF Tick, TypeOK, rows, history
<1> QED
    BY <1>1, <1>2, <1>3, <1>4, <1>5, <1>6, BeginType, AskType, StepType DEF Next

\* Rows, requests and histories of the flows keep their types.
THEOREM FlowTypeCorrect == Spec => []TypeOK
<1>1. Init => TypeOK
    BY FlowAssumption DEF Init, TypeOK, Request
<1>2. TypeOK /\ [Next]_vars => TypeOK'
    BY NextType
<1> QED
    BY <1>1, <1>2, PTL DEF Spec

-----------------------------------------------------------------------------
(* The life of a state token, and what is known of an identity.             *)

\* No state outlives its first expiry by more than one choice of an identity:
\* the property is inductive given the types.
THEOREM StateLifeHolds == Spec => []StateLife
<1>1. Init => StateLife
    BY DEF Init, StateLife
<1>2. ASSUME TypeOK, StateLife, [Next]_vars PROVE StateLife'
    <2> DEFINE Fresh(w) == w.exp <= w.made + StateTTL + SelectionTTL
    <2>t. clock \in Nat /\ StateTTL \in Nat /\ SelectionTTL \in Nat
        BY <1>2, FlowAssumption DEF TypeOK
    <2>s. \A s : \A w \in Saved(s) : Fresh(w)
        BY <1>2, <2>t DEF Saved, StateLife
    <2>1. ASSUME NEW f \in Flows, NEW p \in Profiles, NEW m, Authorize(f, p, m) PROVE StateLife'
        BY <2>1, <2>s DEF Authorize, StateLife
    <2>2. ASSUME NEW r \in Requests, Encode(r) PROVE StateLife'
        BY <2>2, <2>s DEF Encode, StateLife
    <2>3. ASSUME NEW r \in Requests, NEW w \in states, CreateIdentitySelection(r, w)
          PROVE  StateLife'
        <3>1. w \in StateRow
            BY <1>2 DEF TypeOK
        <3>2. Fresh([w EXCEPT !.exp = clock + SelectionTTL])
            BY <2>3, <2>t, <3>1 DEF CreateIdentitySelection, StateRow
        <3> QED
            BY <1>2, <2>3, <3>2 DEF CreateIdentitySelection, StateLife
    <2>4. CASE states' \subseteq states
        BY <1>2, <2>4 DEF StateLife
    <2>5. ASSUME NEW r \in Requests, Ask(r) PROVE StateLife'
        BY <2>4, <2>5 DEF Ask, ConsumePushed, Consent, Select, EmailStart, Callback, rows,
            ConsumeIdentitySelection, ConsumeOTP, PeekCode
    <2>6. ASSUME NEW r \in Requests, Step(r) PROVE StateLife'
        BY <2>2, <2>3, <2>4, <2>6 DEF Step, SaveFlowCredential, GetIdentity, DecodeState,
            CredentialVerified, SaveCredential, CreateOTP, RenderGrants, Admit, rows,
            LoadFlowCredential, GenerateCode, RelabelCredential, LoadCodeCredential,
            ConsumeAuthCode
    <2>7. CASE \/ \E f \in Flows, p \in Profiles : Push(f, p)
               \/ \E w \in states : Discard(w)
               \/ \E o \in otps : ResendOTP(o)
               \/ \E r \in Requests : Fail(r)
               \/ CleanupPushed \/ CleanupStates \/ CleanupSelections \/ CleanupOTPs
               \/ CleanupCredentials \/ CleanupCodes \/ Tick \/ UNCHANGED vars
        BY <2>4, <2>7 DEF Push, Discard, ResendOTP, Fail, CleanupPushed, CleanupStates,
            CleanupSelections, CleanupOTPs, CleanupCredentials, CleanupCodes, Tick, vars, rows
    <2> QED
        BY <1>2, <2>1, <2>5, <2>6, <2>7 DEF Next
<1> QED
    BY <1>1, <1>2, FlowTypeCorrect, PTL DEF Spec

\* A local verification is never lost, whatever the sign-in that overwrites the
\* record had read before.
THEOREM VerificationNeverLost == Spec => VerificationKept
<1> DEFINE Keeping == \A k \in known : k.local => [id |-> k.id, local |-> TRUE] \in known'
<1>1. ASSUME TypeOK, [Next]_vars PROVE Keeping
    <2>1. \A k \in known : k.local => k = [id |-> k.id, local |-> TRUE]
        BY <1>1 DEF TypeOK, Known
    <2>2. CASE UNCHANGED known
        BY <2>1, <2>2
    <2>3. ASSUME NEW r \in Requests, SaveCredential(r) PROVE Keeping
        <3> DEFINE i == IdentityOf(req[r].state, req[r].person)
        <3>1. known' = {k \in known : k.id # i} \cup {[id |-> i, local |-> req[r].local \/ Local(i)]}
            BY <2>3 DEF SaveCredential
        <3> SUFFICES ASSUME NEW k \in known, k.local PROVE [id |-> k.id, local |-> TRUE] \in known'
            OBVIOUS
        <3>2. CASE k.id # i
            BY <2>1, <3>1, <3>2
        <3>3. CASE k.id = i
            <4>1. Local(i)
                BY <3>3 DEF Local
            <4>2. (req[r].local \/ Local(i)) = TRUE
                BY <4>1
            <4> QED
                BY <3>1, <3>3, <4>2
        <3> QED
            BY <3>2, <3>3
    <2>4. ASSUME NEW r \in Requests, Ask(r) PROVE Keeping
        BY <2>2, <2>4 DEF Ask, ConsumePushed, Consent, Select, EmailStart, Callback, rows,
            ConsumeIdentitySelection, ConsumeOTP, PeekCode
    <2>5. ASSUME NEW r \in Requests, Step(r) PROVE Keeping
        BY <2>2, <2>3, <2>5 DEF Step, Encode, SaveFlowCredential, GetIdentity, DecodeState,
            CreateIdentitySelection, CredentialVerified, CreateOTP, RenderGrants, Admit, rows,
            LoadFlowCredential, GenerateCode, RelabelCredential, LoadCodeCredential,
            ConsumeAuthCode
    <2>6. CASE \/ \E f \in Flows, p \in Profiles :
                     Push(f, p) \/ \E m \in {"", "session", "offline"} : Authorize(f, p, m)
               \/ \E w \in states : Discard(w)
               \/ \E o \in otps : ResendOTP(o)
               \/ \E r \in Requests : Fail(r)
               \/ CleanupPushed \/ CleanupStates \/ CleanupSelections \/ CleanupOTPs
               \/ CleanupCredentials \/ CleanupCodes \/ Tick \/ UNCHANGED vars
        BY <2>2, <2>6 DEF Push, Authorize, Discard, ResendOTP, Fail, CleanupPushed,
            CleanupStates, CleanupSelections, CleanupOTPs, CleanupCredentials, CleanupCodes,
            Tick, vars, rows
    <2> QED
        BY <1>1, <2>4, <2>5, <2>6 DEF Next
<1> QED
    BY <1>1, FlowTypeCorrect, PTL DEF Spec, VerificationKept

-----------------------------------------------------------------------------
(* Consent.                                                                 *)

\* A state is of a flow that has begun, asks for offline access if its flow
\* does, and says that its user consented only if that is so.
Sound(s) ==
    /\ s \in State
    /\ profile[s.flow] \in Profile
    /\ profile[s.flow].offline => s.mode = "offline"
    /\ s.consent => s.flow \in consented

\* The state of a flow that complete has admitted.
Admitted(s) ==
    /\ Sound(s)
    /\ profile[s.flow].kind # "manage"
    /\ s.mode = "offline" => s.consent

ReqSound(q) ==
    /\ q.pc \in {"encoding", "saving", "asking", "offering", "deciding", "verifying",
                "challenging", "recording", "completing"} => Sound(q.state)
    /\ q.pc \in {"loading", "minting"} => Admitted(q.state)

\* Consent follows a flow through every row and handler that carries it.
ConsentInv ==
    /\ \A p \in pushed : profile[p.flow] \in Profile
    /\ \A x \in states \cup selections \cup otps : Sound(x.state)
    /\ \A r \in Requests : ReqSound(req[r])
    /\ \A x \in codes \cup redeemed : Admitted(x.state)

\* A flow begins once and consent is not taken back, so a sound state stays sound.
LEMMA SoundStays ==
    ASSUME TypeOK, [Next]_vars
    PROVE  /\ \A f \in Flows : profile[f] \in Profile => profile'[f] = profile[f]
           /\ consented \subseteq consented'
<1> DEFINE Stays == /\ \A f \in Flows : profile[f] \in Profile => profile'[f] = profile[f]
                    /\ consented \subseteq consented'
<1>1. CASE UNCHANGED <<profile, consented>>
    BY <1>1
<1>2. ASSUME NEW f \in Flows, NEW p \in Profiles,
             Push(f, p) \/ \E m \in {"", "session", "offline"} : Authorize(f, p, m)
      PROVE  Stays
    <2>1. profile[f] \notin Profile /\ profile' = [profile EXCEPT ![f] = p]
        BY <1>2, FlowAssumption DEF Push, Authorize
    <2>2. UNCHANGED consented
        BY <1>2 DEF Push, Authorize, history
    <2> QED
        BY <2>1, <2>2 DEF TypeOK
<1>3. ASSUME NEW r \in Requests, Ask(r) PROVE Stays
    BY <1>3 DEF Ask, ConsumePushed, Consent, Select, EmailStart, Callback, history,
        ConsumeIdentitySelection, ConsumeOTP, PeekCode
<1>4. ASSUME NEW r \in Requests, Step(r) PROVE Stays
    BY <1>1, <1>4 DEF Step, Encode, SaveFlowCredential, GetIdentity, DecodeState,
        CreateIdentitySelection, CredentialVerified, SaveCredential, CreateOTP, RenderGrants,
        Admit, history, LoadFlowCredential, GenerateCode, RelabelCredential,
        LoadCodeCredential, ConsumeAuthCode
<1>5. CASE \/ \E w \in states : Discard(w)
           \/ \E o \in otps : ResendOTP(o)
           \/ \E r \in Requests : Fail(r)
           \/ CleanupPushed \/ CleanupStates \/ CleanupSelections \/ CleanupOTPs
           \/ CleanupCredentials \/ CleanupCodes \/ Tick \/ UNCHANGED vars
    BY <1>1, <1>5 DEF Discard, ResendOTP, Fail, CleanupPushed, CleanupStates,
        CleanupSelections, CleanupOTPs, CleanupCredentials, CleanupCodes, Tick, vars, history
<1> QED
    BY <1>2, <1>3, <1>4, <1>5 DEF Next

\* So only what a step adds has to be looked at.
LEMMA ConsentCarried ==
    ASSUME TypeOK, [Next]_vars, ConsentInv,
           \A p \in pushed' : p \in pushed \/ profile'[p.flow] \in Profile,
           \A x \in states' \cup selections' \cup otps' :
               Sound(x.state) \/ Sound(x.state)',
           \A r \in Requests : ReqSound(req'[r]) \/ ReqSound(req[r])',
           \A x \in codes' \cup redeemed' : Admitted(x.state) \/ Admitted(x.state)'
    PROVE  ConsentInv'
<1>0. \A s : Sound(s) => profile'[s.flow] = profile[s.flow]
    BY SoundStays DEF Sound, State
<1>1. \A s : Sound(s) => Sound(s)'
    BY SoundStays DEF Sound, State
<1>2. \A s : Admitted(s) => Admitted(s)'
    BY <1>0, <1>1 DEF Admitted
<1>3. \A r \in Requests : ReqSound(req'[r]) => ReqSound(req[r])'
    BY <1>1, <1>2 DEF ReqSound
<1>4. \A p \in pushed : profile'[p.flow] \in Profile
    BY SoundStays DEF ConsentInv, TypeOK, Pushed
<1> QED
    BY <1>1, <1>2, <1>3, <1>4 DEF ConsentInv

\* Beginning a flow: nothing of it exists yet, and nobody has consented.
LEMMA BeginConsent ==
    ASSUME TypeOK, ConsentInv, [Next]_vars, NEW f \in Flows, NEW p \in Profiles
    PROVE  /\ Push(f, p) => ConsentInv'
           /\ \A m \in {"", "session", "offline"} : Authorize(f, p, m) => ConsentInv'
<1>1. p \in Profile
    BY FlowAssumption
<1>2. ASSUME Push(f, p) PROVE ConsentInv'
    <2>1. \A w \in pushed' : w \in pushed \/ profile'[w.flow] \in Profile
        BY <1>1, <1>2 DEF Push, TypeOK
    <2> QED
        BY <1>2, <2>1, ConsentCarried DEF Push, ConsentInv
<1>3. ASSUME NEW m \in {"", "session", "offline"}, Authorize(f, p, m) PROVE ConsentInv'
    <2> DEFINE n == NewState(f, m)
               s == IF p.offline THEN n ELSE Continued(n, p)
    <2>1. n \in State /\ n.flow = f /\ n.mode = m /\ ~n.consent
        BY DEF NewState, State
    <2>2. s \in State
        BY <2>1, ContinuedType
    <2>3. s.flow = f /\ s.mode = m /\ ~s.consent
        BY <2>1 DEF Continued, State
    <2>4. p.offline => m = "offline"
        BY <1>3 DEF Authorize, ModesOf
    <2>5. profile'[f] = p
        BY <1>3 DEF Authorize, TypeOK
    <2>6. NewKey(f) \in Keys
        BY <1>3, GenerateType DEF Authorize
    <2> DEFINE u == [s EXCEPT !.key = NewKey(f)]
    <2>7. u \in State /\ u.flow = f /\ u.mode = m /\ ~u.consent
        BY <2>2, <2>3, <2>6 DEF State
    <2>a. \A x \in states' : x \in states \/ x.state = u
        <3> DEFINE row == [state |-> u, made |-> clock, exp |-> clock + StateTTL]
        <3>1. states' = states \cup {row}
            BY <1>3, <2>3 DEF Authorize, Saved
        <3>2. row.state = u
            OBVIOUS
        <3> HIDE DEF row, u
        <3> QED
            BY <3>1, <3>2
    <2>8. PICK k \in State :
              /\ k.flow = f /\ k.mode = m /\ ~k.consent
              /\ \A x \in states' : x \in states \/ x.state = k
        <3> HIDE DEF u
        <3> QED
            BY <2>7, <2>a
    <2>9. Sound(k)'
        BY <1>1, <2>4, <2>5, <2>8 DEF Sound
    <2>10. \A x \in states' \cup selections' \cup otps' : Sound(x.state) \/ Sound(x.state)'
        BY <1>3, <2>8, <2>9 DEF Authorize, ConsentInv
    <2> QED
        BY <1>3, <2>10, ConsentCarried DEF Authorize, ConsentInv
<1> QED
    BY <1>2, <1>3

\* A handler that sets the connector or the token leaves a state sound.
LEMMA SoundUpdates ==
    ASSUME NEW s, Sound(s)
    PROVE  /\ \A c \in Connectors : Sound([s EXCEPT !.connector = c])
           /\ \A k \in Keys : Sound([s EXCEPT !.key = k])
BY DEF Sound, State

\* What a browser or a client asks for keeps consent with its flow. HandleConsent
\* is the only one that records it.
LEMMA AskConsent ==
    ASSUME TypeOK, ConsentInv, [Next]_vars, NEW r \in Requests, Ask(r)
    PROVE  ConsentInv'
<1>0. ASSUME NEW q, req' = [req EXCEPT ![r] = q], ReqSound(q) \/ ReqSound(q)',
             pushed' \subseteq pushed, states' \subseteq states, selections' \subseteq selections,
             otps' \subseteq otps, UNCHANGED <<codes, redeemed>>
      PROVE  ConsentInv'
    <2>1. req'[r] = q /\ \A x \in Requests : x # r => req'[x] = req[x]
        BY <1>0 DEF TypeOK
    <2>2. \A x \in Requests : ReqSound(req'[x]) \/ ReqSound(req[x])'
        BY <1>0, <2>1 DEF ConsentInv
    <2> QED
        BY <1>0, <2>2, ConsentCarried DEF ConsentInv
<1>1. ASSUME NEW p \in pushed, NEW m \in {"", "session", "offline"}, ConsumePushed(r, p, m)
      PROVE  ConsentInv'
    <2>1. p.flow \in Flows /\ profile[p.flow] \in Profile
        BY DEF TypeOK, Pushed, ConsentInv
    <2>2. profile[p.flow].offline => m = "offline"
        BY <1>1 DEF ConsumePushed, ModesOf
    <2>3. Sound(NewState(p.flow, m))
        BY <2>1, <2>2 DEF Sound, NewState, State
    <2>4. ReqSound([pc |-> "encoding", state |-> NewState(p.flow, m)])
        BY <2>3 DEF ReqSound
    <2> QED
        BY <1>0, <1>1, <2>4 DEF ConsumePushed
<1>2. ASSUME NEW w \in states, Consent(r, w) PROVE ConsentInv'
    <2> DEFINE t == [w.state EXCEPT !.consent = TRUE]
               s == Continued(t, profile[w.state.flow])
    <2>1. Sound(w.state) /\ w.state.flow \in consented' /\ profile' = profile
        BY <1>2 DEF ConsentInv, Consent
    <2>2. t \in State /\ t.flow = w.state.flow /\ t.mode = w.state.mode
        BY <2>1 DEF Sound, State
    <2>3. s \in State /\ s.flow = w.state.flow /\ s.mode = w.state.mode
        BY <2>2, ContinuedType DEF Continued, State
    <2>4. Sound(s)'
        BY <2>1, <2>3 DEF Sound
    <2>5. ReqSound([pc |-> "encoding", state |-> s])'
        BY <2>4 DEF ReqSound
    <2> QED
        BY <1>0, <1>2, <2>5 DEF Consent
<1>3. ASSUME NEW w \in states, NEW c \in Upstream, Select(r, w, c) PROVE ConsentInv'
    <2>1. Sound([w.state EXCEPT !.connector = c])
        BY SoundUpdates DEF ConsentInv, Connectors
    <2>2. ReqSound([pc |-> "encoding", state |-> [w.state EXCEPT !.connector = c]])
        BY <2>1 DEF ReqSound
    <2> QED
        BY <1>0, <1>3, <2>2 DEF Select
<1>4. ASSUME NEW w \in states, NEW c \in Direct, NEW e \in Emails, EmailStart(r, w, c, e)
      PROVE  ConsentInv'
    <2> DEFINE q == [pc |-> "challenging", state |-> [w.state EXCEPT !.connector = c],
                     person |-> [subject |-> e, email |-> e, verified |-> FALSE]]
    <2>1. Sound([w.state EXCEPT !.connector = c])
        BY SoundUpdates DEF ConsentInv, Connectors
    <2>2. ReqSound(q)
        BY <2>1 DEF ReqSound
    <2> QED
        BY <1>0, <1>4, <2>2 DEF EmailStart
<1>5. ASSUME NEW w \in states, NEW a \in Subjects, Callback(r, w, a) PROVE ConsentInv'
    <2> DEFINE q == [pc |-> IF w.state.mode = "" THEN "asking" ELSE "saving",
                     state |-> w.state, subject |-> a]
    <2>1. ReqSound(q)
        BY DEF ReqSound, ConsentInv
    <2> QED
        BY <1>0, <1>5, <2>1 DEF Callback, rows
<1>6. ASSUME NEW w \in selections, NEW a \in w.emails, ConsumeIdentitySelection(r, w, a)
      PROVE  ConsentInv'
    <2> DEFINE q == [pc |-> "deciding", state |-> w.state,
                     person |-> [subject |-> w.subject, email |-> a.email, verified |-> a.verified]]
    <2>1. ReqSound(q)
        BY DEF ReqSound, ConsentInv
    <2> QED
        BY <1>0, <1>6, <2>1 DEF ConsumeIdentitySelection
<1>7. ASSUME NEW o \in otps, ConsumeOTP(r, o) PROVE ConsentInv'
    <2> DEFINE q == [pc |-> "recording", state |-> o.state, local |-> TRUE,
                     person |-> [o.person EXCEPT !.verified = TRUE]]
    <2>1. ReqSound(q)
        BY DEF ReqSound, ConsentInv
    <2> QED
        BY <1>0, <1>7, <2>1 DEF ConsumeOTP
<1>8. ASSUME NEW c \in codes, PeekCode(r, c) PROVE ConsentInv'
    <2> DEFINE q == [pc |-> IF c.state.mode = "" THEN "consuming" ELSE "backing",
                     code |-> c, cred |-> None]
    <2>1. ReqSound(q)
        BY DEF ReqSound
    <2> QED
        BY <1>0, <1>8, <2>1 DEF PeekCode, rows
<1> QED
    BY <1>1, <1>2, <1>3, <1>4, <1>5, <1>6, <1>7, <1>8 DEF Ask

\* Nor does a handler lose it, and complete admits no flow without it.
LEMMA StepConsent ==
    ASSUME TypeOK, ConsentInv, [Next]_vars, NEW r \in Requests, Step(r)
    PROVE  ConsentInv'
<1> DEFINE q == req[r]
<1>q. ReqSound(q) /\ q \in Request
    BY DEF ConsentInv, TypeOK
<1>i. ReqSound(Idle)
    BY DEF ReqSound, Idle
<1>0. ASSUME NEW x, req' = [req EXCEPT ![r] = x], ReqSound(x)
      PROVE  \A y \in Requests : ReqSound(req'[y]) \/ ReqSound(req[y])'
    <2>1. req'[r] = x /\ \A y \in Requests : y # r => req'[y] = req[y]
        BY <1>0 DEF TypeOK
    <2> QED
        BY <1>0, <2>1 DEF ConsentInv
<1>r. ASSUME NEW x, req' = [req EXCEPT ![r] = x], ReqSound(x),
             pushed' \subseteq pushed, states' \subseteq states, selections' \subseteq selections,
             otps' \subseteq otps, codes' \subseteq codes, redeemed' \subseteq redeemed
      PROVE  ConsentInv'
    BY <1>0, <1>r, ConsentCarried DEF ConsentInv
<1>1. ASSUME Encode(r) PROVE ConsentInv'
    <2>1. Sound(q.state) /\ q.state.flow \in Flows
        BY <1>1, <1>q DEF Encode, At, ReqSound, Sound, State
    <2>2. Sound([q.state EXCEPT !.key = NewKey(q.state.flow)])
        BY <1>1, <2>1, GenerateType, SoundUpdates DEF Encode
    <2>3. \A x \in states' \cup selections' \cup otps' : Sound(x.state)
        BY <1>1, <2>2 DEF Encode, Saved, ConsentInv
    <2> QED
        BY <1>0, <1>i, <1>1, <2>3, ConsentCarried DEF Encode, Return, ConsentInv
<1>2. ASSUME SaveFlowCredential(r) PROVE ConsentInv'
    <2>1. q \in [pc : {"saving", "asking"}, state : Stored, subject : Subjects]
        BY <1>2, <1>q, RequestAt DEF SaveFlowCredential, At
    <2>2. ReqSound([q EXCEPT !.pc = "asking"])
        BY <1>2, <1>q, <2>1 DEF ReqSound, SaveFlowCredential, At
    <2>3. req' = [req EXCEPT ![r] = [q EXCEPT !.pc = "asking"]]
        BY <1>2 DEF SaveFlowCredential
    <2> QED
        BY <1>r, <1>2, <2>2, <2>3 DEF SaveFlowCredential
<1>3. ASSUME NEW e \in Assertions, GetIdentity(r, e) PROVE ConsentInv'
    <2> DEFINE single == CHOOSE a \in e : TRUE
               x == IF Cardinality(e) > 1
                    THEN [pc |-> "offering", state |-> q.state, subject |-> q.subject, emails |-> e]
                    ELSE [pc |-> "deciding", state |-> q.state,
                          person |-> [subject |-> q.subject, email |-> single.email,
                                      verified |-> single.verified]]
    <2>1. /\ x.pc \in {"offering", "deciding"} /\ x.state = q.state
          /\ req' = [req EXCEPT ![r] = x]
        BY <1>3 DEF GetIdentity
    <2>2. ReqSound(x)
        BY <1>3, <1>q, <2>1 DEF ReqSound, GetIdentity, At
    <2> QED
        BY <1>r, <1>3, <2>1, <2>2 DEF GetIdentity, rows
<1>4. ASSUME NEW w \in states, CreateIdentitySelection(r, w) PROVE ConsentInv'
    <2>1. Sound(q.state) /\ Sound(w.state) /\ w \in StateRow
        BY <1>4, <1>q DEF CreateIdentitySelection, At, ReqSound, ConsentInv, TypeOK
    <2>2. Sound([w EXCEPT !.exp = clock + SelectionTTL].state)
        BY <2>1 DEF StateRow
    <2>s. \A x \in selections' : x \in selections \/ x.state = q.state
        BY <1>4 DEF CreateIdentitySelection
    <2>3. \A x \in states' \cup selections' \cup otps' : Sound(x.state)
        BY <1>4, <2>1, <2>2, <2>s DEF CreateIdentitySelection, ConsentInv
    <2> QED
        BY <1>0, <1>i, <1>4, <2>3, ConsentCarried DEF CreateIdentitySelection, Return, ConsentInv
<1>5. ASSUME NEW w \in states, DecodeState(r, w) PROVE ConsentInv'
    <2> DEFINE x == [q EXCEPT !.pc = "verifying", !.state = w.state]
    <2>1. q \in [pc : {"deciding", "verifying", "challenging", "completing"}, state : State,
                 person : Person]
        BY <1>5, <1>q, RequestAt DEF DecodeState, At
    <2>2. x.pc = "verifying" /\ x.state = w.state
        BY <2>1
    <2>3. ReqSound(x)
        BY <2>2 DEF ReqSound, ConsentInv
    <2>4. req' = [req EXCEPT ![r] = x]
        BY <1>5 DEF DecodeState, TypeOK
    <2> QED
        BY <1>r, <1>5, <2>3, <2>4 DEF DecodeState
<1>6. ASSUME CredentialVerified(r) PROVE ConsentInv'
    <2> DEFINE i == IdentityOf(q.state, q.person)
               v == q.person.verified
               x == [pc |-> IF ~VerificationAccepted(v, Local(i)) THEN "challenging"
                            ELSE IF ~Exists(i) \/ v THEN "recording" ELSE "completing",
                     state |-> q.state,
                     person |-> [q.person EXCEPT !.verified = v \/ Local(i)],
                     local |-> Local(i)]
    <2>1. /\ x.pc \in {"challenging", "recording", "completing"} /\ x.state = q.state
          /\ req' = [req EXCEPT ![r] = x]
        BY <1>6 DEF CredentialVerified
    <2>2. ReqSound(x)
        BY <1>6, <1>q, <2>1 DEF ReqSound, CredentialVerified, At
    <2> QED
        BY <1>r, <1>6, <2>1, <2>2 DEF CredentialVerified, rows
<1>7. ASSUME SaveCredential(r) PROVE ConsentInv'
    <2>1. ReqSound([pc |-> "completing", state |-> q.state, person |-> q.person])
        BY <1>7, <1>q DEF ReqSound, SaveCredential, At
    <2> QED
        BY <1>r, <1>7, <2>1 DEF SaveCredential
<1>8. ASSUME CreateOTP(r) PROVE ConsentInv'
    <2>1. Sound(q.state)
        BY <1>8, <1>q DEF CreateOTP, At, ReqSound
    <2>2. \A x \in states' \cup selections' \cup otps' : Sound(x.state)
        BY <1>8, <2>1 DEF CreateOTP, ConsentInv
    <2> QED
        BY <1>0, <1>i, <1>8, <2>2, ConsentCarried DEF CreateOTP, Return, ConsentInv
<1>9. ASSUME RenderGrants(r) PROVE ConsentInv'
    BY <1>r, <1>i, <1>9 DEF RenderGrants, Return, rows
<1>10. ASSUME Admit(r) PROVE ConsentInv'
    <2>1. Admitted(q.state)
        BY <1>10, <1>q DEF Admit, At, ReqSound, Admitted
    <2>2. ReqSound([pc |-> IF q.state.mode = "" THEN "minting" ELSE "loading",
                    state |-> q.state, person |-> q.person, cred |-> None])
        BY <2>1 DEF ReqSound
    <2> QED
        BY <1>r, <1>10, <2>2 DEF Admit, rows
<1>11. ASSUME LoadFlowCredential(r) PROVE ConsentInv'
    <2>1. q \in [pc : {"loading", "minting"}, state : State, person : Person,
                 cred : Credential \cup {None}]
        BY <1>11, <1>q, RequestAt DEF LoadFlowCredential, At
    <2>2. PICK c : req' = [req EXCEPT ![r] = [q EXCEPT !.pc = "minting", !.cred = c]]
        BY <1>11 DEF LoadFlowCredential, TypeOK
    <2>3. [q EXCEPT !.pc = "minting", !.cred = c].pc = "minting"
          /\ [q EXCEPT !.pc = "minting", !.cred = c].state = q.state
        BY <2>1
    <2>4. ReqSound([q EXCEPT !.pc = "minting", !.cred = c])
        BY <1>11, <1>q, <2>3 DEF ReqSound, LoadFlowCredential, At
    <2> QED
        BY <1>r, <1>11, <2>2, <2>4 DEF LoadFlowCredential, rows
<1>12. ASSUME GenerateCode(r) PROVE ConsentInv'
    <2>1. Admitted(q.state)
        BY <1>12, <1>q DEF GenerateCode, At, ReqSound
    <2>2. \A x \in codes' \cup redeemed' : Admitted(x.state)
        BY <1>12, <2>1 DEF GenerateCode, ConsentInv
    <2> DEFINE x == IF q.cred = None THEN Idle
                    ELSE [pc |-> "relabelling", state |-> q.state, cred |-> q.cred,
                          code |-> NewKey(q.state.flow)]
    <2>3. x.pc \in {"idle", "relabelling"} /\ req' = [req EXCEPT ![r] = x]
        BY <1>12 DEF GenerateCode, Idle
    <2>4. ReqSound(x)
        BY <2>3 DEF ReqSound
    <2> QED
        BY <1>0, <1>12, <2>2, <2>3, <2>4, ConsentCarried DEF GenerateCode, ConsentInv
<1>13. ASSUME RelabelCredential(r) PROVE ConsentInv'
    <2>1. \A c \in codes : [c EXCEPT !.sent = TRUE].state = c.state
        BY DEF TypeOK, Code
    <2>2. \A x \in codes' \cup redeemed' : Admitted(x.state)
        BY <1>13, <2>1 DEF RelabelCredential, Sent, ConsentInv
    <2> QED
        BY <1>0, <1>i, <1>13, <2>2, ConsentCarried DEF RelabelCredential, Return, ConsentInv
<1>14. ASSUME LoadCodeCredential(r) PROVE ConsentInv'
    <2>1. q \in [pc : {"backing", "consuming"}, code : Code, cred : Credential \cup {None}]
        BY <1>14, <1>q, RequestAt DEF LoadCodeCredential, At
    <2>2. PICK c : req' = [req EXCEPT ![r] = [q EXCEPT !.pc = "consuming", !.cred = c]]
        BY <1>14 DEF LoadCodeCredential, TypeOK
    <2>3. ReqSound([q EXCEPT !.pc = "consuming", !.cred = c])
        BY <2>1 DEF ReqSound
    <2> QED
        BY <1>r, <1>14, <2>2, <2>3 DEF LoadCodeCredential, rows
<1>15. ASSUME ConsumeAuthCode(r) PROVE ConsentInv'
    <2>1. \A x \in codes' \cup redeemed' : Admitted(x.state)
        BY <1>15 DEF ConsumeAuthCode, ConsentInv
    <2> QED
        BY <1>0, <1>i, <1>15, <2>1, ConsentCarried DEF ConsumeAuthCode, Return, ConsentInv
<1> QED
    BY <1>1, <1>2, <1>3, <1>4, <1>5, <1>6, <1>7, <1>8, <1>9, <1>10, <1>11, <1>12, <1>13,
       <1>14, <1>15 DEF Step

\* Every step keeps consent with its flow.
LEMMA NextConsent ==
    ASSUME TypeOK, ConsentInv, [Next]_vars
    PROVE  ConsentInv'
<1>0. ASSUME pushed' \subseteq pushed, states' \subseteq states, codes' \subseteq codes,
             selections' \subseteq selections, otps' \subseteq otps, redeemed' \subseteq redeemed,
             UNCHANGED req
      PROVE  ConsentInv'
    BY <1>0, ConsentCarried DEF ConsentInv
<1>1. CASE \/ \E w \in states : Discard(w)
           \/ CleanupPushed \/ CleanupStates \/ CleanupSelections \/ CleanupOTPs
           \/ CleanupCredentials \/ CleanupCodes \/ Tick \/ UNCHANGED vars
    BY <1>0, <1>1 DEF Discard, CleanupPushed, CleanupStates, CleanupSelections, CleanupOTPs,
        CleanupCredentials, CleanupCodes, Tick, vars, rows
<1>2. ASSUME NEW o \in otps, ResendOTP(o) PROVE ConsentInv'
    <2>1. [o EXCEPT !.exp = clock + OTPTTL].state = o.state
        BY DEF TypeOK, Challenge
    <2>2. \A x \in states' \cup selections' \cup otps' : Sound(x.state)
        BY <1>2, <2>1 DEF ResendOTP, ConsentInv
    <2> QED
        BY <1>2, <2>2, ConsentCarried DEF ResendOTP, ConsentInv
<1>3. ASSUME NEW r \in Requests, Fail(r) PROVE ConsentInv'
    <2>1. \A y \in Requests : req'[y] = req[y] \/ req'[y] = Idle
        BY <1>3 DEF Fail, Return, TypeOK
    <2>2. ReqSound(Idle)
        BY DEF ReqSound, Idle
    <2>3. \A y \in Requests : ReqSound(req'[y])
        BY <2>1, <2>2 DEF ConsentInv
    <2> QED
        BY <1>3, <2>3, ConsentCarried DEF Fail, rows, ConsentInv
<1> QED
    BY <1>1, <1>2, <1>3, BeginConsent, AskConsent, StepConsent DEF Next

\* No code is issued, and nothing redeemed, for offline access the user of that
\* flow did not accept, whatever forms a browser sends in whatever order.
THEOREM ConsentHolds == Spec => []ConsentGiven
<1>1. Init => ConsentInv
    BY DEF Init, ConsentInv, ReqSound, Idle
<1>2. TypeOK /\ ConsentInv /\ [Next]_vars => ConsentInv'
    BY NextConsent
<1>3. ConsentInv => ConsentGiven
    BY DEF ConsentInv, ConsentGiven, Admitted, Sound
<1> QED
    BY <1>1, <1>2, <1>3, FlowTypeCorrect, PTL DEF Spec

-----------------------------------------------------------------------------
(* What the handlers do, table by table.                                    *)

Authorizes == \E f \in Flows, p \in Profiles, m \in {"", "session", "offline"} :
                  Authorize(f, p, m)

\* The handlers that add to each table: all others leave it alone, or delete from it.
Written ==
    /\ \/ states' \subseteq states
       \/ Authorizes \/ \E r \in Requests : Encode(r)
       \/ \E r \in Requests, w \in states : CreateIdentitySelection(r, w)
    /\ \/ selections' \subseteq selections
       \/ \E r \in Requests, w \in states : CreateIdentitySelection(r, w)
    /\ otps' \subseteq otps \/ (\E r \in Requests : CreateOTP(r)) \/ \E o \in otps : ResendOTP(o)
    /\ UNCHANGED known \/ \E r \in Requests : SaveCredential(r)
    /\ \/ credentials' \subseteq credentials
       \/ \E r \in Requests : SaveFlowCredential(r) \/ RelabelCredential(r)
    /\ codes' \subseteq codes \/ \E r \in Requests : GenerateCode(r) \/ RelabelCredential(r)
    /\ UNCHANGED redeemed \/ \E r \in Requests : ConsumeAuthCode(r)
    /\ \/ UNCHANGED issued
       \/ Authorizes \/ \E r \in Requests : Encode(r) \/ GenerateCode(r)
       \/ \E r \in Requests, w \in states : CreateIdentitySelection(r, w)
    /\ UNCHANGED proved \/ \E r \in Requests, o \in otps : ConsumeOTP(r, o)
    /\ UNCHANGED asserted \/ \E r \in Requests, e \in Assertions : GetIdentity(r, e)
    /\ UNCHANGED callers \/ \E r \in Requests, w \in states, a \in Subjects : Callback(r, w, a)
    /\ UNCHANGED clock \/ Tick

LEMMA Writers ==
    ASSUME [Next]_vars
    PROVE  Written
<1>1. ASSUME NEW r \in Requests, Ask(r) PROVE Written
    BY <1>1 DEF Written, Ask, ConsumePushed, Consent, Select, EmailStart, Callback, rows, history,
        ConsumeIdentitySelection, ConsumeOTP, PeekCode
<1>2. ASSUME NEW r \in Requests, Step(r) PROVE Written
    <2>1. CASE \/ Encode(r) \/ SaveFlowCredential(r)
               \/ \E e \in Assertions : GetIdentity(r, e)
               \/ \E w \in states : CreateIdentitySelection(r, w) \/ DecodeState(r, w)
        BY <2>1 DEF Written, Encode, SaveFlowCredential, GetIdentity, DecodeState,
            CreateIdentitySelection, rows, history
    <2>2. CASE \/ CredentialVerified(r) \/ SaveCredential(r) \/ CreateOTP(r)
               \/ RenderGrants(r) \/ Admit(r) \/ LoadFlowCredential(r)
        BY <2>2 DEF Written, CredentialVerified, SaveCredential, CreateOTP, RenderGrants, Admit,
            LoadFlowCredential, rows, history
    <2>3. CASE GenerateCode(r) \/ RelabelCredential(r) \/ LoadCodeCredential(r) \/ ConsumeAuthCode(r)
        BY <2>3 DEF Written, GenerateCode, RelabelCredential, LoadCodeCredential,
            ConsumeAuthCode, rows, history
    <2> QED
        BY <1>2, <2>1, <2>2, <2>3 DEF Step
<1>3. CASE \/ \E f \in Flows, p \in Profiles :
                 Push(f, p) \/ \E m \in {"", "session", "offline"} : Authorize(f, p, m)
           \/ \E w \in states : Discard(w)
           \/ \E o \in otps : ResendOTP(o)
           \/ \E r \in Requests : Fail(r)
           \/ UNCHANGED vars
    BY <1>3 DEF Written, Authorizes, Push, Authorize, Discard, ResendOTP, Fail, vars, rows, history
<1>4. CASE \/ CleanupPushed \/ CleanupStates \/ CleanupSelections \/ CleanupOTPs
           \/ CleanupCredentials \/ CleanupCodes \/ Tick
    BY <1>4 DEF Written, CleanupPushed, CleanupStates, CleanupSelections, CleanupOTPs,
        CleanupCredentials, CleanupCodes, Tick, rows, history
<1> QED
    BY <1>1, <1>2, <1>3, <1>4 DEF Next


\* A handler that looks for a credential goes on with one of that key if the
\* connector is a provider, and with none otherwise.
Loads(key, connector, cred) ==
    IF connector \in Upstream
    THEN \E w \in credentials : w.key = key /\ cred = w.cred
    ELSE cred = None

\* Where a request q may be after one step, and what it has then, once it has
\* begun and until it is the code's.
Begins(q, x) ==
    /\ q.pc = "idle"
    /\ \/ /\ x.pc = "encoding"
          /\ \/ \E p \in pushed : x.state.flow = p.flow /\ x.state.key = None
                                  /\ x.state.connector = None
             \/ \E w \in states : /\ x.state.flow = w.state.flow /\ x.state.key = w.state.key
                                  /\ x.state.connector \in Upstream \cup {w.state.connector}
       \/ /\ x.pc \in {"saving", "asking"}
          /\ \E w \in states : x.state = w.state
          /\ x.state.connector \in Upstream
          /\ x.subject \in callers'[x.state.flow]
       \/ /\ x.pc = "challenging"
          /\ \E w \in states : x.state.flow = w.state.flow /\ x.state.key = w.state.key
          /\ x.state.connector \in Direct
          /\ ~x.person.verified
       \/ /\ x.pc = "deciding"
          /\ \E w \in selections : \E a \in w.emails :
                /\ x.state = w.state
                /\ x.person = [subject |-> w.subject, email |-> a.email, verified |-> a.verified]
       \/ /\ x.pc = "recording"
          /\ \E o \in otps : /\ x.state = o.state
                             /\ x.person = [o.person EXCEPT !.verified = TRUE]
                             /\ IdentityOf(o.state, o.person) \in proved'
       \/ /\ x.pc = IF x.code.state.mode = "" THEN "consuming" ELSE "backing"
          /\ x.code \in codes /\ x.cred = None

Identifies(q, x) ==
    \/ /\ q.pc = "saving" /\ x.pc = "asking"
       /\ x.state = q.state /\ x.subject = q.subject
    \/ /\ q.pc = "asking" /\ x.pc = "offering"
       /\ x.state = q.state /\ x.subject = q.subject
       /\ \A a \in x.emails : a.verified =>
             [connector |-> q.state.connector, subject |-> q.subject, email |-> a.email] \in asserted'
    \/ /\ q.pc = "asking" /\ x.pc = "deciding"
       /\ x.state = q.state /\ x.person.subject = q.subject
       /\ x.person.verified => IdentityOf(q.state, x.person) \in asserted'
    \/ /\ q.pc = "deciding" /\ x.pc = "verifying"
       /\ x.person = q.person
       /\ \E w \in states : w.state.key = q.state.key /\ x.state = w.state

Accepts(q, x) ==
    \/ LET i == IdentityOf(q.state, q.person)
           v == q.person.verified
       IN  /\ q.pc = "verifying"
           /\ x.pc \in {"challenging", "recording", "completing"}
           /\ x.pc # "challenging" => VerificationAccepted(v, Local(i))
           /\ x.state = q.state
           /\ x.person = [q.person EXCEPT !.verified = v \/ Local(i)]
           /\ x.local = Local(i)
    \/ /\ q.pc = "recording" /\ x.pc = "completing"
       /\ x.state = q.state /\ x.person = q.person

Issues(q, x) ==
    \/ /\ q.pc = "completing"
       /\ x.pc = IF q.state.mode = "" THEN "minting" ELSE "loading"
       /\ x.state = q.state /\ x.person = q.person /\ x.cred = None
    \/ /\ q.pc = "loading" /\ x.pc = "minting"
       /\ x.state = q.state /\ x.person = q.person
       /\ Loads(q.state.key, q.state.connector, x.cred)
    \/ /\ q.pc = "minting" /\ x.pc = "relabelling"
       /\ x.state = q.state /\ x.cred = q.cred /\ q.cred # None
       /\ x.code = NewKey(q.state.flow)
    \/ /\ q.pc = "backing" /\ x.pc = "consuming" /\ x.code = q.code
       /\ Loads(q.code.key, q.code.state.connector, x.cred)

Moved(r) ==
    \/ req'[r] \in {req[r], Idle}
    \/ Begins(req[r], req'[r]) \/ Identifies(req[r], req'[r])
    \/ Accepts(req[r], req'[r]) \/ Issues(req[r], req'[r])

LEMMA AskMoves ==
    ASSUME TypeOK, NEW r \in Requests, Ask(r)
    PROVE  /\ \A y \in Requests : y # r => req'[y] = req[y]
           /\ Begins(req[r], req'[r])
<1> DEFINE Done == /\ \A y \in Requests : y # r => req'[y] = req[y]
                   /\ Begins(req[r], req'[r])
<1>0. ASSUME NEW x, req' = [req EXCEPT ![r] = x], Begins(req[r], x)
      PROVE  Done
    BY <1>0 DEF TypeOK
<1>w. \A w \in states : w.state \in State
    BY DEF TypeOK, StateRow, Stored
<1>1. ASSUME NEW p \in pushed, NEW m \in {"", "session", "offline"}, ConsumePushed(r, p, m)
      PROVE  Done
    <2> DEFINE x == [pc |-> "encoding", state |-> NewState(p.flow, m)]
    <2>1. /\ x.pc = "encoding" /\ x.state.flow = p.flow /\ x.state.key = None
          /\ x.state.connector = None
        BY DEF NewState
    <2>2. req' = [req EXCEPT ![r] = x] /\ req[r].pc = "idle"
        BY <1>1 DEF ConsumePushed, At
    <2> HIDE DEF x
    <2>3. Begins(req[r], x)
        BY <2>1, <2>2 DEF Begins
    <2> QED
        BY <1>0, <2>2, <2>3
<1>2. ASSUME NEW w \in states, Consent(r, w) PROVE Done
    <2> DEFINE t == [w.state EXCEPT !.consent = TRUE]
               s == Continued(t, profile[w.state.flow])
               x == [pc |-> "encoding", state |-> s]
    <2>1. t \in State /\ t.flow = w.state.flow /\ t.key = w.state.key
          /\ t.connector = w.state.connector
        BY <1>w DEF State
    <2>2. s.flow = w.state.flow /\ s.key = w.state.key
          /\ s.connector \in Upstream \cup {w.state.connector}
        <3> HIDE DEF t
        <3>1. CASE Direct = {} /\ Cardinality(Upstream) = 1 /\ ~profile[w.state.flow].create
            <4>1. (CHOOSE c \in Upstream : TRUE) \in Upstream
                BY <3>1, SoleConnector
            <4> QED
                BY <2>1, <3>1, <4>1 DEF Continued, State
        <3>2. CASE ~(Direct = {} /\ Cardinality(Upstream) = 1 /\ ~profile[w.state.flow].create)
            BY <2>1, <3>2 DEF Continued
        <3> QED
            BY <3>1, <3>2
    <2>3. req' = [req EXCEPT ![r] = x] /\ req[r].pc = "idle"
        BY <1>2 DEF Consent, At
    <2>4. x.pc = "encoding" /\ x.state = s
        OBVIOUS
    <2> HIDE DEF s, x
    <2>5. Begins(req[r], x)
        BY <2>2, <2>3, <2>4 DEF Begins
    <2> QED
        BY <1>0, <2>3, <2>5
<1>3. ASSUME NEW w \in states, NEW c \in Upstream, Select(r, w, c) PROVE Done
    <2> DEFINE x == [pc |-> "encoding", state |-> [w.state EXCEPT !.connector = c]]
    <2>1. /\ x.pc = "encoding" /\ x.state.flow = w.state.flow /\ x.state.key = w.state.key
          /\ x.state.connector = c
        BY <1>w DEF State
    <2>2. req' = [req EXCEPT ![r] = x] /\ req[r].pc = "idle"
        BY <1>3 DEF Select, At
    <2> HIDE DEF x
    <2>3. Begins(req[r], x)
        BY <2>1, <2>2 DEF Begins
    <2> QED
        BY <1>0, <2>2, <2>3
<1>4. ASSUME NEW w \in states, NEW c \in Direct, NEW e \in Emails, EmailStart(r, w, c, e)
      PROVE  Done
    <2> DEFINE x == [pc |-> "challenging", state |-> [w.state EXCEPT !.connector = c],
                     person |-> [subject |-> e, email |-> e, verified |-> FALSE]]
    <2>1. /\ x.pc = "challenging" /\ x.state.flow = w.state.flow /\ x.state.key = w.state.key
          /\ x.state.connector = c /\ ~x.person.verified
        BY <1>w DEF State
    <2>2. req' = [req EXCEPT ![r] = x] /\ req[r].pc = "idle"
        BY <1>4 DEF EmailStart, At
    <2> HIDE DEF x
    <2>3. Begins(req[r], x)
        BY <2>1, <2>2 DEF Begins
    <2> QED
        BY <1>0, <2>2, <2>3
<1>5. ASSUME NEW w \in states, NEW a \in Subjects, Callback(r, w, a) PROVE Done
    <2> DEFINE x == [pc |-> IF w.state.mode = "" THEN "asking" ELSE "saving",
                     state |-> w.state, subject |-> a]
    <2>1. x.pc \in {"saving", "asking"} /\ x.state = w.state /\ x.subject = a
        OBVIOUS
    <2>2. /\ req' = [req EXCEPT ![r] = x] /\ req[r].pc = "idle"
          /\ w.state.connector \in Upstream
        BY <1>5 DEF Callback, At
    <2>3. w.state.flow \in Flows
        BY <1>w, StateUpdates
    <2>4. a \in callers'[w.state.flow]
        BY <1>5, <2>3 DEF Callback, TypeOK
    <2> HIDE DEF x
    <2>5. Begins(req[r], x)
        BY <2>1, <2>2, <2>4 DEF Begins
    <2> QED
        BY <1>0, <2>2, <2>5
<1>6. ASSUME NEW w \in selections, NEW a \in w.emails, ConsumeIdentitySelection(r, w, a)
      PROVE  Done
    <2> DEFINE p == [subject |-> w.subject, email |-> a.email, verified |-> a.verified]
               x == [pc |-> "deciding", state |-> w.state, person |-> p]
    <2>1. x.pc = "deciding" /\ x.state = w.state /\ x.person = p
        OBVIOUS
    <2>2. req' = [req EXCEPT ![r] = x] /\ req[r].pc = "idle"
        BY <1>6 DEF ConsumeIdentitySelection, At
    <2> HIDE DEF x
    <2>3. Begins(req[r], x)
        BY <2>1, <2>2, Zenon DEF Begins
    <2> QED
        BY <1>0, <2>2, <2>3
<1>7. ASSUME NEW o \in otps, ConsumeOTP(r, o) PROVE Done
    <2> DEFINE p == [o.person EXCEPT !.verified = TRUE]
               x == [pc |-> "recording", state |-> o.state, local |-> TRUE, person |-> p]
    <2>1. x.pc = "recording" /\ x.state = o.state /\ x.person = p
        OBVIOUS
    <2>2. /\ req' = [req EXCEPT ![r] = x] /\ req[r].pc = "idle"
          /\ IdentityOf(o.state, o.person) \in proved'
        BY <1>7 DEF ConsumeOTP, At
    <2> HIDE DEF x
    <2>3. Begins(req[r], x)
        BY <2>1, <2>2, Zenon DEF Begins
    <2> QED
        BY <1>0, <2>2, <2>3
<1>8. ASSUME NEW c \in codes, PeekCode(r, c) PROVE Done
    <2> DEFINE x == [pc |-> IF c.state.mode = "" THEN "consuming" ELSE "backing",
                     code |-> c, cred |-> None]
    <2>1. x.pc = (IF c.state.mode = "" THEN "consuming" ELSE "backing")
          /\ x.code = c /\ x.cred = None
        OBVIOUS
    <2>2. req' = [req EXCEPT ![r] = x] /\ req[r].pc = "idle"
        BY <1>8 DEF PeekCode, At
    <2> HIDE DEF x
    <2>3. Begins(req[r], x)
        BY <2>1, <2>2 DEF Begins
    <2> QED
        BY <1>0, <2>2, <2>3
<1> QED
    BY <1>1, <1>2, <1>3, <1>4, <1>5, <1>6, <1>7, <1>8 DEF Ask


LEMMA StepMoves ==
    ASSUME TypeOK, NEW r \in Requests, Step(r)
    PROVE  /\ \A y \in Requests : y # r => req'[y] = req[y]
           /\ Moved(r)
<1> DEFINE q == req[r]
           Done == /\ \A y \in Requests : y # r => req'[y] = req[y]
                   /\ Moved(r)
<1>0. ASSUME NEW x, req' = [req EXCEPT ![r] = x],
             x = Idle \/ Identifies(q, x) \/ Accepts(q, x) \/ Issues(q, x)
      PROVE  Done
    BY <1>0 DEF TypeOK, Moved
<1>q. q \in Request
    BY DEF TypeOK
<1>1. CASE Encode(r) \/ CreateOTP(r) \/ RenderGrants(r) \/ RelabelCredential(r) \/ ConsumeAuthCode(r)
    BY <1>0, <1>1 DEF Encode, CreateOTP, RenderGrants, RelabelCredential, ConsumeAuthCode, Return
<1>2. ASSUME SaveFlowCredential(r) PROVE Done
    <2> DEFINE x == [q EXCEPT !.pc = "asking"]
    <2>1. q \in [pc : {"saving", "asking"}, state : Stored, subject : Subjects]
        BY <1>2, <1>q, RequestAt DEF SaveFlowCredential, At
    <2>2. x.pc = "asking" /\ x.state = q.state /\ x.subject = q.subject
        BY <2>1
    <2>3. req' = [req EXCEPT ![r] = x] /\ q.pc = "saving"
        BY <1>2 DEF SaveFlowCredential, At
    <2> HIDE DEF x, q
    <2>4. Identifies(q, x)
        BY <2>2, <2>3 DEF Identifies
    <2> QED
        BY <1>0, <2>3, <2>4
<1>3. ASSUME NEW e \in Assertions, GetIdentity(r, e) PROVE Done
    <2> DEFINE single == CHOOSE a \in e : TRUE
               person == [subject |-> q.subject, email |-> single.email,
                          verified |-> single.verified]
               id(a)  == [connector |-> q.state.connector, subject |-> q.subject, email |-> a.email]
               offer  == [pc |-> "offering", state |-> q.state, subject |-> q.subject, emails |-> e]
               accept == [pc |-> "deciding", state |-> q.state, person |-> person]
    <2>1. /\ req' = [req EXCEPT ![r] = IF Cardinality(e) > 1 THEN offer ELSE accept]
          /\ q.pc = "asking" /\ single \in e
          /\ asserted' = asserted \cup {id(a) : a \in {b \in e : b.verified}}
        BY <1>3 DEF GetIdentity, At
    <2>2. \A a \in e : a.verified => id(a) \in asserted'
        BY <2>1
    <2>3. /\ offer.pc = "offering" /\ offer.state = q.state /\ offer.subject = q.subject
          /\ offer.emails = e
        OBVIOUS
    <2>4. Identifies(q, offer)
        <3> HIDE DEF q, offer
        <3> QED
            BY <2>1, <2>2, <2>3 DEF Identifies
    <2>5. /\ accept.pc = "deciding" /\ accept.state = q.state /\ accept.person = person
        OBVIOUS
    <2>6. /\ person.subject = q.subject /\ person.verified = single.verified
          /\ IdentityOf(q.state, person) = id(single)
        BY DEF IdentityOf
    <2>7. Identifies(q, accept)
        <3> HIDE DEF q, accept, person, id, single
        <3> QED
            BY <2>1, <2>2, <2>5, <2>6 DEF Identifies
    <2> HIDE DEF offer, accept
    <2> QED
        BY <1>0, <2>1, <2>4, <2>7
<1>4. ASSUME NEW w \in states, CreateIdentitySelection(r, w) PROVE Done
    BY <1>0, <1>4 DEF CreateIdentitySelection, Return
<1>5. ASSUME NEW w \in states, DecodeState(r, w) PROVE Done
    <2> DEFINE x == [q EXCEPT !.pc = "verifying", !.state = w.state]
    <2>1. q \in [pc : {"deciding", "verifying", "challenging", "completing"}, state : State,
                 person : Person]
        BY <1>5, <1>q, RequestAt DEF DecodeState, At
    <2>2. x.pc = "verifying" /\ x.state = w.state /\ x.person = q.person
        BY <2>1
    <2>3. req' = [req EXCEPT ![r] = x] /\ q.pc = "deciding" /\ w.state.key = q.state.key
        BY <1>5 DEF DecodeState, At, TypeOK
    <2> HIDE DEF x, q
    <2>4. Identifies(q, x)
        BY <2>2, <2>3 DEF Identifies
    <2> QED
        BY <1>0, <2>3, <2>4
<1>6. ASSUME CredentialVerified(r) PROVE Done
    <2> DEFINE i == IdentityOf(q.state, q.person)
               v == q.person.verified
               x == [pc |-> IF ~VerificationAccepted(v, Local(i)) THEN "challenging"
                            ELSE IF ~Exists(i) \/ v THEN "recording" ELSE "completing",
                     state |-> q.state,
                     person |-> [q.person EXCEPT !.verified = v \/ Local(i)],
                     local |-> Local(i)]
    <2>1. /\ x.pc \in {"challenging", "recording", "completing"}
          /\ x.pc # "challenging" => VerificationAccepted(v, Local(i))
          /\ x.state = q.state
          /\ x.person = [q.person EXCEPT !.verified = v \/ Local(i)]
          /\ x.local = Local(i)
        OBVIOUS
    <2>2. req' = [req EXCEPT ![r] = x] /\ q.pc = "verifying"
        BY <1>6 DEF CredentialVerified, At
    <2> HIDE DEF x
    <2>3. Accepts(q, x)
        BY <2>1, <2>2, Zenon DEF Accepts
    <2> QED
        BY <1>0, <2>2, <2>3
<1>7. ASSUME SaveCredential(r) PROVE Done
    <2> DEFINE x == [pc |-> "completing", state |-> q.state, person |-> q.person]
    <2>1. x.pc = "completing" /\ x.state = q.state /\ x.person = q.person
        OBVIOUS
    <2>2. req' = [req EXCEPT ![r] = x] /\ q.pc = "recording"
        BY <1>7 DEF SaveCredential, At
    <2> HIDE DEF x
    <2>3. Accepts(q, x)
        BY <2>1, <2>2, Zenon DEF Accepts
    <2> QED
        BY <1>0, <2>2, <2>3
<1>8. ASSUME Admit(r) PROVE Done
    <2> DEFINE x == [pc |-> IF q.state.mode = "" THEN "minting" ELSE "loading",
                     state |-> q.state, person |-> q.person, cred |-> None]
    <2>1. /\ x.pc = (IF q.state.mode = "" THEN "minting" ELSE "loading")
          /\ x.state = q.state /\ x.person = q.person /\ x.cred = None
        OBVIOUS
    <2>2. req' = [req EXCEPT ![r] = x] /\ q.pc = "completing"
        BY <1>8 DEF Admit, At
    <2> HIDE DEF x, q
    <2>3. Issues(q, x)
        BY <2>1, <2>2 DEF Issues
    <2> QED
        BY <1>0, <2>2, <2>3
<1>9. ASSUME LoadFlowCredential(r) PROVE Done
    <2> DEFINE found == Loadable(q.state.key)
               c == IF found = {} THEN None ELSE (CHOOSE w \in found : TRUE).cred
               x == [q EXCEPT !.pc = "minting", !.cred = c]
    <2>1. q \in [pc : {"loading", "minting"}, state : State, person : Person,
                 cred : Credential \cup {None}]
        BY <1>9, <1>q, RequestAt DEF LoadFlowCredential, At
    <2>2. x.pc = "minting" /\ x.state = q.state /\ x.person = q.person /\ x.cred = c
        BY <2>1
    <2>3. req' = [req EXCEPT ![r] = x] /\ q.pc = "loading"
          /\ ((found # {}) = (q.state.connector \in Upstream))
        BY <1>9 DEF LoadFlowCredential, At, TypeOK
    <2>4. Loads(q.state.key, q.state.connector, c)
        <3>1. \A w \in found : w \in credentials /\ w.key = q.state.key
            BY DEF Loadable
        <3> HIDE DEF found
        <3> QED
            BY <2>3, <3>1 DEF Loads
    <2> HIDE DEF x, q, c
    <2>5. Issues(q, x)
        BY <2>2, <2>3, <2>4 DEF Issues
    <2> QED
        BY <1>0, <2>3, <2>5
<1>10. ASSUME GenerateCode(r) PROVE Done
    <2> DEFINE x == [pc |-> "relabelling", state |-> q.state, cred |-> q.cred,
                     code |-> NewKey(q.state.flow)]
    <2>1. x.pc = "relabelling" /\ x.state = q.state /\ x.cred = q.cred
          /\ x.code = NewKey(q.state.flow)
        OBVIOUS
    <2>2. q.pc = "minting" /\ req' = [req EXCEPT ![r] = IF q.cred = None THEN Idle ELSE x]
        BY <1>10 DEF GenerateCode, At
    <2> HIDE DEF x
    <2>3. q.cred # None => Issues(q, x)
        BY <2>1, <2>2 DEF Issues
    <2> QED
        BY <1>0, <2>2, <2>3
<1>11. ASSUME LoadCodeCredential(r) PROVE Done
    <2> DEFINE found == Loadable(q.code.key)
               c == IF found = {} THEN None ELSE (CHOOSE w \in found : TRUE).cred
               x == [q EXCEPT !.pc = "consuming", !.cred = c]
    <2>1. q \in [pc : {"backing", "consuming"}, code : Code, cred : Credential \cup {None}]
        BY <1>11, <1>q, RequestAt DEF LoadCodeCredential, At
    <2>2. x.pc = "consuming" /\ x.code = q.code /\ x.cred = c
        BY <2>1
    <2>3. req' = [req EXCEPT ![r] = x] /\ q.pc = "backing"
          /\ ((found # {}) = (q.code.state.connector \in Upstream))
        BY <1>11 DEF LoadCodeCredential, At, TypeOK
    <2>4. Loads(q.code.key, q.code.state.connector, c)
        <3>1. \A w \in found : w \in credentials /\ w.key = q.code.key
            BY DEF Loadable
        <3> HIDE DEF found
        <3> QED
            BY <2>3, <3>1 DEF Loads
    <2> HIDE DEF x, q, c
    <2>5. Issues(q, x)
        BY <2>2, <2>3, <2>4 DEF Issues
    <2> QED
        BY <1>0, <2>3, <2>5
<1> QED
    BY <1>1, <1>2, <1>3, <1>4, <1>5, <1>6, <1>7, <1>8, <1>9, <1>10, <1>11 DEF Step

\* Every request moves in one of these ways.
LEMMA RequestMoves ==
    ASSUME TypeOK, [Next]_vars, NEW r \in Requests
    PROVE  Moved(r)
<1>1. CASE UNCHANGED req
    BY <1>1 DEF Moved
<1>2. ASSUME NEW y \in Requests, Ask(y) PROVE Moved(r)
    BY <1>2, AskMoves DEF Moved
<1>3. ASSUME NEW y \in Requests, Step(y) PROVE Moved(r)
    BY <1>3, StepMoves DEF Moved
<1>4. ASSUME NEW y \in Requests, Fail(y) PROVE Moved(r)
    BY <1>4 DEF Fail, Return, TypeOK, Moved
<1>5. CASE \/ \E f \in Flows, p \in Profiles :
                 Push(f, p) \/ \E m \in {"", "session", "offline"} : Authorize(f, p, m)
           \/ \E w \in states : Discard(w)
           \/ \E o \in otps : ResendOTP(o)
           \/ CleanupPushed \/ CleanupStates \/ CleanupSelections \/ CleanupOTPs
           \/ CleanupCredentials \/ CleanupCodes \/ Tick \/ UNCHANGED vars
    BY <1>1, <1>5 DEF Push, Authorize, Discard, ResendOTP, CleanupPushed, CleanupStates,
        CleanupSelections, CleanupOTPs, CleanupCredentials, CleanupCodes, Tick, vars
<1> QED
    BY <1>2, <1>3, <1>4, <1>5 DEF Next


\* Tokens are only added to, and what was observed of a flow stays observed.
LEMMA HistoryGrows ==
    ASSUME TypeOK, [Next]_vars
    PROVE  /\ \A f \in Flows : issued[f] <= issued'[f] /\ callers[f] \subseteq callers'[f]
           /\ proved \subseteq proved' /\ asserted \subseteq asserted'
           /\ clock \in Nat /\ clock' \in Nat /\ clock <= clock'
<1>w. Written
    BY Writers
<1>1. ASSUME NEW f \in Flows, Generate(f) PROVE \A g \in Flows : issued[g] <= issued'[g]
    BY <1>1 DEF Generate, TypeOK
<1>2. \A g \in Flows : issued[g] <= issued'[g]
    <2>1. CASE UNCHANGED issued
        BY <2>1 DEF TypeOK
    <2>2. CASE Authorizes
        BY <1>1, <2>2 DEF Authorizes, Authorize
    <2>3. ASSUME NEW r \in Requests, Encode(r) \/ GenerateCode(r)
          PROVE  \A g \in Flows : issued[g] <= issued'[g]
        <3>1. req[r].state.flow \in Flows
            BY <2>3, RequestAt, StateUpdates DEF TypeOK, Encode, GenerateCode, At
        <3> QED
            BY <1>1, <2>3, <3>1 DEF Encode, GenerateCode
    <2>4. ASSUME NEW r \in Requests, NEW w \in states, CreateIdentitySelection(r, w)
          PROVE  \A g \in Flows : issued[g] <= issued'[g]
        <3>1. req[r].state.flow \in Flows
            BY <2>4, RequestAt, StateUpdates DEF TypeOK, CreateIdentitySelection, At
        <3> QED
            BY <1>1, <2>4, <3>1 DEF CreateIdentitySelection
    <2> QED
        BY <1>w, <2>1, <2>2, <2>3, <2>4 DEF Written
<1>3. \A f \in Flows : callers[f] \subseteq callers'[f]
    <2>1. ASSUME NEW r \in Requests, NEW w \in states, NEW a \in Subjects, Callback(r, w, a)
          PROVE  \A f \in Flows : callers[f] \subseteq callers'[f]
        BY <2>1 DEF Callback, TypeOK
    <2>2. CASE UNCHANGED callers
        BY <2>2
    <2> QED
        BY <1>w, <2>1, <2>2 DEF Written
<1>4. proved \subseteq proved' /\ asserted \subseteq asserted'
    BY <1>w DEF Written, ConsumeOTP, GetIdentity
<1>5. clock \in Nat /\ clock' \in Nat /\ clock <= clock'
    BY <1>w DEF Written, Tick, TypeOK
<1> QED
    BY <1>2, <1>3, <1>4, <1>5

\* A state that EncodeState has just given a new token.
Fresh(s) ==
    /\ s.flow \in Flows /\ s.key = NewKey(s.flow) /\ issued'[s.flow] = issued[s.flow] + 1
    /\ \/ s.connector \in Upstream \cup {None}
       \/ \E r \in Requests : req[r].pc = "encoding" /\ s.connector = req[r].state.connector
    /\ UNCHANGED <<selections, codes>>

\* oauth_states: a row is extended, or one with a new token is added.
StatesMoved ==
    \/ states' \subseteq states
    \/ \E w \in states, x \in StateRow : states' \subseteq (states \ {w}) \cup {x} /\ x.state = w.state
    \/ \E x \in StateRow : states' = states \cup {x} /\ Fresh(x.state)

LEMMA StatesMove ==
    ASSUME TypeOK, [Next]_vars
    PROVE  StatesMoved
<1>0. ASSUME NEW s \in State, Generate(s.flow), states' = Saved(s),
             UNCHANGED <<selections, codes>>,
             \/ s.connector \in Upstream \cup {None}
             \/ \E r \in Requests : req[r].pc = "encoding" /\ s.connector = req[r].state.connector
      PROVE  StatesMoved
    <2> DEFINE u == [s EXCEPT !.key = NewKey(s.flow)]
               x == [state |-> u, made |-> clock, exp |-> clock + StateTTL]
    <2>1. s.flow \in Flows /\ NewKey(s.flow) \in Keys
        BY <1>0, GenerateType, StateUpdates
    <2>2. u.flow = s.flow /\ u.key = NewKey(s.flow) /\ u.connector = s.connector
        BY <2>1 DEF State
    <2>3. issued'[s.flow] = issued[s.flow] + 1
        BY <1>0, <2>1 DEF Generate, TypeOK
    <2>4. states' = states \cup {x} /\ x.state = u
        BY <1>0 DEF Saved
    <2>5. x \in StateRow
        BY <1>0, <2>4, SavedType
    <2> HIDE DEF u, x
    <2>6. Fresh(u)
        BY <1>0, <2>1, <2>2, <2>3 DEF Fresh
    <2> QED
        BY <2>4, <2>5, <2>6 DEF StatesMoved
<1>1. ASSUME NEW f \in Flows, NEW p \in Profiles, NEW m \in {"", "session", "offline"},
             Authorize(f, p, m)
      PROVE  StatesMoved
    <2> DEFINE n == NewState(f, m)
               s == IF p.offline THEN n ELSE Continued(n, p)
    <2>1. n \in State /\ n.flow = f /\ n.connector = None
        BY DEF NewState, State
    <2>2. s \in State
        BY <2>1, ContinuedType
    <2>3. s.flow = f
        BY <2>1 DEF Continued, State
    <2>4. s.connector \in Upstream \cup {None}
        <3>1. CASE Direct = {} /\ Cardinality(Upstream) = 1 /\ ~p.create
            <4>1. (CHOOSE c \in Upstream : TRUE) \in Upstream
                BY <3>1, SoleConnector
            <4> HIDE DEF n
            <4> QED
                BY <2>1, <3>1, <4>1 DEF Continued, State
        <3>2. CASE ~(Direct = {} /\ Cardinality(Upstream) = 1 /\ ~p.create)
            <4> HIDE DEF n
            <4> QED
                BY <2>1, <3>2 DEF Continued
        <3> QED
            BY <3>1, <3>2
    <2>5. Generate(f) /\ states' = Saved(s) /\ UNCHANGED <<selections, codes>>
        BY <1>1 DEF Authorize
    <2> HIDE DEF s
    <2> QED
        BY <1>0, <2>2, <2>3, <2>4, <2>5
<1>2. ASSUME NEW r \in Requests, Encode(r) PROVE StatesMoved
    <2>1. req[r].state \in State /\ req[r].pc = "encoding"
        BY <1>2, RequestAt DEF TypeOK, Encode, At
    <2>2. /\ Generate(req[r].state.flow) /\ states' = Saved(req[r].state)
          /\ UNCHANGED <<selections, codes>>
        BY <1>2 DEF Encode
    <2> QED
        BY <1>0, <2>1, <2>2
<1>3. ASSUME NEW r \in Requests, NEW w \in states, CreateIdentitySelection(r, w) PROVE StatesMoved
    <2> DEFINE x == [w EXCEPT !.exp = clock + SelectionTTL]
    <2>1. clock + SelectionTTL \in Nat /\ w \in StateRow
        BY FlowAssumption DEF TypeOK
    <2>2. x \in StateRow /\ x.state = w.state
        BY <2>1 DEF StateRow
    <2>3. states' = (states \ {w}) \cup {x}
        BY <1>3 DEF CreateIdentitySelection
    <2> HIDE DEF x
    <2> QED
        BY <2>2, <2>3 DEF StatesMoved
<1> QED
    BY <1>1, <1>2, <1>3, Writers DEF Written, Authorizes, StatesMoved

\* auth_codes: a code is marked as sent, or a new one added for a request's state.
CodesMoved ==
    \/ codes' \subseteq codes
    \/ \E k \in Keys : \A x \in codes' : \E c \in codes :
          x = IF c.key = k THEN [c EXCEPT !.sent = TRUE] ELSE c
    \/ \E r \in Requests, c \in Code :
          LET q == req[r]
          IN  /\ codes' = codes \cup {c}
              /\ q.pc = "minting" /\ q.state.flow \in Flows
              /\ issued'[q.state.flow] = issued[q.state.flow] + 1
              /\ c.key = NewKey(q.state.flow) /\ c.state = q.state /\ c.person = q.person
              /\ c.exp = clock + CodeTTL /\ (c.sent => q.cred = None)
              /\ UNCHANGED <<states, selections, otps>>

LEMMA CodesMove ==
    ASSUME TypeOK, [Next]_vars
    PROVE  CodesMoved
<1>1. ASSUME NEW r \in Requests, GenerateCode(r) PROVE CodesMoved
    <2> DEFINE q == req[r]
               c == [key |-> NewKey(q.state.flow), state |-> q.state, person |-> q.person,
                     exp |-> clock + CodeTTL, sent |-> q.cred = None]
    <2>1. q.pc = "minting" /\ q.state.flow \in Flows
        BY <1>1, RequestAt, StateUpdates DEF TypeOK, GenerateCode, At
    <2>2. issued'[q.state.flow] = issued[q.state.flow] + 1
        BY <1>1, <2>1 DEF GenerateCode, Generate, TypeOK
    <2>3. codes' = codes \cup {c} /\ UNCHANGED <<states, selections, otps>>
        BY <1>1 DEF GenerateCode
    <2>4. /\ c.key = NewKey(q.state.flow) /\ c.state = q.state /\ c.person = q.person
          /\ c.exp = clock + CodeTTL /\ (c.sent => q.cred = None)
        OBVIOUS
    <2>5. c \in Code
        BY <2>3, NextType DEF TypeOK
    <2> HIDE DEF c
    <2> QED
        BY <2>1, <2>2, <2>3, <2>4, <2>5 DEF CodesMoved
<1>2. ASSUME NEW r \in Requests, RelabelCredential(r) PROVE CodesMoved
    <2>1. req[r].code \in Keys
        BY <1>2, RequestAt DEF TypeOK, RelabelCredential, At
    <2>2. codes' = Sent(req[r].code)
        BY <1>2 DEF RelabelCredential
    <2> QED
        BY <2>1, <2>2, Zenon DEF CodesMoved, Sent
<1> QED
    BY <1>1, <1>2, Writers DEF Written, CodesMoved


\* The other tables: what a new row was made from.
LEMMA RowsMove ==
    ASSUME TypeOK, [Next]_vars
    PROVE  /\ \A x \in selections' : x \in selections \/ \E r \in Requests :
                 /\ req[r].pc = "offering" /\ x.state = req[r].state
                 /\ x.subject = req[r].subject /\ x.emails = req[r].emails
           /\ \A x \in otps' :
                 \/ \E o \in otps : x.state = o.state /\ x.person = o.person
                 \/ \E r \in Requests : /\ req[r].pc = "challenging"
                                        /\ x.state = req[r].state /\ x.person = req[r].person
           /\ \A k \in known' : k \in known \/ \E r \in Requests :
                 /\ req[r].pc = "recording"
                 /\ k.id = IdentityOf(req[r].state, req[r].person)
                 /\ k.local => req[r].local \/ Local(k.id)
           /\ \A w \in credentials' : w \in credentials \/ \E r \in Requests :
                 \/ /\ req[r].pc = "saving" /\ w.key = req[r].state.key
                    /\ w.cred = [flow |-> req[r].state.flow, subject |-> req[r].subject]
                 \/ req[r].pc = "relabelling" /\ w.key = req[r].code /\ w.cred = req[r].cred
           /\ \A d \in redeemed' : d \in redeemed \/ \E r \in Requests :
                 /\ req[r].pc = "consuming"
                 /\ d.state = req[r].code.state /\ d.person = req[r].code.person
                 /\ d.cred = req[r].cred
<1>w. Written
    BY Writers
<1>1. \A x \in selections' : x \in selections \/ \E r \in Requests :
          /\ req[r].pc = "offering" /\ x.state = req[r].state
          /\ x.subject = req[r].subject /\ x.emails = req[r].emails
    BY <1>w DEF Written, CreateIdentitySelection, At
<1>2. \A x \in otps' :
          \/ \E o \in otps : x.state = o.state /\ x.person = o.person
          \/ \E r \in Requests : /\ req[r].pc = "challenging"
                                 /\ x.state = req[r].state /\ x.person = req[r].person
    <2> DEFINE Made(x) == \/ \E o \in otps : x.state = o.state /\ x.person = o.person
                          \/ \E r \in Requests : /\ req[r].pc = "challenging"
                                                 /\ x.state = req[r].state /\ x.person = req[r].person
    <2>1. ASSUME NEW o \in otps, ResendOTP(o) PROVE \A x \in otps' : Made(x)
        <3> DEFINE y == [o EXCEPT !.exp = clock + OTPTTL]
        <3>1. y.state = o.state /\ y.person = o.person
            BY DEF TypeOK, Challenge
        <3>2. otps' = (otps \ {o}) \cup {y}
            BY <2>1 DEF ResendOTP
        <3> HIDE DEF y
        <3> QED
            BY <3>1, <3>2
    <2>2. ASSUME NEW r \in Requests, CreateOTP(r) PROVE \A x \in otps' : Made(x)
        BY <2>2 DEF CreateOTP, At
    <2>3. CASE otps' \subseteq otps
        BY <2>3
    <2> QED
        BY <1>w, <2>1, <2>2, <2>3 DEF Written
<1>3. \A k \in known' : k \in known \/ \E r \in Requests :
          /\ req[r].pc = "recording"
          /\ k.id = IdentityOf(req[r].state, req[r].person)
          /\ k.local => req[r].local \/ Local(k.id)
    <2>1. CASE UNCHANGED known
        BY <2>1
    <2>2. ASSUME NEW r \in Requests, SaveCredential(r), NEW k \in known', k \notin known
          PROVE  /\ req[r].pc = "recording"
                 /\ k.id = IdentityOf(req[r].state, req[r].person)
                 /\ k.local => req[r].local \/ Local(k.id)
        <3> DEFINE i == IdentityOf(req[r].state, req[r].person)
        <3>1. req[r].pc = "recording" /\ k = [id |-> i, local |-> req[r].local \/ Local(i)]
            BY <2>2 DEF SaveCredential, At
        <3>2. k.id = i /\ k.local = (req[r].local \/ Local(i))
            BY <3>1
        <3> HIDE DEF i
        <3> QED
            BY <3>1, <3>2 DEF i
    <2> QED
        BY <1>w, <2>1, <2>2 DEF Written
<1>4. \A w \in credentials' : w \in credentials \/ \E r \in Requests :
          \/ /\ req[r].pc = "saving" /\ w.key = req[r].state.key
             /\ w.cred = [flow |-> req[r].state.flow, subject |-> req[r].subject]
          \/ req[r].pc = "relabelling" /\ w.key = req[r].code /\ w.cred = req[r].cred
    BY <1>w DEF Written, SaveFlowCredential, RelabelCredential, Relabelled, At
<1>5. \A d \in redeemed' : d \in redeemed \/ \E r \in Requests :
          /\ req[r].pc = "consuming"
          /\ d.state = req[r].code.state /\ d.person = req[r].code.person
          /\ d.cred = req[r].cred
    BY <1>w DEF Written, ConsumeAuthCode, At
<1> QED
    BY <1>1, <1>2, <1>3, <1>4, <1>5

-----------------------------------------------------------------------------
(* Tokens.                                                                  *)

\* Requests that hold a copy of a state whose row they have not consumed.
Tokened == {"saving", "asking", "offering", "deciding"}

\* The states such requests and the identity selections hold.
Held(s) ==
    \/ \E x \in selections : s = x.state
    \/ \E r \in Requests : req[r].pc \in Tokened /\ s = req[r].state

\* All states of flows that have no code yet, and of codes that are not sent.
Around(s) ==
    \/ Held(s)
    \/ \E x \in states \cup otps : s = x.state
    \/ \E r \in Requests : req[r].pc \in Holding \cup {"relabelling"} /\ s = req[r].state

Issued(k, f) == k[1] = f /\ k[2] <= issued[f]

\* A token is made for one flow and names one thing: one state row, whose copies
\* agree with it, or one code.
KeyInv ==
    /\ \A s \in State : Around(s) => s.key = None \/ Issued(s.key, s.flow)
    /\ \A c \in codes : Issued(c.key, c.state.flow)
    /\ \A r \in Requests : req[r].pc = "relabelling" => req[r].code[1] = req[r].state.flow
    /\ \A s \in State : Around(s) => \A c \in codes : s.key # c.key
    /\ \A c, d \in codes : c.key = d.key => c = d
    /\ \A v, w \in states : v.state.key = w.state.key => v = w
    /\ \A w \in states : \A s \in State : Held(s) /\ s.key = w.state.key => s = w.state

LEMMA AroundType ==
    ASSUME TypeOK, NEW s, Around(s)
    PROVE  s \in State /\ s.flow \in Flows /\ s.key \in Keys \cup {None}
<1>1. \A x \in selections : x.state \in State
    BY DEF TypeOK, Selection
<1>2. \A x \in states \cup otps : x.state \in State
    BY DEF TypeOK, StateRow, Stored, Challenge
<1>3. \A r \in Requests : req[r].pc \in Tokened \cup Holding \cup {"relabelling"} => req[r].state \in State
    BY RequestAt DEF TypeOK, Tokened, Holding, Stored
<1>4. s \in State
    BY <1>1, <1>2, <1>3 DEF Around, Held
<1> QED
    BY <1>4 DEF State

\* A copy of a state is made from another copy, or from its row.
LEMMA HeldMoves ==
    ASSUME TypeOK, [Next]_vars, NEW s, Held(s)'
    PROVE  Held(s) \/ \E w \in states : s = w.state
<1>1. CASE \E x \in selections' : s = x.state
    BY <1>1, RowsMove DEF Held, Tokened
<1>2. ASSUME NEW r \in Requests, req'[r].pc \in Tokened, s = req'[r].state
      PROVE  Held(s) \/ \E w \in states : s = w.state
    <2>1. Moved(r)
        BY RequestMoves
    <2>2. CASE req'[r] \in {req[r], Idle}
        BY <1>2, <2>2 DEF Idle, Held, Tokened
    <2>3. CASE Begins(req[r], req'[r])
        BY <1>2, <2>3 DEF Begins, Held, Tokened
    <2>4. CASE Identifies(req[r], req'[r])
        BY <1>2, <2>4 DEF Identifies, Held, Tokened
    <2>5. CASE Accepts(req[r], req'[r]) \/ Issues(req[r], req'[r])
        BY <1>2, <2>5 DEF Accepts, Issues, Tokened
    <2> QED
        BY <2>1, <2>2, <2>3, <2>4, <2>5 DEF Moved
<1> QED
    BY <1>1, <1>2 DEF Held

\* So every state has its token from another state of its flow, if not a new one.
LEMMA AroundMoves ==
    ASSUME TypeOK, [Next]_vars, NEW s, Around(s)'
    PROVE  \/ s.key = None \/ Fresh(s)
           \/ \E t : Around(t) /\ t.key = s.key /\ t.flow = s.flow
<1> DEFINE Done == \/ s.key = None \/ Fresh(s)
                   \/ \E t : Around(t) /\ t.key = s.key /\ t.flow = s.flow
<1>1. CASE Held(s)'
    BY <1>1, HeldMoves DEF Around
<1>2. CASE \E x \in states' : s = x.state
    BY <1>2, StatesMove DEF StatesMoved, Around
<1>3. CASE \E x \in otps' : s = x.state
    BY <1>3, RowsMove DEF Around, Holding
<1>4. ASSUME NEW r \in Requests, req'[r].pc \in Holding \cup {"relabelling"}, s = req'[r].state
      PROVE  Done
    <2>1. Moved(r)
        BY RequestMoves
    <2>2. CASE req'[r] \in {req[r], Idle}
        BY <1>4, <2>2 DEF Idle, Around, Holding
    <2>3. CASE Begins(req[r], req'[r])
        BY <1>4, <2>3 DEF Begins, Around, Held, Holding
    <2>4. CASE Identifies(req[r], req'[r])
        BY <1>4, <2>4 DEF Identifies, Around, Held, Holding
    <2>5. CASE Accepts(req[r], req'[r]) \/ Issues(req[r], req'[r])
        BY <1>4, <2>5 DEF Accepts, Issues, Around, Held, Holding
    <2> QED
        BY <2>1, <2>2, <2>3, <2>4, <2>5 DEF Moved
<1> QED
    BY <1>1, <1>2, <1>3, <1>4 DEF Around


LEMMA KeysKept ==
    ASSUME TypeOK, KeyInv, [Next]_vars
    PROVE  KeyInv'
<1>t. TypeOK'
    BY NextType
<1>h. \A f \in Flows : issued[f] <= issued'[f] /\ issued[f] \in Nat /\ issued'[f] \in Nat
    BY HistoryGrows, <1>t DEF TypeOK
<1>n. \A f \in Flows : NewKey(f)[1] = f /\ NewKey(f)[2] = issued[f] + 1
    BY DEF NewKey
<1>k. \A k \in Keys : k[1] \in Flows /\ k[2] \in Nat
    BY DEF Keys
<1>j. \A k \in Keys, f \in Flows : Issued(k, f) => Issued(k, f)' /\ k # NewKey(f)
    BY <1>h, <1>n, <1>k DEF Issued
<1>c. \A c \in Code : c.key \in Keys /\ c.state \in State /\ c.state.flow \in Flows
    BY DEF Code, State
\* A token that was issued, for whichever flow, is not the next one.
<1>o. \A k \in Keys, f \in Flows, g \in Flows : Issued(k, f) => k # NewKey(g)
    BY <1>h, <1>n, <1>k DEF Issued
<1>1. ASSUME NEW s \in State, Around(s)'
      PROVE  /\ s.key = None \/ Issued(s.key, s.flow)'
             /\ Fresh(s) \/ \A c \in codes : s.key # c.key
    <2>1. s.flow \in Flows /\ s.key \in Keys \cup {None}
        BY DEF State
    <2>2. CASE s.key = None
        BY <2>2, <1>c, NoneAssumption DEF TypeOK
    <2>3. CASE Fresh(s)
        BY <2>1, <2>3, <1>n, <1>h DEF Fresh, Issued
    <2>4. ASSUME NEW t, Around(t), t.key = s.key, t.flow = s.flow
          PROVE  /\ s.key = None \/ Issued(s.key, s.flow)'
                 /\ \A c \in codes : s.key # c.key
        <3>1. t \in State /\ t.key \in Keys \cup {None}
            BY <2>4, AroundType
        <3> QED
            BY <2>1, <2>4, <3>1, <1>j DEF KeyInv
    <2> QED
        BY <1>1, <2>2, <2>3, <2>4, AroundMoves
\* Codes: what one of them was.
<1>2. ASSUME NEW c \in codes'
      PROVE  \/ \E d \in codes : c.key = d.key /\ c.state = d.state
             \/ /\ c.key = NewKey(c.state.flow)
                /\ issued'[c.state.flow] = issued[c.state.flow] + 1
                /\ UNCHANGED <<states, selections, otps>>
    <2>1. \A d \in codes : LET x == [d EXCEPT !.sent = TRUE]
                           IN  x.key = d.key /\ x.state = d.state
        BY DEF TypeOK, Code
    <2>2. CASE codes' \subseteq codes
        BY <1>2, <2>2
    <2>3. ASSUME NEW k \in Keys, NEW d \in codes,
                 c = IF d.key = k THEN [d EXCEPT !.sent = TRUE] ELSE d
          PROVE  c.key = d.key /\ c.state = d.state
        BY <2>1, <2>3
    <2> QED
        BY <1>2, <2>2, <2>3, CodesMove DEF CodesMoved
<1>3. \A c \in codes' : Issued(c.key, c.state.flow)'
    <2> SUFFICES ASSUME NEW c \in codes' PROVE Issued(c.key, c.state.flow)'
        OBVIOUS
    <2>1. c.key \in Keys /\ c.state.flow \in Flows
        BY <1>t, <1>c DEF TypeOK
    <2>2. CASE \E d \in codes : c.key = d.key /\ c.state = d.state
        BY <2>1, <2>2, <1>j DEF KeyInv
    <2>3. CASE c.key = NewKey(c.state.flow) /\ issued'[c.state.flow] = issued[c.state.flow] + 1
        BY <2>1, <2>3, <1>n, <1>h DEF Issued
    <2> QED
        BY <1>2, <2>2, <2>3
<1>4. ASSUME NEW s \in State, Around(s)', NEW c \in codes' PROVE s.key # c.key
    <2>1. c.key \in Keys /\ c.state.flow \in Flows /\ s.flow \in Flows /\ s.key \in Keys \cup {None}
        BY <1>t, <1>c DEF TypeOK, State
    <2>2. CASE Fresh(s)
        <3>1. c \in codes
            BY <2>2 DEF Fresh
        <3> QED
            BY <2>1, <2>2, <3>1, <1>o DEF Fresh, KeyInv
    <2>3. CASE ~Fresh(s)
        <3>1. \A d \in codes : s.key # d.key
            BY <1>1, <1>4, <2>3
        <3>2. CASE \E d \in codes : c.key = d.key
            BY <3>1, <3>2
        <3>3. CASE c.key = NewKey(c.state.flow)
            <4>1. \/ s.key = None
                  \/ \E t : Around(t) /\ t.key = s.key /\ t.flow = s.flow
                BY <1>4, <2>3, AroundMoves
            <4>2. ASSUME NEW t, Around(t), t.key = s.key, t.flow = s.flow, s.key # None
                  PROVE  Issued(s.key, s.flow)
                BY <4>2, AroundType DEF KeyInv
            <4> QED
                BY <2>1, <3>3, <4>1, <4>2, <1>o, NoneAssumption
        <3> QED
            BY <1>2, <3>2, <3>3
    <2> QED
        BY <2>2, <2>3
<1>5. ASSUME NEW c \in codes', NEW d \in codes', c.key = d.key PROVE c = d
    <2>1. CASE codes' \subseteq codes
        BY <1>5, <2>1 DEF KeyInv
    <2>2. ASSUME NEW k \in Keys, \A x \in codes' : \E y \in codes :
                 x = IF y.key = k THEN [y EXCEPT !.sent = TRUE] ELSE y
          PROVE  c = d
        <3>1. \A y \in codes : [y EXCEPT !.sent = TRUE].key = y.key
            BY DEF TypeOK, Code
        <3>2. PICK y \in codes : c = IF y.key = k THEN [y EXCEPT !.sent = TRUE] ELSE y
            BY <2>2
        <3>3. PICK z \in codes : d = IF z.key = k THEN [z EXCEPT !.sent = TRUE] ELSE z
            BY <2>2
        <3>4. c.key = y.key /\ d.key = z.key
            BY <3>1, <3>2, <3>3
        <3>5. y = z
            BY <1>5, <3>4 DEF KeyInv
        <3> QED
            BY <3>2, <3>3, <3>5
    <2>3. ASSUME NEW r \in Requests, NEW x \in Code, codes' = codes \cup {x},
                 req[r].state.flow \in Flows, x.key = NewKey(req[r].state.flow)
          PROVE  c = d
        <3>1. \A y \in codes : y.key # x.key
            BY <2>3, <1>c, <1>o DEF KeyInv, TypeOK
        <3> QED
            BY <1>5, <2>3, <3>1 DEF KeyInv
    <2> QED
        BY <2>1, <2>2, <2>3, CodesMove DEF CodesMoved
<1>s. \A w \in states : /\ w.state \in State /\ w.state.key \in Keys /\ w.state.flow \in Flows
                        /\ Around(w.state)
    BY DEF TypeOK, StateRow, Stored, Around, State
<1>6. ASSUME NEW v \in states', NEW w \in states', v.state.key = w.state.key PROVE v = w
    <2>1. CASE states' \subseteq states
        BY <1>6, <2>1 DEF KeyInv
    <2>2. ASSUME NEW y \in states, NEW x \in StateRow,
                 states' \subseteq (states \ {y}) \cup {x}, x.state = y.state
          PROVE  v = w
        BY <1>6, <2>2 DEF KeyInv
    <2>3. ASSUME NEW x \in StateRow, states' = states \cup {x}, Fresh(x.state) PROVE v = w
        <3>1. \A y \in states : y.state.key # x.state.key
            BY <2>3, <1>s, <1>o, NoneAssumption DEF KeyInv, Fresh
        <3> QED
            BY <1>6, <2>3, <3>1 DEF KeyInv
    <2> QED
        BY <2>1, <2>2, <2>3, StatesMove DEF StatesMoved
<1>7. ASSUME NEW w \in states', NEW s \in State, Held(s)', s.key = w.state.key PROVE s = w.state
    <2>1. CASE \E y \in states : w.state = y.state
        <3>1. PICK y \in states : w.state = y.state
            BY <2>1
        <3>2. CASE Held(s)
            BY <1>7, <3>1, <3>2 DEF KeyInv
        <3>3. CASE \E v \in states : s = v.state
            BY <1>7, <3>1, <3>3 DEF KeyInv
        <3> QED
            BY <1>7, <3>2, <3>3, HeldMoves
    <2>2. CASE Fresh(w.state)
        <3>1. Around(s)
            BY <1>7, HeldMoves DEF Around
        <3> QED
            BY <1>7, <2>2, <3>1, <1>o, AroundType, NoneAssumption, <1>t
               DEF KeyInv, Fresh, TypeOK, StateRow, Stored
    <2> QED
        BY <1>7, <2>1, <2>2, StatesMove DEF StatesMoved
<1>8. ASSUME NEW r \in Requests, req'[r].pc = "relabelling" PROVE req'[r].code[1] = req'[r].state.flow
    <2>1. Moved(r)
        BY RequestMoves
    <2>2. CASE req'[r] \in {req[r], Idle}
        BY <1>8, <2>2 DEF Idle, KeyInv
    <2>3. CASE Issues(req[r], req'[r])
        BY <1>8, <2>3, <1>n DEF Issues, NewKey
    <2> QED
        BY <1>8, <2>1, <2>2, <2>3 DEF Moved, Begins, Identifies, Accepts
<1> QED
    BY <1>1, <1>3, <1>4, <1>5, <1>6, <1>7, <1>8 DEF KeyInv

\* Every token that GenerateStateToken or GenerateCode made, in a row or in the
\* hands of a handler, was made for its flow and stands for one thing only:
\* a page sent with it finds the request it was rendered for.
THEOREM KeyInvariant == Spec => []KeyInv
<1>1. Init => KeyInv
    BY DEF Init, KeyInv, Around, Held, Tokened, Holding, Idle
<1>2. TypeOK /\ KeyInv /\ [Next]_vars => KeyInv'
    BY KeysKept
<1> QED
    BY <1>1, <1>2, FlowTypeCorrect, PTL DEF Spec


-----------------------------------------------------------------------------
(* Verified email addresses.                                                *)

\* What EmailProven says of a state and a person.
Demanded(s, person) ==
    LET i == IdentityOf(s, person)
    IN  /\ s.connector \in Direct => i \in proved
        /\ VerificationMode = "strict" => i \in proved
        /\ VerificationMode = "provider" => i \in proved \cup asserted
        /\ person.verified => i \in proved \cup asserted

\* A provider's word is passed on for the identity it was given for.
Said(s, subject, emails) ==
    \A a \in emails : a.verified =>
        [connector |-> s.connector, subject |-> subject, email |-> a.email] \in asserted

Believed(q) ==
    /\ q.pc = "encoding" => q.state.connector \in Upstream \cup {None}
    /\ q.pc \in Tokened \cup {"verifying"} => q.state.connector \in Upstream
    /\ q.pc = "offering" => Said(q.state, q.subject, q.emails)
    /\ q.pc \in {"deciding", "verifying"} /\ q.person.verified =>
           IdentityOf(q.state, q.person) \in asserted
    /\ q.pc = "recording" /\ q.local => IdentityOf(q.state, q.person) \in proved
    /\ q.pc \in {"recording", "completing", "loading", "minting"} => Demanded(q.state, q.person)

\* What is recorded or passed on about an address was said of that very identity.
EmailInv ==
    /\ \A w \in states : w.state.connector \in Upstream \cup {None}
    /\ \A x \in selections : x.state.connector \in Upstream /\ Said(x.state, x.subject, x.emails)
    /\ \A k \in known : k.local => k.id \in proved
    /\ \A r \in Requests : Believed(req[r])
    /\ \A c \in codes : Demanded(c.state, c.person)

\* Nobody takes back what was proved or asserted.
LEMMA DemandedStays ==
    ASSUME TypeOK, [Next]_vars
    PROVE  /\ \A s, p : Demanded(s, p) => Demanded(s, p)'
           /\ \A s, a, e : Said(s, a, e) => Said(s, a, e)'
           /\ \A q : Believed(q) => Believed(q)'
<1>1. \A s, p : Demanded(s, p) => Demanded(s, p)'
    BY HistoryGrows DEF Demanded
<1>2. \A s, a, e : Said(s, a, e) => Said(s, a, e)'
    BY HistoryGrows DEF Said
<1>3. \A q : Believed(q) => Believed(q)'
    BY <1>1, <1>2, HistoryGrows DEF Believed
<1> QED
    BY <1>1, <1>2, <1>3

LEMMA RequestBelieved ==
    ASSUME TypeOK, KeyInv, EmailInv, [Next]_vars, NEW r \in Requests
    PROVE  Believed(req[r])'
<1> SUFFICES ASSUME NEW q, q = req[r], NEW x, x = req'[r] PROVE Believed(x)'
    BY DEF Believed, Demanded, Said
<1>q. q \in Request /\ x \in Request /\ Believed(q) /\ Believed(q)'
    BY NextType, DemandedStays DEF TypeOK, EmailInv
<1>0. x \in {q, Idle} \/ Begins(q, x) \/ Identifies(q, x) \/ Accepts(q, x) \/ Issues(q, x)
    BY RequestMoves DEF Moved
<1>h. proved \subseteq proved' /\ asserted \subseteq asserted'
    BY HistoryGrows
<1>1. CASE x \in {q, Idle}
    BY <1>1, <1>q DEF Idle, Believed, Tokened
<1>2. CASE Begins(q, x)
    <2>1. CASE x.pc \in {"encoding", "saving", "asking", "challenging", "consuming", "backing"}
        BY <1>2, <2>1 DEF Begins, Believed, Tokened, EmailInv
    <2>2. CASE x.pc = "deciding"
        <3>0. PICK w \in selections : \E a \in w.emails :
                 /\ x.state = w.state
                 /\ x.person = [subject |-> w.subject, email |-> a.email, verified |-> a.verified]
            BY <1>2, <2>2 DEF Begins
        <3>1. PICK a \in w.emails :
                 /\ x.state = w.state
                 /\ x.person = [subject |-> w.subject, email |-> a.email, verified |-> a.verified]
            BY <3>0
        <3>2. /\ x.person.verified = a.verified
              /\ IdentityOf(x.state, x.person) =
                     [connector |-> w.state.connector, subject |-> w.subject, email |-> a.email]
            BY <3>1 DEF IdentityOf
        <3>3. x.state.connector \in Upstream /\ Said(w.state, w.subject, w.emails)
            BY <3>1 DEF EmailInv
        <3>4. x.person.verified => IdentityOf(x.state, x.person) \in asserted'
            BY <3>2, <3>3, <1>h DEF Said
        <3> QED
            BY <2>2, <3>3, <3>4 DEF Believed, Tokened
    <2>3. CASE x.pc = "recording"
        <3>1. PICK o \in otps : /\ x.state = o.state
                                /\ x.person = [o.person EXCEPT !.verified = TRUE]
                                /\ IdentityOf(o.state, o.person) \in proved'
            BY <1>2, <2>3 DEF Begins
        <3>2. o.person \in Person
            BY DEF TypeOK, Challenge
        <3>3. IdentityOf(x.state, x.person) = IdentityOf(o.state, o.person)
            BY <3>1, <3>2 DEF IdentityOf, Person
        <3> QED
            BY <2>3, <3>1, <3>3 DEF Believed, Tokened, Demanded
    <2> QED
        BY <1>2, <2>1, <2>2, <2>3 DEF Begins
<1>3. CASE Identifies(q, x)
    <2>1. CASE q.pc = "saving"
        BY <1>3, <1>q, <2>1 DEF Identifies, Believed, Tokened
    <2>2. CASE q.pc = "asking"
        <3>1. q.state.connector \in Upstream
            BY <1>q, <2>2 DEF Believed, Tokened
        <3>2. CASE x.pc = "offering"
            BY <1>3, <2>2, <3>1, <3>2 DEF Identifies, Believed, Tokened, Said
        <3>3. CASE x.pc = "deciding"
            BY <1>3, <2>2, <3>1, <3>3 DEF Identifies, Believed, Tokened
        <3> QED
            BY <1>3, <2>2, <3>2, <3>3 DEF Identifies
    <2>3. CASE q.pc = "deciding"
        <3>1. PICK w \in states : w.state.key = q.state.key /\ x.state = w.state
            BY <1>3, <2>3 DEF Identifies
        <3>2. q.state \in State /\ Held(q.state)
            BY <1>q, <2>3, RequestAt DEF Held, Tokened
        <3>3. x.state = q.state /\ x.person = q.person /\ x.pc = "verifying"
            BY <1>3, <2>3, <3>1, <3>2 DEF Identifies, KeyInv
        <3> QED
            BY <1>q, <2>3, <3>3 DEF Believed, Tokened
    <2> QED
        BY <1>3, <2>1, <2>2, <2>3 DEF Identifies
<1>4. CASE Accepts(q, x)
    <2>1. CASE q.pc = "recording"
        BY <1>4, <1>q, <2>1 DEF Accepts, Believed, Tokened
    <2>2. CASE q.pc = "verifying"
        <3> DEFINE i == IdentityOf(q.state, q.person)
                   v == q.person.verified
        <3>1. /\ x.pc \in {"challenging", "recording", "completing"}
              /\ x.pc # "challenging" => VerificationAccepted(v, Local(i))
              /\ x.state = q.state
              /\ x.person = [q.person EXCEPT !.verified = v \/ Local(i)]
              /\ x.local = Local(i)
            BY <1>4, <2>2 DEF Accepts
        <3>2. q.person \in Person
            BY <1>q, <2>2, RequestAt
        <3>3. IdentityOf(x.state, x.person) = i /\ x.person.verified = (v \/ Local(i))
            BY <3>1, <3>2 DEF IdentityOf, Person
        <3>4. Local(i) => i \in proved
            BY DEF Local, EmailInv
        <3>5. (v => i \in asserted) /\ q.state.connector \in Upstream
            BY <1>q, <2>2 DEF Believed
        <3> HIDE DEF i
        <3>6. x.pc # "challenging" => Demanded(x.state, x.person)
            BY <3>1, <3>3, <3>4, <3>5, FlowAssumption DEF VerificationAccepted, Demanded
        <3>7. x.pc # "challenging" => Demanded(x.state, x.person)'
            BY <3>6, <1>h DEF Demanded
        <3> QED
            BY <3>1, <3>3, <3>4, <3>7, <1>h DEF Believed, Tokened
    <2> QED
        BY <1>4, <2>1, <2>2 DEF Accepts
<1>5. CASE Issues(q, x)
    BY <1>5, <1>q DEF Issues, Believed, Tokened
<1> QED
    BY <1>0, <1>1, <1>2, <1>3, <1>4, <1>5

LEMMA EmailKept ==
    ASSUME TypeOK, KeyInv, EmailInv, [Next]_vars
    PROVE  EmailInv'
<1>1. \A w \in states' : w.state.connector \in Upstream \cup {None}
    BY StatesMove DEF StatesMoved, Fresh, EmailInv, Believed
<1>2. \A x \in selections' : x.state.connector \in Upstream /\ Said(x.state, x.subject, x.emails)'
    BY RowsMove, DemandedStays DEF EmailInv, Believed, Tokened
<1>3. \A k \in known' : k.local => k.id \in proved'
    BY RowsMove, HistoryGrows DEF EmailInv, Believed, Local
<1>4. \A r \in Requests : Believed(req[r])'
    BY RequestBelieved
<1>5. \A c \in codes' : Demanded(c.state, c.person)'
    <2> SUFFICES ASSUME NEW c \in codes' PROVE Demanded(c.state, c.person)
        BY DemandedStays
    <2>1. CASE codes' \subseteq codes
        BY <2>1 DEF EmailInv
    <2>2. ASSUME NEW k \in Keys, NEW d \in codes,
                 c = IF d.key = k THEN [d EXCEPT !.sent = TRUE] ELSE d
          PROVE  Demanded(c.state, c.person)
        <3>1. c.state = d.state /\ c.person = d.person
            BY <2>2 DEF TypeOK, Code
        <3> QED
            BY <3>1 DEF EmailInv
    <2>3. ASSUME NEW r \in Requests, NEW x \in Code, codes' = codes \cup {x},
                 req[r].pc = "minting", x.state = req[r].state, x.person = req[r].person
          PROVE  Demanded(c.state, c.person)
        BY <2>3 DEF EmailInv, Believed
    <2> QED
        BY <2>1, <2>2, <2>3, CodesMove DEF CodesMoved
<1> QED
    BY <1>1, <1>2, <1>3, <1>4, <1>5 DEF EmailInv

\* No code is issued for an address that was not verified the way the configured
\* mode demands, however callbacks, identity selections and emailed codes of
\* several flows are mixed.
THEOREM EmailProvenHolds == Spec => []EmailProven
<1>1. Init => EmailInv
    BY DEF Init, EmailInv, Believed, Tokened, Idle
<1>2. TypeOK /\ KeyInv /\ EmailInv /\ [Next]_vars => EmailInv'
    BY EmailKept
<1>3. EmailInv => EmailProven
    BY DEF EmailInv, EmailProven, Demanded
<1> QED
    BY <1>1, <1>2, <1>3, FlowTypeCorrect, KeyInvariant, PTL DEF Spec


-----------------------------------------------------------------------------
(* The upstream credential of a flow.                                       *)

\* The account with which a state goes on is one for which a callback of its
\* flow came.
Called(s, person) == s.connector \in Upstream => person.subject \in callers[s.flow]

\* The credential with which a state goes on was obtained by such a callback.
Backs(s, cred) ==
    IF s.mode # "" /\ s.connector \in Upstream
    THEN cred \in Credential /\ cred.flow = s.flow /\ cred.subject \in callers[s.flow]
    ELSE cred = None

Backed(q) ==
    /\ q.pc \in {"saving", "asking", "offering"} => q.subject \in callers[q.state.flow]
    /\ q.pc \in {"deciding", "verifying", "challenging", "recording", "completing",
                 "loading", "minting"} => Called(q.state, q.person)
    /\ q.pc = "loading" => q.state.mode # ""
    /\ q.pc = "minting" => Backs(q.state, q.cred)
    /\ q.pc = "relabelling" => q.cred.flow = q.state.flow /\ q.cred.subject \in callers[q.state.flow]
    /\ q.pc \in {"backing", "consuming"} =>
           Called(q.code.state, q.code.person) /\ q.code.key[1] = q.code.state.flow
    /\ q.pc = "backing" => q.code.state.mode # ""
    /\ q.pc = "consuming" => Backs(q.code.state, q.cred)

\* Credentials are kept under tokens of their own flow, and handlers go on with
\* the accounts and credentials of their own flow.
CredentialInv ==
    /\ \A f \in Flows : IsFiniteSet(callers[f])
    /\ \A w \in credentials : w.key[1] = w.cred.flow /\ w.cred.subject \in callers[w.cred.flow]
    /\ \A x \in selections : x.subject \in callers[x.state.flow]
    /\ \A x \in otps \cup codes \cup redeemed : Called(x.state, x.person)
    /\ \A r \in Requests : Backed(req[r])
    /\ \A d \in redeemed : Backs(d.state, d.cred)

LEMMA CalledStays ==
    ASSUME TypeOK, [Next]_vars
    PROVE  /\ \A s \in State : \A p : Called(s, p) => Called(s, p)'
           /\ \A s \in State : \A c : Backs(s, c) => Backs(s, c)'
           /\ \A q \in Request : Backed(q) => Backed(q)'
<1>1. \A s \in State : callers[s.flow] \subseteq callers'[s.flow]
    BY HistoryGrows, StateUpdates
<1>2. \A s \in State : \A p : Called(s, p) => Called(s, p)'
    BY <1>1 DEF Called
<1>3. \A s \in State : \A c : Backs(s, c) => Backs(s, c)'
    BY <1>1 DEF Backs
<1>4. ASSUME NEW q \in Request, Backed(q) PROVE Backed(q)'
    <2>1. /\ q.pc \in {"saving", "asking", "offering", "deciding", "verifying", "challenging",
                       "recording", "completing", "loading", "minting", "relabelling"} =>
                 q.state \in State
          /\ q.pc \in {"backing", "consuming"} => q.code.state \in State
        BY RequestAt DEF Stored, Code
    <2> QED
        BY <1>1, <1>2, <1>3, <1>4, <2>1 DEF Backed
<1> QED
    BY <1>2, <1>3, <1>4

LEMMA RequestBacked ==
    ASSUME TypeOK, KeyInv, CredentialInv, [Next]_vars, NEW r \in Requests
    PROVE  Backed(req[r])'
<1> SUFFICES ASSUME NEW q, q = req[r], NEW x, x = req'[r] PROVE Backed(x)'
    BY DEF Backed, Called, Backs
<1>q. q \in Request /\ x \in Request /\ Backed(q) /\ Backed(q)'
    BY NextType, CalledStays DEF TypeOK, CredentialInv
<1>0. x \in {q, Idle} \/ Begins(q, x) \/ Identifies(q, x) \/ Accepts(q, x) \/ Issues(q, x)
    BY RequestMoves DEF Moved
<1>h. \A s \in State : callers[s.flow] \subseteq callers'[s.flow]
    BY HistoryGrows, StateUpdates
<1>1. CASE x \in {q, Idle}
    <2>1. CASE x = Idle
        <3>1. x.pc = "idle"
            BY <2>1 DEF Idle
        <3> QED
            BY <3>1 DEF Backed
    <2> QED
        BY <1>1, <1>q, <2>1
<1>2. CASE Begins(q, x)
    <2>1. CASE x.pc \in {"encoding", "saving", "asking"}
        BY <1>2, <2>1 DEF Begins, Backed
    <2>2. CASE x.pc = "challenging"
        BY <1>2, <2>2, FlowAssumption DEF Begins, Backed, Called
    <2>3. CASE x.pc = "deciding"
        <3>0. PICK w \in selections : \E a \in w.emails :
                 /\ x.state = w.state
                 /\ x.person = [subject |-> w.subject, email |-> a.email, verified |-> a.verified]
            BY <1>2, <2>3 DEF Begins
        <3>1. x.person.subject = w.subject /\ w.state \in State
            BY <3>0 DEF TypeOK, Selection
        <3>2. Called(x.state, x.person)'
            BY <3>0, <3>1, <1>h DEF Called, CredentialInv
        <3> QED
            BY <2>3, <3>2 DEF Backed
    <2>4. CASE x.pc = "recording"
        <3>1. PICK o \in otps : x.state = o.state /\ x.person = [o.person EXCEPT !.verified = TRUE]
            BY <1>2, <2>4 DEF Begins
        <3>2. o.person \in Person /\ o.state \in State
            BY DEF TypeOK, Challenge
        <3>3. x.person.subject = o.person.subject
            BY <3>1, <3>2 DEF Person
        <3>4. Called(x.state, x.person)'
            BY <3>1, <3>2, <3>3, <1>h DEF Called, CredentialInv
        <3> QED
            BY <2>4, <3>4 DEF Backed
    <2>5. CASE x.pc \in {"consuming", "backing"}
        <3>1. /\ x.code \in codes /\ x.cred = None
              /\ x.pc = IF x.code.state.mode = "" THEN "consuming" ELSE "backing"
            BY <1>2, <2>5 DEF Begins
        <3>2. x.code.state \in State /\ x.code.key[1] = x.code.state.flow
            BY <3>1 DEF TypeOK, Code, KeyInv, Issued
        <3>3. Called(x.code.state, x.code.person)'
            BY <3>1, <3>2, CalledStays DEF CredentialInv
        <3>4. x.code.state.mode = "" => Backs(x.code.state, x.cred)'
            BY <3>1 DEF Backs
        <3> QED
            BY <3>1, <3>2, <3>3, <3>4 DEF Backed
    <2> QED
        BY <1>2, <2>1, <2>2, <2>3, <2>4, <2>5 DEF Begins
<1>3. CASE Identifies(q, x)
    <2>1. CASE q.pc \in {"saving", "asking"}
        BY <1>3, <1>q, <2>1 DEF Identifies, Backed, Called
    <2>2. CASE q.pc = "deciding"
        <3>1. PICK w \in states : w.state.key = q.state.key /\ x.state = w.state
            BY <1>3, <2>2 DEF Identifies
        <3>2. q.state \in State /\ Held(q.state)
            BY <1>q, <2>2, RequestAt DEF Held, Tokened
        <3>3. x.state = q.state /\ x.person = q.person /\ x.pc = "verifying"
            BY <1>3, <2>2, <3>1, <3>2 DEF Identifies, KeyInv
        <3> QED
            BY <1>q, <2>2, <3>3 DEF Backed
    <2> QED
        BY <1>3, <2>1, <2>2 DEF Identifies
<1>4. CASE Accepts(q, x)
    <2>1. CASE q.pc = "recording"
        BY <1>4, <1>q, <2>1 DEF Accepts, Backed
    <2>2. CASE q.pc = "verifying"
        <3>1. /\ x.pc \in {"challenging", "recording", "completing"} /\ x.state = q.state
              /\ \E b : x.person = [q.person EXCEPT !.verified = b]
            BY <1>4, <2>2 DEF Accepts
        <3>2. q.person \in Person
            BY <1>q, <2>2, RequestAt
        <3>3. x.person.subject = q.person.subject
            BY <3>1, <3>2 DEF Person
        <3> QED
            BY <1>q, <2>2, <3>1, <3>3 DEF Backed, Called
    <2> QED
        BY <1>4, <2>1, <2>2 DEF Accepts
<1>5. CASE Issues(q, x)
    <2>0. ASSUME NEW s \in State, NEW key, NEW cred, Loads(key, s.connector, cred), s.mode # "",
                 \A w \in credentials : w.key = key => key[1] = s.flow
          PROVE  Backs(s, cred)'
        <3>1. CASE s.connector \in Upstream
            <4>1. PICK w \in credentials : w.key = key /\ cred = w.cred
                BY <2>0, <3>1 DEF Loads
            <4>2. cred \in Credential /\ cred.flow = s.flow /\ cred.subject \in callers[s.flow]
                BY <2>0, <4>1 DEF CredentialInv, TypeOK, Kept
            <4> QED
                BY <2>0, <3>1, <4>2, <1>h DEF Backs
        <3>2. CASE s.connector \notin Upstream
            BY <2>0, <3>2 DEF Loads, Backs
        <3> QED
            BY <3>1, <3>2
    <2>1. CASE q.pc = "completing"
        BY <1>5, <1>q, <2>1 DEF Issues, Backed, Backs
    <2>2. CASE q.pc = "loading"
        <3>1. /\ x.pc = "minting" /\ x.state = q.state /\ x.person = q.person
              /\ Loads(q.state.key, q.state.connector, x.cred)
            BY <1>5, <2>2 DEF Issues
        <3>2. q.state \in State /\ Around(q.state) /\ q.state.mode # ""
            BY <1>q, <2>2, RequestAt DEF Around, Holding, Backed
        <3>k. q.state.key = None \/ q.state.key[1] = q.state.flow
            BY <3>2 DEF KeyInv, Issued
        <3>w. \A w \in credentials : w.key # None
            BY NoneAssumption DEF TypeOK, Kept
        <3>3. \A w \in credentials : w.key = q.state.key => q.state.key[1] = q.state.flow
            BY <3>k, <3>w
        <3>4. Backs(q.state, x.cred)'
            BY <2>0, <3>1, <3>2, <3>3
        <3> QED
            BY <1>q, <2>2, <3>1, <3>4 DEF Backed
    <2>3. CASE q.pc = "minting"
        <3>1. /\ x.pc = "relabelling" /\ x.state = q.state /\ x.cred = q.cred /\ q.cred # None
            BY <1>5, <2>3 DEF Issues
        <3> QED
            BY <1>q, <2>3, <3>1 DEF Backed, Backs
    <2>4. CASE q.pc = "backing"
        <3>1. /\ x.pc = "consuming" /\ x.code = q.code
              /\ Loads(q.code.key, q.code.state.connector, x.cred)
            BY <1>5, <2>4 DEF Issues
        <3>2. /\ q.code.state \in State /\ q.code.state.mode # ""
              /\ q.code.key[1] = q.code.state.flow
            BY <1>q, <2>4, RequestAt DEF Code, Backed
        <3>3. Backs(q.code.state, x.cred)'
            BY <2>0, <3>1, <3>2
        <3> QED
            BY <1>q, <2>4, <3>1, <3>3 DEF Backed
    <2> QED
        BY <1>5, <2>1, <2>2, <2>3, <2>4 DEF Issues
<1> QED
    BY <1>0, <1>1, <1>2, <1>3, <1>4, <1>5


LEMMA CredentialsKept ==
    ASSUME TypeOK, KeyInv, CredentialInv, [Next]_vars
    PROVE  CredentialInv'
<1>t. TypeOK'
    BY NextType
<1>h. \A f \in Flows : callers[f] \subseteq callers'[f]
    BY HistoryGrows
<1>q. \A r \in Requests : req[r] \in Request /\ Backed(req[r])
    BY DEF TypeOK, CredentialInv
<1>1. \A f \in Flows : IsFiniteSet(callers'[f])
    <2>1. CASE UNCHANGED callers
        BY <2>1 DEF CredentialInv
    <2>2. ASSUME NEW r \in Requests, NEW w \in states, NEW a \in Subjects, Callback(r, w, a),
                 NEW f \in Flows
          PROVE  IsFiniteSet(callers'[f])
        <3>1. callers'[f] = callers[f] \/ callers'[f] = callers[f] \cup {a}
            BY <2>2 DEF Callback, TypeOK
        <3>2. IsFiniteSet(callers[f])
            BY DEF CredentialInv
        <3>3. IsFiniteSet(callers[f] \cup {a})
            BY <3>2, FS_AddElement
        <3> QED
            BY <3>1, <3>2, <3>3
    <2> QED
        BY <2>1, <2>2, Writers DEF Written
<1>2. \A w \in credentials' : w.key[1] = w.cred.flow /\ w.cred.subject \in callers'[w.cred.flow]
    <2> SUFFICES ASSUME NEW w \in credentials'
                 PROVE  w.key[1] = w.cred.flow /\ w.cred.subject \in callers'[w.cred.flow]
        OBVIOUS
    <2>0. w.cred.flow \in Flows
        BY <1>t DEF TypeOK, Kept, Credential
    <2>1. CASE w \in credentials
        BY <2>0, <2>1, <1>h DEF CredentialInv
    <2>2. ASSUME NEW r \in Requests, req[r].pc = "saving", w.key = req[r].state.key,
                 w.cred = [flow |-> req[r].state.flow, subject |-> req[r].subject]
          PROVE  w.key[1] = w.cred.flow /\ w.cred.subject \in callers'[w.cred.flow]
        <3>1. req[r].state \in State /\ req[r].state.key \in Keys /\ Around(req[r].state)
            BY <1>q, <2>2, RequestAt DEF Stored, Around, Held, Tokened
        <3>2. req[r].state.key[1] = req[r].state.flow
            BY <3>1, NoneAssumption DEF KeyInv, Issued
        <3>3. w.cred.flow = req[r].state.flow /\ w.cred.subject = req[r].subject
            BY <2>2
        <3> QED
            BY <1>q, <1>h, <2>0, <2>2, <3>2, <3>3 DEF Backed
    <2>3. ASSUME NEW r \in Requests, req[r].pc = "relabelling", w.key = req[r].code,
                 w.cred = req[r].cred
          PROVE  w.key[1] = w.cred.flow /\ w.cred.subject \in callers'[w.cred.flow]
        BY <1>q, <1>h, <2>0, <2>3 DEF Backed, KeyInv
    <2> QED
        BY <2>1, <2>2, <2>3, RowsMove
<1>3. \A x \in selections' : x.subject \in callers'[x.state.flow]
    <2> SUFFICES ASSUME NEW x \in selections' PROVE x.subject \in callers'[x.state.flow]
        OBVIOUS
    <2>1. x.state.flow \in Flows
        BY <1>t, StateUpdates DEF TypeOK, Selection
    <2>2. x.subject \in callers[x.state.flow]
        BY <1>q, RowsMove DEF CredentialInv, Backed
    <2> QED
        BY <1>h, <2>1, <2>2
<1>4. \A x \in otps' \cup codes' \cup redeemed' : Called(x.state, x.person)'
    <2> SUFFICES ASSUME NEW x \in otps' \cup codes' \cup redeemed' PROVE Called(x.state, x.person)
        <3>1. \A x \in otps' \cup codes' \cup redeemed' : x.state \in State
            BY <1>t DEF TypeOK, Challenge, Code, SignIn
        <3> QED
            BY <3>1, CalledStays
    <2>1. CASE x \in otps'
        <3>1. \A o \in otps : Called(o.state, o.person)
            BY DEF CredentialInv
        <3>2. \A r \in Requests : req[r].pc = "challenging" => Called(req[r].state, req[r].person)
            BY <1>q DEF Backed
        <3> QED
            BY <2>1, <3>1, <3>2, RowsMove
    <2>2. CASE x \in redeemed'
        BY <1>q, <2>2, RowsMove DEF CredentialInv, Called, Backed
    <2>3. CASE x \in codes'
        <3>1. CASE codes' \subseteq codes
            BY <2>3, <3>1 DEF CredentialInv
        <3>2. ASSUME NEW k \in Keys, NEW d \in codes,
                     x = IF d.key = k THEN [d EXCEPT !.sent = TRUE] ELSE d
              PROVE  Called(x.state, x.person)
            <4>1. x.state = d.state /\ x.person = d.person
                BY <3>2 DEF TypeOK, Code
            <4> QED
                BY <4>1 DEF CredentialInv
        <3>3. ASSUME NEW r \in Requests, NEW c \in Code, codes' = codes \cup {c},
                     req[r].pc = "minting", c.state = req[r].state, c.person = req[r].person
              PROVE  Called(x.state, x.person)
            BY <1>q, <2>3, <3>3 DEF CredentialInv, Backed
        <3> QED
            BY <2>3, <3>1, <3>2, <3>3, CodesMove DEF CodesMoved
    <2> QED
        BY <2>1, <2>2, <2>3
<1>5. \A r \in Requests : Backed(req[r])'
    BY RequestBacked
<1>6. \A d \in redeemed' : Backs(d.state, d.cred)'
    <2> SUFFICES ASSUME NEW d \in redeemed' PROVE Backs(d.state, d.cred)
        <3>1. \A d \in redeemed' : d.state \in State
            BY <1>t DEF TypeOK, SignIn
        <3> QED
            BY <3>1, CalledStays
    <2> QED
        BY <1>q, RowsMove DEF CredentialInv, Backed
<1> QED
    BY <1>1, <1>2, <1>3, <1>4, <1>5, <1>6 DEF CredentialInv

\* Credentials follow their flow from the callback to the code and the grant.
LEMMA CredentialInvariant == Spec => []CredentialInv
<1>1. ASSUME Init PROVE CredentialInv
    <2>1. \A f \in Flows : callers[f] = {}
        BY <1>1 DEF Init
    <2>2. \A r \in Requests : req[r].pc = "idle"
        BY <1>1 DEF Init, Idle
    <2>3. \A r \in Requests : Backed(req[r])
        BY <2>2 DEF Backed
    <2> QED
        BY <1>1, <2>1, <2>3, FS_EmptySet DEF Init, CredentialInv
<1>2. TypeOK /\ KeyInv /\ CredentialInv /\ [Next]_vars => CredentialInv'
    BY CredentialsKept
<1> QED
    BY <1>1, <1>2, FlowTypeCorrect, KeyInvariant, PTL DEF Spec

\* A refresh grant keeps a credential that a callback of its own flow obtained,
\* however many flows and accounts use the same provider at the same time.
THEOREM CredentialOfFlowHolds == Spec => []CredentialOfFlow
<1>1. ASSUME TypeOK, CredentialInv PROVE CredentialOfFlow
    <2> SUFFICES ASSUME NEW d \in redeemed, d.state.mode # "", d.state.connector \in Upstream,
                        Cardinality(callers[d.state.flow]) = 1
                 PROVE  d.cred.subject = d.person.subject
        <3>1. \A d \in redeemed : Backs(d.state, d.cred)
            BY <1>1 DEF CredentialInv
        <3> QED
            BY <3>1, NoneAssumption DEF CredentialOfFlow, Backs
    <2>1. d.state.flow \in Flows
        BY <1>1, StateUpdates DEF TypeOK, SignIn
    <2>2. PICK a : callers[d.state.flow] = {a}
        BY <1>1, <2>1, FS_Singleton DEF CredentialInv
    <2>3. d.cred.subject \in callers[d.state.flow] /\ d.person.subject \in callers[d.state.flow]
        BY <1>1 DEF CredentialInv, Backs, Called
    <2> QED
        BY <2>2, <2>3
<1> QED
    BY <1>1, FlowTypeCorrect, CredentialInvariant, PTL


\* A credential stays until it expires, its token is used for a newer one, it moves
\* to the code, or the code is consumed.
LEMMA CredentialsStay ==
    ASSUME TypeOK, [Next]_vars, NEW w \in credentials
    PROVE  \/ w \in credentials' \/ w.exp <= clock
           \/ \E r \in Requests : /\ req[r].pc \in {"saving", "relabelling"}
                                  /\ w.key = req[r].state.key
           \/ \E r \in Requests, x \in credentials' :
                 /\ req[r].pc = "relabelling" /\ w.key = req[r].code
                 /\ x.key = w.key /\ x.exp = clock + CodeTTL
           \/ \E r \in Requests : /\ req[r].code \in codes \ codes'
                                  /\ codes' \subseteq codes /\ w.key = req[r].code.key
<1> DEFINE Stays == \/ w \in credentials' \/ w.exp <= clock
                    \/ \E r \in Requests : /\ req[r].pc \in {"saving", "relabelling"}
                                           /\ w.key = req[r].state.key
                    \/ \E r \in Requests, x \in credentials' :
                          /\ req[r].pc = "relabelling" /\ w.key = req[r].code
                          /\ x.key = w.key /\ x.exp = clock + CodeTTL
                    \/ \E r \in Requests : /\ req[r].code \in codes \ codes'
                                           /\ codes' \subseteq codes /\ w.key = req[r].code.key
<1>1. CASE UNCHANGED credentials
    BY <1>1
<1>2. ASSUME NEW r \in Requests, Ask(r) PROVE Stays
    BY <1>1, <1>2 DEF Ask, ConsumePushed, Consent, Select, EmailStart, Callback, rows,
        ConsumeIdentitySelection, ConsumeOTP, PeekCode
<1>3. ASSUME NEW r \in Requests, Step(r) PROVE Stays
    <2>1. ASSUME SaveFlowCredential(r) PROVE Stays
        <3>1. w.key # None
            BY NoneAssumption DEF TypeOK, Kept
        <3> QED
            BY <2>1, <3>1 DEF SaveFlowCredential, Relabelled, At
    <2>2. ASSUME RelabelCredential(r) PROVE Stays
        <3> DEFINE x == [key |-> req[r].code, cred |-> req[r].cred, exp |-> clock + CodeTTL]
        <3>1. /\ req[r].pc = "relabelling" /\ x \in credentials'
              /\ w \in credentials' \/ w.key \in {req[r].state.key, req[r].code}
            BY <2>2 DEF RelabelCredential, Relabelled, At
        <3>2. x.key = req[r].code /\ x.exp = clock + CodeTTL
            OBVIOUS
        <3> HIDE DEF x
        <3> QED
            BY <3>1, <3>2
    <2>3. ASSUME ConsumeAuthCode(r) PROVE Stays
        BY <2>3 DEF ConsumeAuthCode
    <2>4. CASE UNCHANGED credentials
        BY <2>4
    <2> QED
        BY <1>3, <2>1, <2>2, <2>3, <2>4 DEF Step, Encode, GetIdentity, DecodeState, CreateOTP,
            CreateIdentitySelection, CredentialVerified, SaveCredential, RenderGrants,
            Admit, LoadFlowCredential, GenerateCode, LoadCodeCredential, rows
<1>4. CASE CleanupCredentials
    BY <1>4 DEF CleanupCredentials, TypeOK, Kept
<1>5. CASE \/ \E f \in Flows, p \in Profiles :
                 Push(f, p) \/ \E m \in {"", "session", "offline"} : Authorize(f, p, m)
           \/ \E v \in states : Discard(v)
           \/ \E o \in otps : ResendOTP(o)
           \/ \E r \in Requests : Fail(r)
           \/ CleanupPushed \/ CleanupStates \/ CleanupSelections \/ CleanupOTPs
           \/ CleanupCodes \/ Tick \/ UNCHANGED vars
    BY <1>1, <1>5 DEF Push, Authorize, Discard, ResendOTP, Fail, CleanupPushed, CleanupStates,
        CleanupSelections, CleanupOTPs, CleanupCodes, Tick, vars, rows
<1> QED
    BY <1>2, <1>3, <1>4, <1>5 DEF Next

\* No code lives longer than one that is issued now.
CodeLife == \A c \in codes : c.exp <= clock + CodeTTL

\* A code that was delivered finds its credential for as long as it is valid: other
\* flows, a second callback and cleanup take it from none.
THEOREM CodeKeepsCredentialHolds == Spec => []CodeKeepsCredential
<1> DEFINE CodeInv == CodeLife /\ CodeKeepsCredential
<1>1. Init => CodeInv
    BY DEF Init, CodeLife, CodeKeepsCredential
<1>2. ASSUME TypeOK, KeyInv, CredentialInv, CodeInv, [Next]_vars PROVE CodeInv'
    <2>t. TypeOK' /\ CodeTTL \in Nat
        BY <1>2, NextType, FlowAssumption
    <2>h. clock \in Nat /\ clock' \in Nat /\ clock <= clock'
        BY <1>2, HistoryGrows
    <2>e. (\A c \in codes : c.exp \in Nat) /\ (\A w \in credentials : w.exp \in Nat)
        BY <1>2 DEF TypeOK, Code, Kept
    \* A code that was sent before this step.
    <2>1. ASSUME NEW c \in codes', NEW d \in codes, d.sent, c.key = d.key, c.exp = d.exp,
                 c.state = d.state,
                 clock' < c.exp, c.state.mode # "", c.state.connector \in Upstream
          PROVE  \E x \in credentials' : x.key = c.key /\ x.exp >= c.exp
        <3>0. clock < d.exp /\ d.exp \in Nat
            <4>1. d.exp \in Nat /\ clock' < d.exp
                BY <2>1, <2>e
            <4> QED
                BY <2>h, <4>1
        <3>1. PICK w \in credentials : w.key = d.key /\ w.exp >= d.exp
            <4>1. d.state.mode # "" /\ d.state.connector \in Upstream
                BY <2>1
            <4> QED
                BY <1>2, <2>1, <3>0, <4>1, Zenon DEF CodeKeepsCredential
        <3>2. ~(w.exp <= clock)
            <4>1. w.exp \in Nat
                BY <2>e
            <4> QED
                BY <2>h, <3>0, <3>1, <4>1
        <3>3. \A r \in Requests : req[r].pc \in {"saving", "relabelling"} => w.key # req[r].state.key
            <4>1. \A r \in Requests : req[r].pc \in {"saving", "relabelling"} =>
                      req[r].state \in State /\ Around(req[r].state)
                BY <1>2, RequestAt DEF TypeOK, Stored, Around, Held, Tokened
            <4> QED
                BY <1>2, <3>1, <4>1 DEF KeyInv
        <3>4. \A r \in Requests : req[r].code \in codes \ codes' /\ codes' \subseteq codes =>
                  w.key # req[r].code.key
            BY <1>2, <2>1, <3>1 DEF KeyInv
        <3>5. CASE w \in credentials'
            BY <2>1, <3>1, <3>5
        <3>6. ASSUME NEW x \in credentials', x.key = w.key, x.exp = clock + CodeTTL
              PROVE  x.key = c.key /\ x.exp >= c.exp
            BY <1>2, <2>1, <2>h, <2>t, <2>e, <3>1, <3>6 DEF CodeLife
        <3> QED
            BY <1>2, <3>2, <3>3, <3>4, <3>5, <3>6, CredentialsStay
    <2> DEFINE Finds(c) ==
            c.sent /\ clock' < c.exp /\ c.state.mode # "" /\ c.state.connector \in Upstream =>
                \E x \in credentials' : x.key = c.key /\ x.exp >= c.exp
    <2>2. ASSUME NEW c \in codes' PROVE c.exp <= clock' + CodeTTL /\ Finds(c)
        <3>0. ASSUME NEW e \in Nat, e <= clock + CodeTTL PROVE e <= clock' + CodeTTL
            <4>1. \A a, b, t \in Nat : a <= b /\ e <= a + t => e <= b + t
                OBVIOUS
            <4> QED
                BY <2>h, <2>t, <3>0, <4>1
        <3>1. CASE c \in codes
            <4>1. c.exp <= clock + CodeTTL /\ c.exp \in Nat
                BY <1>2, <2>e, <3>1 DEF CodeLife
            <4>2. Finds(c)
                BY <2>1, <2>2, <3>1, Zenon
            <4> QED
                BY <3>0, <4>1, <4>2
        <3>2. ASSUME NEW r \in Requests, RelabelCredential(r)
              PROVE  c.exp <= clock' + CodeTTL /\ Finds(c)
            <4> DEFINE x == [key |-> req[r].code, cred |-> req[r].cred, exp |-> clock + CodeTTL]
            <4>1. x \in credentials' /\ x.key = req[r].code /\ x.exp = clock + CodeTTL
                BY <3>2 DEF RelabelCredential, Relabelled
            <4>2. PICK d \in codes : c = IF d.key = req[r].code THEN [d EXCEPT !.sent = TRUE] ELSE d
                BY <2>2, <3>2 DEF RelabelCredential, Sent
            <4>3. c.key = d.key /\ c.exp = d.exp /\ c.state = d.state
                  /\ (d.key # req[r].code => c.sent = d.sent)
                BY <1>2, <4>2 DEF TypeOK, Code
            <4>4. c.exp <= clock + CodeTTL /\ c.exp \in Nat
                BY <1>2, <2>e, <4>3 DEF CodeLife
            <4> HIDE DEF x
            <4>5. CASE d.key = req[r].code
                <5>1. x.key = c.key /\ x.exp >= c.exp
                    BY <2>h, <2>t, <4>1, <4>3, <4>4, <4>5
                <5>2. Finds(c)
                    BY <4>1, <5>1, Zenon
                <5> QED
                    BY <3>0, <4>4, <5>2
            <4>6. CASE d.key # req[r].code
                <5>1. Finds(c)
                    BY <2>1, <2>2, <4>3, <4>6, Zenon
                <5> QED
                    BY <3>0, <4>4, <5>1
            <4> QED
                BY <4>5, <4>6
        <3>3. ASSUME NEW r \in Requests, GenerateCode(r), c \notin codes
              PROVE  c.exp <= clock' + CodeTTL /\ Finds(c)
            <4>1. /\ c.exp = clock + CodeTTL /\ c.state = req[r].state
                  /\ c.sent = (req[r].cred = None) /\ req[r].pc = "minting"
                BY <2>2, <3>3 DEF GenerateCode, At
            <4>2. Backs(req[r].state, req[r].cred)
                BY <1>2, <4>1 DEF CredentialInv, Backed
            <4>3. req[r].cred = None => ~(c.state.mode # "" /\ c.state.connector \in Upstream)
                BY <4>1, <4>2, NoneAssumption DEF Backs
            <4>4. Finds(c)
                BY <4>1, <4>3, Zenon
            <4>5. clock + CodeTTL \in Nat /\ clock + CodeTTL <= clock + CodeTTL
                BY <2>h, <2>t
            <4> QED
                BY <3>0, <4>1, <4>4, <4>5
        <3> QED
            BY <1>2, <2>2, <3>1, <3>2, <3>3, Writers DEF Written
    <2> QED
        BY <2>2 DEF CodeLife, CodeKeepsCredential
<1> QED
    BY <1>1, <1>2, FlowTypeCorrect, KeyInvariant, CredentialInvariant, PTL DEF Spec


-----------------------------------------------------------------------------
(* One carrier at a time.                                                   *)

\* x, a row of table t or a request, carries flow f.
Carries(t, x, f) ==
    \/ t = "pushed"   /\ x \in pushed   /\ x.flow = f
    \/ t = "state"    /\ x \in states   /\ x.state.flow = f
    \/ t = "request"  /\ x \in Requests /\ req[x].pc \in Holding /\ req[x].state.flow = f
    \/ t = "otp"      /\ x \in otps     /\ x.state.flow = f
    \/ t = "code"     /\ x \in codes    /\ x.state.flow = f
    \/ t = "redeemed" /\ x \in redeemed /\ x.state.flow = f

Sole ==
    \A f \in Flows : \A t, x, u, y : Carries(t, x, f) /\ Carries(u, y, f) => t = u /\ x = y

\* A flow that has not begun is carried by nothing.
LEMMA NotBegun ==
    ASSUME TypeOK, ConsentInv, NEW f \in Flows, profile[f] = None
    PROVE  \A t, x : ~Carries(t, x, f)
<1>1. profile[f] \notin Profile
    BY FlowAssumption
<1>2. \A s : Sound(s) => s.flow # f
    BY <1>1 DEF Sound
<1>3. \A r \in Requests : req[r].pc \in Holding => Sound(req[r].state)
    BY DEF ConsentInv, ReqSound, Admitted, Holding
<1>4. \A x \in states \cup otps \cup codes \cup redeemed : Sound(x.state)
    BY DEF ConsentInv, Admitted
<1>5. \A p \in pushed : p.flow # f
    BY <1>1 DEF ConsentInv
<1> QED
    BY <1>2, <1>3, <1>4, <1>5 DEF Carries

\* What carries a flow may hand it over.
LEMMA Handover ==
    ASSUME Sole, NEW f, NEW t, NEW x,
           \A u, y, g : Carries(u, y, g)' => Carries(u, y, g) \/ (g = f /\ u = t /\ y = x),
           \A u, y : ~Carries(u, y, f)
               \/ \E v, z : Carries(v, z, f) /\ (~Carries(v, z, f)' \/ (v = t /\ z = x))
    PROVE  Sole'
<1> SUFFICES ASSUME NEW g \in Flows, NEW u, NEW y, NEW v, NEW z, Carries(u, y, g)', Carries(v, z, g)'
             PROVE  u = v /\ y = z
    BY DEF Sole
<1>1. CASE g # f
    BY <1>1 DEF Sole
<1>2. ASSUME g = f, NEW a, NEW b, Carries(a, b, f)' PROVE a = t /\ b = x
    BY <1>2 DEF Sole
<1> QED
    BY <1>1, <1>2

\* No row is added, and no request begins to carry a flow.
LEMMA NoneAdded ==
    ASSUME Sole, \A u, y, g : Carries(u, y, g)' => Carries(u, y, g)
    PROVE  Sole'
BY DEF Sole

\* A row is consumed by the request that goes on with its flow.
LEMMA RowToRequest ==
    ASSUME TypeOK, Sole, NEW r \in Requests, NEW q, req' = [req EXCEPT ![r] = q], NEW f,
           q.state.flow = f, NEW v, NEW z, Carries(v, z, f), ~Carries(v, z, f)',
           pushed' \subseteq pushed, states' \subseteq states, otps' \subseteq otps,
           codes' \subseteq codes, redeemed' \subseteq redeemed
    PROVE  Sole'
<1>1. req'[r] = q /\ \A y \in Requests : y # r => req'[y] = req[y]
    BY DEF TypeOK
<1>2. \A u, y, g : Carries(u, y, g)' => Carries(u, y, g) \/ (g = f /\ u = "request" /\ y = r)
    BY <1>1 DEF Carries
<1> QED
    BY <1>2, Handover

\* A request does something that carries its flow neither to nor from a row.
LEMMA RequestStays ==
    ASSUME TypeOK, Sole, NEW r \in Requests, NEW q, req' = [req EXCEPT ![r] = q],
           q.pc \in Holding => req[r].pc \in Holding /\ q.state.flow = req[r].state.flow,
           pushed' \subseteq pushed, states' \subseteq states, otps' \subseteq otps,
           codes' \subseteq codes, redeemed' \subseteq redeemed
    PROVE  Sole'
<1>1. req'[r] = q /\ \A y \in Requests : y # r => req'[y] = req[y]
    BY DEF TypeOK
<1>2. \A u, y, g : Carries(u, y, g)' => Carries(u, y, g)
    BY <1>1 DEF Carries
<1> QED
    BY <1>2, NoneAdded

\* A request leaves its flow to a row and ends.
LEMMA RequestToRow ==
    ASSUME TypeOK, Sole, NEW r \in Requests, NEW q, req' = [req EXCEPT ![r] = q],
           q.pc \notin Holding, req[r].pc \in Holding, NEW x, x.state.flow = req[r].state.flow,
           pushed' \subseteq pushed, redeemed' \subseteq redeemed,
           \/ states' \subseteq states \cup {x} /\ otps' \subseteq otps /\ codes' \subseteq codes
           \/ states' \subseteq states /\ otps' \subseteq otps \cup {x} /\ codes' \subseteq codes
           \/ states' \subseteq states /\ otps' \subseteq otps /\ codes' \subseteq codes \cup {x}
    PROVE  Sole'
<1> SUFFICES ASSUME NEW f, f = req[r].state.flow PROVE Sole'
    OBVIOUS
<1>1. req'[r] = q /\ \A y \in Requests : y # r => req'[y] = req[y]
    BY DEF TypeOK
<1>2. Carries("request", r, f) /\ ~Carries("request", r, f)'
    BY <1>1 DEF Carries
<1>3. PICK t : \A u, y, g : Carries(u, y, g)' => Carries(u, y, g) \/ (g = f /\ u = t /\ y = x)
    <2>1. CASE states' \subseteq states \cup {x} /\ otps' \subseteq otps /\ codes' \subseteq codes
        <3>1. \A u, y, g : Carries(u, y, g)' => Carries(u, y, g) \/ (g = f /\ u = "state" /\ y = x)
            BY <1>1, <2>1 DEF Carries
        <3> QED
            BY <3>1
    <2>2. CASE states' \subseteq states /\ otps' \subseteq otps \cup {x} /\ codes' \subseteq codes
        <3>1. \A u, y, g : Carries(u, y, g)' => Carries(u, y, g) \/ (g = f /\ u = "otp" /\ y = x)
            BY <1>1, <2>2 DEF Carries
        <3> QED
            BY <3>1
    <2>3. CASE states' \subseteq states /\ otps' \subseteq otps /\ codes' \subseteq codes \cup {x}
        <3>1. \A u, y, g : Carries(u, y, g)' => Carries(u, y, g) \/ (g = f /\ u = "code" /\ y = x)
            BY <1>1, <2>3 DEF Carries
        <3> QED
            BY <3>1
    <2> QED
        BY <2>1, <2>2, <2>3
<1> QED
    BY <1>2, <1>3, Handover


\* Beginning a flow is what first carries it.
LEMMA BeginSole ==
    ASSUME TypeOK, ConsentInv, Sole, NEW f \in Flows, NEW p \in Profiles
    PROVE  /\ Push(f, p) => Sole'
           /\ \A m \in {"", "session", "offline"} : Authorize(f, p, m) => Sole'
<1>1. ASSUME Push(f, p) PROVE Sole'
    <2>1. PICK x : pushed' = pushed \cup {x} /\ x.flow = f
        <3> DEFINE y == [flow |-> f, exp |-> clock + PushTTL]
        <3>1. pushed' = pushed \cup {y} /\ y.flow = f
            BY <1>1 DEF Push
        <3> HIDE DEF y
        <3> QED
            BY <3>1
    <2>2. UNCHANGED <<states, req, otps, codes, redeemed>> /\ \A u, y : ~Carries(u, y, f)
        BY <1>1, NotBegun DEF Push
    <2>3. \A u, y, g : Carries(u, y, g)' => Carries(u, y, g) \/ (g = f /\ u = "pushed" /\ y = x)
        BY <2>1, <2>2 DEF Carries
    <2> QED
        BY <2>2, <2>3, Handover
<1>2. ASSUME NEW x, states' = states \cup {x}, x.state.flow = f, profile[f] = None,
             UNCHANGED <<pushed, req, otps, codes, redeemed>>
      PROVE  Sole'
    <2>1. \A u, y : ~Carries(u, y, f)
        BY <1>2, NotBegun
    <2>2. \A u, y, g : Carries(u, y, g)' => Carries(u, y, g) \/ (g = f /\ u = "state" /\ y = x)
        BY <1>2 DEF Carries
    <2> QED
        BY <2>1, <2>2, Handover
<1>3. ASSUME NEW m \in {"", "session", "offline"}, Authorize(f, p, m) PROVE Sole'
    <2> DEFINE n == NewState(f, m)
               s == IF p.offline THEN n ELSE Continued(n, p)
               u == [s EXCEPT !.key = NewKey(s.flow)]
               x == [state |-> u, made |-> clock, exp |-> clock + StateTTL]
    <2>1. n \in State /\ n.flow = f
        BY DEF NewState, State
    <2>2. s \in State /\ s.flow = f
        BY <2>1, ContinuedType DEF Continued, State
    <2>3. states' = states \cup {x} /\ profile[f] = None
          /\ UNCHANGED <<pushed, req, otps, codes, redeemed>>
        BY <1>3 DEF Authorize, Saved
    <2> HIDE DEF s
    <2>4. x.state.flow = f
        BY <2>2 DEF State
    <2> HIDE DEF x
    <2> QED
        BY <1>2, <2>3, <2>4
<1> QED
    BY <1>1, <1>3

\* Forms consume the row they work on before they go on with its flow.
LEMMA AskSole ==
    ASSUME TypeOK, Sole, NEW r \in Requests, Ask(r)
    PROVE  Sole'
<1>w. \A w \in states : w.state \in State
    BY DEF TypeOK, StateRow, Stored
<1>1. ASSUME NEW p \in pushed, NEW m \in {"", "session", "offline"}, ConsumePushed(r, p, m)
      PROVE  Sole'
    <2>1. Carries("pushed", p, p.flow) /\ p \notin pushed'
        BY <1>1 DEF ConsumePushed, Carries
    <2>2. PICK q : req' = [req EXCEPT ![r] = q] /\ q.state.flow = p.flow
        <3> DEFINE x == [pc |-> "encoding", state |-> NewState(p.flow, m)]
        <3>1. req' = [req EXCEPT ![r] = x] /\ x.state.flow = p.flow
            BY <1>1 DEF ConsumePushed, NewState
        <3> HIDE DEF x
        <3> QED
            BY <3>1
    <2> SUFFICES ASSUME NEW f, f = p.flow PROVE Sole'
        OBVIOUS
    <2>3. Carries("pushed", p, f) /\ ~Carries("pushed", p, f)'
        BY <2>1 DEF Carries
    <2> QED
        BY <1>1, <2>2, <2>3, RowToRequest DEF ConsumePushed
<1>2. ASSUME NEW w \in states, states' = states \ {w}, NEW q, req' = [req EXCEPT ![r] = q],
             q.state.flow = w.state.flow, UNCHANGED <<pushed, otps, codes, redeemed>>
      PROVE  Sole'
    <2> SUFFICES ASSUME NEW f, f = w.state.flow PROVE Sole'
        OBVIOUS
    <2>1. Carries("state", w, f) /\ ~Carries("state", w, f)'
        BY <1>2 DEF Carries
    <2> QED
        BY <1>2, <2>1, RowToRequest
<1>3. ASSUME NEW w \in states, Consent(r, w) PROVE Sole'
    <2> DEFINE t == [w.state EXCEPT !.consent = TRUE]
               s == Continued(t, profile[w.state.flow])
               q == [pc |-> "encoding", state |-> s]
    <2>1. t \in State /\ t.flow = w.state.flow
        BY <1>w DEF State
    <2>2. s.flow = w.state.flow
        BY <2>1 DEF Continued, State
    <2>3. q.state.flow = w.state.flow
        BY <2>2
    <2>4. /\ req' = [req EXCEPT ![r] = q] /\ states' = states \ {w}
          /\ UNCHANGED <<pushed, otps, codes, redeemed>>
        BY <1>3 DEF Consent
    <2> HIDE DEF q
    <2> QED
        BY <1>2, <2>3, <2>4
<1>4. ASSUME NEW w \in states, NEW c \in Upstream, Select(r, w, c) PROVE Sole'
    <2> DEFINE q == [pc |-> "encoding", state |-> [w.state EXCEPT !.connector = c]]
    <2>1. q.state.flow = w.state.flow
        BY <1>w DEF State
    <2>2. /\ req' = [req EXCEPT ![r] = q] /\ states' = states \ {w}
          /\ UNCHANGED <<pushed, otps, codes, redeemed>>
        BY <1>4 DEF Select
    <2> HIDE DEF q
    <2> QED
        BY <1>2, <2>1, <2>2
<1>5. ASSUME NEW w \in states, NEW c \in Direct, NEW e \in Emails, EmailStart(r, w, c, e)
      PROVE  Sole'
    <2> DEFINE q == [pc |-> "challenging", state |-> [w.state EXCEPT !.connector = c],
                     person |-> [subject |-> e, email |-> e, verified |-> FALSE]]
    <2>1. q.state.flow = w.state.flow
        BY <1>w DEF State
    <2>2. /\ req' = [req EXCEPT ![r] = q] /\ states' = states \ {w}
          /\ UNCHANGED <<pushed, otps, codes, redeemed>>
        BY <1>5 DEF EmailStart
    <2> HIDE DEF q
    <2> QED
        BY <1>2, <2>1, <2>2
<1>6. ASSUME NEW o \in otps, ConsumeOTP(r, o) PROVE Sole'
    <2>1. o \notin otps' /\ UNCHANGED <<pushed, states, codes, redeemed>> /\ otps' \subseteq otps
        BY <1>6 DEF ConsumeOTP
    <2>2. PICK q : req' = [req EXCEPT ![r] = q] /\ q.state = o.state
        <3> DEFINE x == [pc |-> "recording", state |-> o.state, local |-> TRUE,
                         person |-> [o.person EXCEPT !.verified = TRUE]]
        <3>1. req' = [req EXCEPT ![r] = x] /\ x.state = o.state
            BY <1>6 DEF ConsumeOTP
        <3> HIDE DEF x
        <3> QED
            BY <3>1
    <2> SUFFICES ASSUME NEW f, f = o.state.flow PROVE Sole'
        OBVIOUS
    <2>3. Carries("otp", o, f) /\ ~Carries("otp", o, f)'
        BY <2>1 DEF Carries
    <2>4. q.state.flow = f
        BY <2>2
    <2> QED
        BY <2>1, <2>2, <2>3, <2>4, RowToRequest
<1>7. ASSUME NEW q, req' = [req EXCEPT ![r] = q], q.pc \notin Holding,
             UNCHANGED <<pushed, states, otps, codes, redeemed>>
      PROVE  Sole'
    BY <1>7, RequestStays
<1>8. ASSUME NEW w \in states, NEW a \in Subjects, Callback(r, w, a) PROVE Sole'
    <2> DEFINE q == [pc |-> IF w.state.mode = "" THEN "asking" ELSE "saving",
                     state |-> w.state, subject |-> a]
    <2>1. q.pc \notin Holding /\ req' = [req EXCEPT ![r] = q]
          /\ UNCHANGED <<pushed, states, otps, codes, redeemed>>
        BY <1>8 DEF Callback, Holding, rows
    <2> HIDE DEF q
    <2> QED
        BY <1>7, <2>1
<1>9. ASSUME NEW w \in selections, NEW a \in w.emails, ConsumeIdentitySelection(r, w, a)
      PROVE  Sole'
    <2> DEFINE q == [pc |-> "deciding", state |-> w.state,
                     person |-> [subject |-> w.subject, email |-> a.email, verified |-> a.verified]]
    <2>1. q.pc \notin Holding /\ req' = [req EXCEPT ![r] = q]
          /\ UNCHANGED <<pushed, states, otps, codes, redeemed>>
        BY <1>9 DEF ConsumeIdentitySelection, Holding
    <2> HIDE DEF q
    <2> QED
        BY <1>7, <2>1
<1>10. ASSUME NEW c \in codes, PeekCode(r, c) PROVE Sole'
    <2> DEFINE q == [pc |-> IF c.state.mode = "" THEN "consuming" ELSE "backing",
                     code |-> c, cred |-> None]
    <2>1. q.pc \notin Holding /\ req' = [req EXCEPT ![r] = q]
          /\ UNCHANGED <<pushed, states, otps, codes, redeemed>>
        BY <1>10 DEF PeekCode, Holding, rows
    <2> HIDE DEF q
    <2> QED
        BY <1>7, <2>1
<1> QED
    BY <1>1, <1>3, <1>4, <1>5, <1>6, <1>8, <1>9, <1>10 DEF Ask


\* A handler gives a flow to a row only as it ends, and takes it from one only as
\* it deletes it.
LEMMA StepSole ==
    ASSUME TypeOK, KeyInv, Sole, NEW r \in Requests, Step(r)
    PROVE  Sole'
<1> DEFINE q == req[r]
<1>q. q \in Request
    BY DEF TypeOK
<1>i. Idle.pc \notin Holding
    BY DEF Idle, Holding
<1>0. ASSUME NEW x, req' = [req EXCEPT ![r] = x],
             x.pc \in Holding => q.pc \in Holding /\ x.state.flow = q.state.flow,
             UNCHANGED <<pushed, states, otps, codes, redeemed>>
      PROVE  Sole'
    BY <1>0, RequestStays
<1>1. ASSUME Encode(r) PROVE Sole'
    <2> DEFINE s == q.state
               u == [s EXCEPT !.key = NewKey(s.flow)]
               x == [state |-> u, made |-> clock, exp |-> clock + StateTTL]
    <2>1. q.state \in State /\ q.pc \in Holding
        BY <1>1, <1>q, RequestAt DEF Encode, At, Holding
    <2>2. x.state.flow = q.state.flow
        BY <2>1 DEF State
    <2>3. /\ states' = states \cup {x} /\ req' = [req EXCEPT ![r] = Idle]
          /\ UNCHANGED <<pushed, otps, codes, redeemed>>
        BY <1>1 DEF Encode, Saved, Return
    <2> HIDE DEF x
    <2> QED
        BY <1>i, <2>1, <2>2, <2>3, RequestToRow
<1>2. ASSUME SaveFlowCredential(r) PROVE Sole'
    <2> DEFINE x == [q EXCEPT !.pc = "asking"]
    <2>1. q \in [pc : {"saving", "asking"}, state : Stored, subject : Subjects]
        BY <1>2, <1>q, RequestAt DEF SaveFlowCredential, At
    <2>2. x.pc \notin Holding /\ req' = [req EXCEPT ![r] = x]
          /\ UNCHANGED <<pushed, states, otps, codes, redeemed>>
        BY <1>2, <2>1 DEF SaveFlowCredential, Holding
    <2> HIDE DEF x
    <2> QED
        BY <1>0, <2>2
<1>3. ASSUME NEW e \in Assertions, GetIdentity(r, e) PROVE Sole'
    <2> DEFINE single == CHOOSE a \in e : TRUE
               x == IF Cardinality(e) > 1
                    THEN [pc |-> "offering", state |-> q.state, subject |-> q.subject, emails |-> e]
                    ELSE [pc |-> "deciding", state |-> q.state,
                          person |-> [subject |-> q.subject, email |-> single.email,
                                      verified |-> single.verified]]
    <2>1. x.pc \in {"offering", "deciding"} /\ req' = [req EXCEPT ![r] = x]
        BY <1>3 DEF GetIdentity
    <2>2. UNCHANGED <<pushed, states, otps, codes, redeemed>>
        BY <1>3 DEF GetIdentity, rows
    <2> HIDE DEF x
    <2>3. x.pc \notin Holding
        BY <2>1 DEF Holding
    <2> QED
        BY <1>0, <2>1, <2>2, <2>3
<1>4. ASSUME NEW w \in states, CreateIdentitySelection(r, w) PROVE Sole'
    <2> DEFINE x == [w EXCEPT !.exp = clock + SelectionTTL]
    <2>1. x.state = w.state
        BY DEF TypeOK, StateRow
    <2>2. /\ states' = (states \ {w}) \cup {x} /\ req' = [req EXCEPT ![r] = Idle]
          /\ UNCHANGED <<pushed, otps, codes, redeemed>>
        BY <1>4 DEF CreateIdentitySelection, Return
    <2>3. req'[r] = Idle /\ \A y \in Requests : y # r => req'[y] = req[y]
        BY <2>2 DEF TypeOK
    <2> SUFFICES ASSUME NEW f, f = w.state.flow, NEW z, z = x PROVE Sole'
        OBVIOUS
    <2> HIDE DEF x
    <2>4. Carries("state", w, f) /\ (~Carries("state", w, f)' \/ w = z)
        BY <2>2 DEF Carries
    <2>5. \A u, y, g : Carries(u, y, g)' => Carries(u, y, g) \/ (g = f /\ u = "state" /\ y = z)
        BY <1>i, <2>1, <2>2, <2>3 DEF Carries
    <2> QED
        BY <2>4, <2>5, Handover
<1>5. ASSUME NEW w \in states, DecodeState(r, w) PROVE Sole'
    <2> DEFINE x == [q EXCEPT !.pc = "verifying", !.state = w.state]
    <2>1. q \in [pc : {"deciding", "verifying", "challenging", "completing"}, state : State,
                 person : Person]
        BY <1>5, <1>q, RequestAt DEF DecodeState, At
    <2>2. x.state = w.state
        BY <2>1
    <2>3. /\ req' = [req EXCEPT ![r] = x] /\ states' = states \ {w}
          /\ UNCHANGED <<pushed, otps, codes, redeemed>>
        BY <1>5 DEF DecodeState, TypeOK
    <2> SUFFICES ASSUME NEW f, f = w.state.flow PROVE Sole'
        OBVIOUS
    <2> HIDE DEF x
    <2>4. Carries("state", w, f) /\ ~Carries("state", w, f)'
        BY <2>3 DEF Carries
    <2> QED
        BY <2>2, <2>3, <2>4, RowToRequest
<1>6. ASSUME CredentialVerified(r) \/ SaveCredential(r) \/ Admit(r) \/ LoadFlowCredential(r)
      PROVE  Sole'
    <2>1. UNCHANGED <<pushed, states, otps, codes, redeemed>> /\ q.pc \in Holding
        BY <1>6 DEF CredentialVerified, SaveCredential, Admit, LoadFlowCredential, rows, At, Holding
    <2>2. PICK x : req' = [req EXCEPT ![r] = x] /\ x.state = q.state
        <3>1. CASE CredentialVerified(r)
            <4> DEFINE i == IdentityOf(q.state, q.person)
                       v == q.person.verified
                       x == [pc |-> IF ~VerificationAccepted(v, Local(i)) THEN "challenging"
                                    ELSE IF ~Exists(i) \/ v THEN "recording" ELSE "completing",
                             state |-> q.state,
                             person |-> [q.person EXCEPT !.verified = v \/ Local(i)],
                             local |-> Local(i)]
            <4>1. req' = [req EXCEPT ![r] = x] /\ x.state = q.state
                BY <3>1 DEF CredentialVerified
            <4> HIDE DEF x
            <4> QED
                BY <4>1
        <3>2. CASE SaveCredential(r)
            <4> DEFINE x == [pc |-> "completing", state |-> q.state, person |-> q.person]
            <4>1. req' = [req EXCEPT ![r] = x] /\ x.state = q.state
                BY <3>2 DEF SaveCredential
            <4> HIDE DEF x
            <4> QED
                BY <4>1
        <3>3. CASE Admit(r)
            <4> DEFINE x == [pc |-> IF q.state.mode = "" THEN "minting" ELSE "loading",
                             state |-> q.state, person |-> q.person, cred |-> None]
            <4>1. req' = [req EXCEPT ![r] = x] /\ x.state = q.state
                BY <3>3 DEF Admit
            <4> HIDE DEF x
            <4> QED
                BY <4>1
        <3>4. CASE LoadFlowCredential(r)
            <4>1. q \in [pc : {"loading", "minting"}, state : State, person : Person,
                         cred : Credential \cup {None}]
                BY <3>4, <1>q, RequestAt DEF LoadFlowCredential, At
            <4>2. PICK c : req' = [req EXCEPT ![r] = [q EXCEPT !.pc = "minting", !.cred = c]]
                BY <3>4 DEF LoadFlowCredential, TypeOK
            <4>3. [q EXCEPT !.pc = "minting", !.cred = c].state = q.state
                BY <4>1
            <4> QED
                BY <4>2, <4>3
        <3> QED
            BY <1>6, <3>1, <3>2, <3>3, <3>4
    <2> QED
        BY <1>0, <2>1, <2>2
<1>7. ASSUME CreateOTP(r) PROVE Sole'
    <2> DEFINE x == [state |-> q.state, person |-> q.person, exp |-> clock + OTPTTL]
    <2>1. x.state.flow = q.state.flow /\ q.pc \in Holding
        BY <1>7 DEF CreateOTP, At, Holding
    <2>2. /\ otps' = otps \cup {x} /\ req' = [req EXCEPT ![r] = Idle]
          /\ UNCHANGED <<pushed, states, codes, redeemed>>
        BY <1>7 DEF CreateOTP, Return
    <2> HIDE DEF x
    <2> QED
        BY <1>i, <2>1, <2>2, RequestToRow
<1>8. ASSUME RenderGrants(r) PROVE Sole'
    <2>1. req' = [req EXCEPT ![r] = Idle] /\ UNCHANGED <<pushed, states, otps, codes, redeemed>>
        BY <1>8 DEF RenderGrants, Return, rows
    <2> QED
        BY <1>0, <1>i, <2>1
<1>9. ASSUME GenerateCode(r) PROVE Sole'
    <2> DEFINE x == [key |-> NewKey(q.state.flow), state |-> q.state, person |-> q.person,
                     exp |-> clock + CodeTTL, sent |-> q.cred = None]
               y == IF q.cred = None THEN Idle
                    ELSE [pc |-> "relabelling", state |-> q.state, cred |-> q.cred,
                          code |-> NewKey(q.state.flow)]
    <2>1. x.state.flow = q.state.flow /\ q.pc \in Holding
        BY <1>9 DEF GenerateCode, At, Holding
    <2>2. /\ codes' = codes \cup {x} /\ req' = [req EXCEPT ![r] = y]
          /\ UNCHANGED <<pushed, states, otps, redeemed>>
        BY <1>9 DEF GenerateCode
    <2>3. y.pc \notin Holding
        BY <1>i DEF Holding
    <2> HIDE DEF x, y
    <2> QED
        BY <2>1, <2>2, <2>3, RequestToRow
<1>10. ASSUME RelabelCredential(r) PROVE Sole'
    <2>1. /\ codes' = Sent(q.code) /\ req' = [req EXCEPT ![r] = Idle]
          /\ UNCHANGED <<pushed, states, otps, redeemed>>
        BY <1>10 DEF RelabelCredential, Return
    <2>2. req'[r] = Idle /\ \A y \in Requests : y # r => req'[y] = req[y]
        BY <2>1 DEF TypeOK
    <2>3. CASE \A c \in codes : c.key # q.code
        <3>1. codes' \subseteq codes
            BY <2>1, <2>3 DEF Sent
        <3> QED
            BY <1>i, <2>1, <3>1, RequestStays
    <2>4. ASSUME NEW c \in codes, c.key = q.code PROVE Sole'
        <3> DEFINE x == [c EXCEPT !.sent = TRUE]
        <3>1. x.state = c.state
            BY DEF TypeOK, Code
        <3>2. \A d \in codes' : d = x \/ d \in codes \ {c}
            <4>1. \A d \in codes : d.key = q.code => d = c
                BY <2>4 DEF KeyInv
            <4> QED
                BY <2>1, <2>4, <4>1 DEF Sent
        <3> SUFFICES ASSUME NEW f, f = c.state.flow, NEW z, z = x PROVE Sole'
            OBVIOUS
        <3> HIDE DEF x
        <3>3. Carries("code", c, f) /\ (~Carries("code", c, f)' \/ c = z)
            BY <3>2 DEF Carries
        <3>4. \A u, y, g : Carries(u, y, g)' => Carries(u, y, g) \/ (g = f /\ u = "code" /\ y = z)
            BY <1>i, <2>1, <2>2, <3>1, <3>2 DEF Carries
        <3> QED
            BY <3>3, <3>4, Handover
    <2> QED
        BY <2>3, <2>4
<1>11. ASSUME LoadCodeCredential(r) PROVE Sole'
    <2>1. q \in [pc : {"backing", "consuming"}, code : Code, cred : Credential \cup {None}]
        BY <1>11, <1>q, RequestAt DEF LoadCodeCredential, At
    <2>2. PICK c : req' = [req EXCEPT ![r] = [q EXCEPT !.pc = "consuming", !.cred = c]]
        BY <1>11 DEF LoadCodeCredential, TypeOK
    <2>3. [q EXCEPT !.pc = "consuming", !.cred = c].pc \notin Holding
        BY <2>1 DEF Holding
    <2>4. UNCHANGED <<pushed, states, otps, codes, redeemed>>
        BY <1>11 DEF LoadCodeCredential, rows
    <2> QED
        BY <1>0, <2>2, <2>3, <2>4
<1>12. ASSUME ConsumeAuthCode(r) PROVE Sole'
    <2> DEFINE c == q.code
               x == [code |-> c.key, state |-> c.state, person |-> c.person, cred |-> q.cred]
    <2>1. /\ codes' = codes \ {c} /\ c \in codes /\ redeemed' = redeemed \cup {x}
          /\ req' = [req EXCEPT ![r] = Idle] /\ UNCHANGED <<pushed, states, otps>>
        BY <1>12 DEF ConsumeAuthCode, Return
    <2>2. req'[r] = Idle /\ \A y \in Requests : y # r => req'[y] = req[y]
        BY <2>1 DEF TypeOK
    <2>3. x.state = c.state
        OBVIOUS
    <2> SUFFICES ASSUME NEW d, d = c, NEW f, f = c.state.flow, NEW z, z = x PROVE Sole'
        OBVIOUS
    <2> HIDE DEF x, c
    <2>4. Carries("code", d, f) /\ ~Carries("code", d, f)'
        BY <2>1 DEF Carries
    <2>5. \A u, y, g : Carries(u, y, g)' => Carries(u, y, g) \/ (g = f /\ u = "redeemed" /\ y = z)
        BY <1>i, <2>1, <2>2, <2>3 DEF Carries
    <2> QED
        BY <2>4, <2>5, Handover
<1> QED
    BY <1>1, <1>2, <1>3, <1>4, <1>5, <1>6, <1>7, <1>8, <1>9, <1>10, <1>11, <1>12 DEF Step


LEMMA NextSole ==
    ASSUME TypeOK, ConsentInv, KeyInv, Sole, [Next]_vars
    PROVE  Sole'
<1>1. ASSUME pushed' \subseteq pushed, states' \subseteq states, otps' \subseteq otps,
             codes' \subseteq codes, redeemed' \subseteq redeemed, UNCHANGED req
      PROVE  Sole'
    <2>1. \A u, y, g : Carries(u, y, g)' => Carries(u, y, g)
        BY <1>1 DEF Carries
    <2> QED
        BY <2>1, NoneAdded
<1>2. CASE \/ \E w \in states : Discard(w)
           \/ CleanupPushed \/ CleanupStates \/ CleanupSelections \/ CleanupOTPs
           \/ CleanupCredentials \/ CleanupCodes \/ Tick \/ UNCHANGED vars
    BY <1>1, <1>2 DEF Discard, CleanupPushed, CleanupStates, CleanupSelections, CleanupOTPs,
        CleanupCredentials, CleanupCodes, Tick, vars, rows
<1>3. ASSUME NEW r \in Requests, Fail(r) PROVE Sole'
    <2>1. req' = [req EXCEPT ![r] = Idle] /\ UNCHANGED <<pushed, states, otps, codes, redeemed>>
        BY <1>3 DEF Fail, Return, rows
    <2>2. Idle.pc \notin Holding
        BY DEF Idle, Holding
    <2> QED
        BY <2>1, <2>2, RequestStays
<1>4. ASSUME NEW o \in otps, ResendOTP(o) PROVE Sole'
    <2> DEFINE x == [o EXCEPT !.exp = clock + OTPTTL]
    <2>1. x.state = o.state
        BY DEF TypeOK, Challenge
    <2>2. otps' = (otps \ {o}) \cup {x} /\ UNCHANGED <<pushed, states, codes, redeemed, req>>
        BY <1>4 DEF ResendOTP
    <2> SUFFICES ASSUME NEW f, f = o.state.flow, NEW z, z = x PROVE Sole'
        OBVIOUS
    <2> HIDE DEF x
    <2>3. Carries("otp", o, f) /\ (~Carries("otp", o, f)' \/ o = z)
        BY <2>2 DEF Carries
    <2>4. \A u, y, g : Carries(u, y, g)' => Carries(u, y, g) \/ (g = f /\ u = "otp" /\ y = z)
        BY <2>1, <2>2 DEF Carries
    <2> QED
        BY <2>3, <2>4, Handover
<1> QED
    BY <1>2, <1>3, <1>4, BeginSole, AskSole, StepSole DEF Next

\* A set whose elements are all equal has at most one.
LEMMA AtMostOne ==
    ASSUME NEW S, \A x, y \in S : x = y
    PROVE  /\ S = {} => Cardinality(S) = 0
           /\ S # {} => Cardinality(S) = 1
<1>1. S = {} => Cardinality(S) = 0
    BY FS_EmptySet
<1>2. ASSUME NEW x \in S PROVE Cardinality(S) = 1
    <2>1. S = {x}
        BY <1>2
    <2> QED
        BY <2>1, FS_Singleton
<1> QED
    BY <1>1, <1>2

LEMMA SoleCounts ==
    ASSUME Sole
    PROVE  OneCarrier
<1> SUFFICES ASSUME NEW f \in Flows PROVE Carriers(f) <= 1
    BY DEF OneCarrier
<1> DEFINE P == {p \in pushed : p.flow = f}
           S == {s \in states : s.state.flow = f}
           R == {r \in Requests : req[r].pc \in Holding /\ req[r].state.flow = f}
           O == {o \in otps : o.state.flow = f}
           C == {c \in codes : c.state.flow = f}
           D == {d \in redeemed : d.state.flow = f}
<1>1. /\ \A x \in P : Carries("pushed", x, f)
      /\ \A x \in S : Carries("state", x, f)
      /\ \A x \in R : Carries("request", x, f)
      /\ \A x \in O : Carries("otp", x, f)
      /\ \A x \in C : Carries("code", x, f)
      /\ \A x \in D : Carries("redeemed", x, f)
    BY DEF Carries
<1>2. \A t, x, u, y : Carries(t, x, f) /\ Carries(u, y, f) => t = u /\ x = y
    BY DEF Sole
<1>d. Carriers(f) = Cardinality(P) + Cardinality(S) + Cardinality(R) + Cardinality(O)
                    + Cardinality(C) + Cardinality(D)
    BY DEF Carriers
<1> HIDE DEF P, S, R, O, C, D
<1>3. /\ \A x, y \in P : x = y
      /\ \A x, y \in S : x = y
      /\ \A x, y \in R : x = y
      /\ \A x, y \in O : x = y
      /\ \A x, y \in C : x = y
      /\ \A x, y \in D : x = y
    BY <1>1, <1>2
<1>4. /\ P # {} => S = {} /\ R = {} /\ O = {} /\ C = {} /\ D = {}
      /\ S # {} => R = {} /\ O = {} /\ C = {} /\ D = {}
      /\ R # {} => O = {} /\ C = {} /\ D = {}
      /\ O # {} => C = {} /\ D = {}
      /\ C # {} => D = {}
    BY <1>1, <1>2
<1>5. \A X \in {P, S, R, O, C, D} : (X = {} => Cardinality(X) = 0) /\ (X # {} => Cardinality(X) = 1)
    BY <1>3, AtMostOne
<1> QED
    BY <1>4, <1>5, <1>d

\* An authorization request is carried by at most one row or handler at a time, and
\* ends in at most one code and one sign-in, for any number of flows and requests.
THEOREM OneCarrierHolds == Spec => []OneCarrier
<1>1. Init => Sole
    BY DEF Init, Sole, Carries, Idle, Holding
<1>2. TypeOK /\ ConsentInv /\ KeyInv /\ Sole /\ [Next]_vars => Sole'
    BY NextSole
<1>3. Sole => OneCarrier
    BY SoleCounts
<1>4. Init => ConsentInv
    BY DEF Init, ConsentInv, ReqSound, Idle
<1>5. TypeOK /\ ConsentInv /\ [Next]_vars => ConsentInv'
    BY NextConsent
<1> QED
    BY <1>1, <1>2, <1>3, <1>4, <1>5, FlowTypeCorrect, KeyInvariant, PTL DEF Spec

=============================================================================
