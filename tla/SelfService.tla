------------------------------ MODULE SelfService ------------------------------
(***************************************************************************)
(* The self-service grants page: a signed-in user's active refresh grants  *)
(* are listed, a one-time action is stored for each (renderGrants in       *)
(* src/internal/oidc/handle_grants.go, CreateGrantActions in               *)
(* src/internal/statedb/grants.go) and the form of one of them revokes it  *)
(* (HandleGrantRevoke, ConsumeGrantActionAndRevoke), while the grants are  *)
(* refreshed, revoked elsewhere, expire and are deleted together with      *)
(* their actions.                                                          *)
(*                                                                         *)
(* Times are what is left of a lifetime.  The action token of a grant on a *)
(* page is the pair of the two; the sign-in that leads to a page is part   *)
(* of AuthFlow.                                                            *)
(***************************************************************************)
EXTENDS Integers, FiniteSets

CONSTANTS
    SIDs,          \* refresh grants
    Emails,        \* addresses
    Owner,         \* the address each grant was made for
    Pages,         \* renderings of the page
    IdleTTL, AbsoluteTTL, ActionTTL,
    BatchSize,     \* grantActionBatchSize
    None

VARIABLES
    grant,       \* rows of refresh_grants
    action,      \* rows of grant_actions
    page,        \* the pages
    revokedBy    \* the address whose page held the action that revoked each grant

vars == <<grant, action, page, revokedBy>>

Never == [pc |-> "never"]
Gone == [pc |-> "gone"]

Action == [page : Pages, sid : SIDs, email : Emails, left : 0 .. ActionTTL]

TypeOK ==
    /\ grant \in [SIDs -> {Never, Gone} \cup
          [pc : {"row"}, revoked : BOOLEAN, idle : 0 .. IdleTTL, absolute : 0 .. AbsoluteTTL]]
    /\ action \subseteq Action
    /\ page \in [Pages -> {Never} \cup
          [pc : {"creating", "shown", "failed"}, email : Emails, sids : SUBSET SIDs,
           todo : SUBSET SIDs, left : 0 .. ActionTTL, used : SUBSET SIDs]]
    /\ revokedBy \in [SIDs -> Emails \cup {None}]

Init ==
    /\ grant = [s \in SIDs |-> Never]
    /\ action = {}
    /\ page = [p \in Pages |-> Never]
    /\ revokedBy = [s \in SIDs |-> None]

Exists(s) == grant[s].pc = "row"
Active(s) == Exists(s) /\ ~grant[s].revoked /\ grant[s].idle > 0 /\ grant[s].absolute > 0

--------------------------------------------------------------------------------
(* The grants, as the rest of the system changes them *)

Earlier(a, b) == IF a < b THEN a ELSE b

\* A sign-in creates a grant under a new random name.
Create(s) ==
    /\ grant[s] = Never
    /\ grant' = [grant EXCEPT ![s] = [pc |-> "row", revoked |-> FALSE, absolute |-> AbsoluteTTL,
                                      idle |-> Earlier(IdleTTL, AbsoluteTTL)]]
    /\ UNCHANGED <<action, page, revokedBy>>

\* A refresh may bring the absolute expiry forward to that of the provider's credential.
Refresh(s, absolute) ==
    /\ Active(s)
    /\ absolute <= grant[s].absolute
    /\ grant' = [grant EXCEPT ![s].idle = Earlier(IdleTTL, absolute), ![s].absolute = absolute]
    /\ UNCHANGED <<action, page, revokedBy>>

\* By the client, a replayed token or a denial.
RevokeElsewhere(s) ==
    /\ Active(s)
    /\ grant' = [grant EXCEPT ![s].revoked = TRUE]
    /\ UNCHANGED <<action, page, revokedBy>>

--------------------------------------------------------------------------------
(* The page *)

\* renderGrants reads the clock and lists the active grants of the address.
ListActiveGrants(p, email) ==
    /\ page[p] = Never
    /\ LET active == {s \in SIDs : Owner[s] = email /\ Active(s)}
       IN  page' = [page EXCEPT ![p] = [pc |-> "creating", email |-> email, sids |-> active,
                                        todo |-> active, left |-> ActionTTL, used |-> {}]]
    /\ UNCHANGED <<grant, action, revokedBy>>

\* The next statement of CreateGrantActions.  Each row refers to its grant, so that one that
\* is gone fails the statement.  Earlier statements are not undone.
Batch(p, sids) ==
    /\ page[p].pc = "creating"
    /\ sids \subseteq page[p].todo /\ sids # {}
    /\ Cardinality(sids) = Earlier(BatchSize, Cardinality(page[p].todo))
    /\ UNCHANGED <<grant, revokedBy>>

CreateGrantActions(p, sids) ==
    /\ Batch(p, sids)
    /\ \A s \in sids : Exists(s)
    /\ action' = action \cup
          {[page |-> p, sid |-> s, email |-> page[p].email, left |-> page[p].left] : s \in sids}
    /\ page' = [page EXCEPT ![p].todo = @ \ sids]

\* Mutant: the page is shown although its actions could not be stored.
CreateShowsAnyway(p, sids) ==
    /\ Batch(p, sids)
    /\ page' = [page EXCEPT ![p].pc = "shown"]
    /\ UNCHANGED action

\* The statement fails, for a grant that is gone or for the database, and the page with it.
CreateFails(p, sids) ==
    /\ Batch(p, sids)
    /\ page' = [page EXCEPT ![p].pc = "failed"]
    /\ UNCHANGED action

\* The page is rendered with its tokens.
Render(p) ==
    /\ page[p].pc = "creating" /\ page[p].todo = {}
    /\ page' = [page EXCEPT ![p].pc = "shown"]
    /\ UNCHANGED <<grant, action, revokedBy>>

\* Mutant: the action is looked up by its token alone.
MatchesToken(p, token, email, s) ==
    \E a \in action : a.page = p /\ a.sid = token /\ a.left > 0

\* The action whose token was sent is for this address and this grant, and has not expired.
Matches(p, token, email, s) ==
    \E a \in action : a.page = p /\ a.sid = token /\ a.email = email /\ a.sid = s /\ a.left > 0

\* HandleGrantRevoke with any fields in the form: the token is one of a page that was shown,
\* the address and the grant are whatever the form says.  One transaction revokes the grant
\* and deletes the action, or neither.
ConsumeGrantActionAndRevoke(p, token, email, s) ==
    /\ page[p].pc = "shown" /\ token \in page[p].sids
    /\ Active(s) /\ Owner[s] = email
    /\ Matches(p, token, email, s)
    /\ grant' = [grant EXCEPT ![s].revoked = TRUE]
    /\ action' = {a \in action : ~(a.page = p /\ a.sid = token)}
    /\ page' = [page EXCEPT ![p].used = @ \cup {token}]
    /\ revokedBy' = [revokedBy EXCEPT ![s] = page[p].email]

--------------------------------------------------------------------------------
(* Cleanup and time *)

\* cleanupExpiredAtContext: some expired actions, and some expired grants with their actions.
CleanActions(expired) ==
    /\ expired # {}
    /\ action' = action \ expired
    /\ UNCHANGED <<grant, page, revokedBy>>

CleanGrants(expired) ==
    /\ expired # {}
    /\ grant' = [s \in SIDs |-> IF s \in expired THEN Gone ELSE grant[s]]
    /\ action' = {a \in action : a.sid \notin expired}
    /\ UNCHANGED <<page, revokedBy>>

Less(n) == IF n = 0 THEN 0 ELSE n - 1

Tick ==
    /\ grant' = [s \in SIDs |->
          IF Exists(s) THEN [grant[s] EXCEPT !.idle = Less(@), !.absolute = Less(@)]
          ELSE grant[s]]
    /\ action' = {[a EXCEPT !.left = Less(@)] : a \in action}
    /\ page' = [p \in Pages |->
          IF page[p] = Never THEN Never ELSE [page[p] EXCEPT !.left = Less(@)]]
    /\ UNCHANGED revokedBy

Next ==
    \/ \E s \in SIDs :
          \/ Create(s) \/ RevokeElsewhere(s)
          \/ \E absolute \in 1 .. AbsoluteTTL : Refresh(s, absolute)
    \/ \E p \in Pages :
          \/ \E email \in Emails : ListActiveGrants(p, email)
          \/ \E sids \in SUBSET SIDs : CreateGrantActions(p, sids) \/ CreateFails(p, sids)
          \/ Render(p)
          \/ \E token, s \in SIDs, email \in Emails :
                ConsumeGrantActionAndRevoke(p, token, email, s)
    \/ \E expired \in SUBSET {a \in action : a.left = 0} : CleanActions(expired)
    \/ \E expired \in SUBSET {s \in SIDs : Exists(s) /\ grant[s].absolute = 0} :
          CleanGrants(expired)
    \/ Tick

Spec == Init /\ [][Next]_vars

--------------------------------------------------------------------------------
(* Properties *)

\* A grant is only ever revoked through a page that was rendered for its own address, whatever
\* a form says: actions of other pages, for other grants or of other people do not fit.
OwnGrantsOnly ==
    \A s \in SIDs : revokedBy[s] \in {Owner[s], None}

\* Every button on a rendered page works until the page's five minutes are over, once, as long
\* as its grant is still active: listing and storing are separate steps, storing may stop
\* half way, and cleanup deletes actions and grants meanwhile.
ShownActionsWork ==
    \A p \in Pages : page[p].pc = "shown" =>
        \A s \in page[p].sids \ page[p].used :
            page[p].left > 0 /\ Active(s) => Matches(p, s, page[p].email, s)

================================================================================
