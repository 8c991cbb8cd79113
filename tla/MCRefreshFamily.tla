--------------------------- MODULE MCRefreshFamily ---------------------------
(* Small instances of RefreshFamily for TLC.                                *)
EXTENDS RefreshFamily, TLC

CONSTANTS r1, r2, t1, t2, t3

\* A provider whose access tokens end and can be renewed, one that bounds the
\* refresh token too, one whose access tokens never end, and one whose access
\* token ends and cannot be renewed.
RenewableProfile == [access |-> 3, renewable |-> TRUE, until |-> 0, permanent |-> FALSE]
BoundedProfile   == [access |-> 0, renewable |-> TRUE, until |-> 3, permanent |-> FALSE]
PermanentProfile == [access |-> 0, renewable |-> FALSE, until |-> 0, permanent |-> TRUE]
FiniteProfile    == [access |-> 3, renewable |-> FALSE, until |-> 0, permanent |-> FALSE]
\* A provider that states nothing: no grant is created from it.
SilentProfile    == [access |-> 0, renewable |-> FALSE, until |-> 0, permanent |-> FALSE]

AllProfiles == {RenewableProfile, BoundedProfile, PermanentProfile, FiniteProfile, SilentProfile}

\* A provider whose access tokens end so soon that its lookups may renew them.
ShortProfile     == [access |-> 2, renewable |-> TRUE, until |-> 0, permanent |-> FALSE]
RenewingProfile  == {ShortProfile}

SymmetryAll == Permutations({r1, r2}) \cup Permutations({t1, t2, t3})

\* Of the renewing provider, or of none.
Renewing(cred) == cred = NoCredential \/ (cred.renewable /\ cred.access # 0 /\ cred.until = 0)

\* A request that is alone meets every kind of provider, two rotations of its
\* refresh token and a longer life; two at once meet one kind and one rotation.
Alone == \E r \in Requests : req[r] = Idle
RaceBound ==
    /\ provider.gen <= 1 /\ clock < AbsoluteTTL
    /\ Renewing(grant.cred) /\ \A r \in Requests : Renewing(req[r].cred)

MCSpec == Init /\ [][Next /\ (Alone \/ RaceBound)']_vars

\* Fair requests of a family whose first token is t1: tokens are interchangeable.
FirstNext ==
    \/ \E kind \in {"connector", "email"}, p \in Profiles : CreateGrant(t1, kind, p)
    \/ \E r \in Requests, t \in Tokens : Inspect(r, t)
    \/ \E r \in Requests : Step(r) \/ Abandon(r)
    \/ StrayCall \/ RevokeCredential \/ Cleanup \/ Tick

MCFairSpec == Init /\ [][FirstNext]_vars /\ \A r \in Requests : WF_vars(Step(r))

=============================================================================
