------------------------------ MODULE MCAuthFlow ------------------------------
(* Small instances of AuthFlow for TLC.                                     *)
EXTENDS AuthFlow, TLC

CONSTANTS r1, r2, f1, f2, s1, s2, e1, e2, up, mail

Plain    == [kind |-> "direct", offline |-> FALSE, create |-> FALSE]
Creating == [kind |-> "direct", offline |-> FALSE, create |-> TRUE]
Offline  == [kind |-> "direct", offline |-> TRUE,  create |-> FALSE]
PushedPlain == [kind |-> "pushed", offline |-> FALSE, create |-> FALSE]
PushedOffline == [kind |-> "pushed", offline |-> TRUE, create |-> FALSE]
Managing == [kind |-> "manage", offline |-> FALSE, create |-> FALSE]

AllProfiles == {Plain, Creating, Offline, PushedPlain, PushedOffline, Managing}
PlainOnly   == {Plain}

Says(e, v) == [email |-> e, verified |-> v]
\* No email, one, verified or not, or two to choose from.
OneOrTwo == {{}, {Says(e1, TRUE)}, {Says(e1, FALSE)}, {Says(e1, TRUE), Says(e2, FALSE)}}
Choice   == {{Says(e1, TRUE)}, {Says(e1, TRUE), Says(e2, FALSE)}}
One      == {{Says(e1, TRUE)}, {Says(e1, FALSE)}}

\* One flow with choices of identity while time passes, or two flows of the
\* same accounts at once, on their shortest path.  The flow that begins first
\* says which.
TwoFlows == INSTANCE AuthFlow WITH VerificationMode <- "provider", Assertions <- One,
                                   MaxTime <- 0, MaxKeys <- 2

FlowsNext ==
    \/ Next /\ profile'[f2] = None
    \/ TwoFlows!Next /\ clock = 0 /\ profile'[f2] # None
         /\ (profile[f2] = None => profile[f1] = None)

FlowsSpec == Init /\ [][FlowsNext]_vars

Symmetry == Permutations(Requests) \cup Permutations(Subjects)

=============================================================================
