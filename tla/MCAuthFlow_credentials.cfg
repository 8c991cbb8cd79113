\* Callbacks of two accounts in one flow with choices of identity, or in two flows.
SPECIFICATION FlowsSpec
CONSTANTS
    r1 = r1
    r2 = r2
    f1 = f1
    f2 = f2
    s1 = s1
    s2 = s2
    e1 = e1
    e2 = e2
    up = up
    mail = mail
    None = None
    Requests = {r1, r2}
    Flows = {f1, f2}
    Profiles <- PlainOnly
    Upstream = {up}
    Direct = {}
    Subjects = {s1, s2}
    Emails = {e1, e2}
    Assertions <- Choice
    VerificationMode = "disabled"
    StateTTL = 1
    SelectionTTL = 2
    PushTTL = 1
    OTPTTL = 1
    CodeTTL = 1
    MaxTime = 2
    MaxKeys = 4
SYMMETRY Symmetry
INVARIANTS
    StateLife
    CodeKeepsCredential
    CredentialOfFlow
PROPERTIES
    VerificationKept
\* Flows end, and the clock and the tokens are bounded.
CHECK_DEADLOCK FALSE
