\* One flow of every kind, every page of it sent by two requests.
SPECIFICATION Spec
CONSTANTS
    r1 = r1
    r2 = r2
    f1 = f1
    f2 = f2
    s1 = s1
    s2 = s2
    e1 = e1
    e2 = e2
    up = up
    mail = mail
    None = None
    Requests = {r1, r2}
    Flows = {f1}
    Profiles <- AllProfiles
    Upstream = {up}
    Direct = {mail}
    Subjects = {s1}
    Emails = {e1, e2}
    Assertions <- OneOrTwo
    VerificationMode = "strict"
    StateTTL = 1
    SelectionTTL = 2
    PushTTL = 1
    OTPTTL = 1
    CodeTTL = 1
    MaxTime = 2
    MaxKeys = 5
SYMMETRY Symmetry
INVARIANTS
    ConsentGiven
    EmailProven
    OneCarrier
\* Flows end, and the clock and the tokens are bounded.
CHECK_DEADLOCK FALSE
