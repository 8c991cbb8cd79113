\* Two requests race over up to three tokens of one family, or one request
\* meets every kind of provider.
SPECIFICATION MCSpec
CONSTANTS
    r1 = r1
    r2 = r2
    t1 = t1
    t2 = t2
    t3 = t3
    None = None
    Requests = {r1, r2}
    Tokens = {t1, t2, t3}
    Profiles <- AllProfiles
    CodeTTL = 1
    IdleTTL = 3
    AbsoluteTTL = 4
    AccessTTL = 3
    ClaimTTL = 2
    UpstreamMargin = 1
    RenewWindow = 2
    ExpiryDelta = 1
    Latency = 1
    MaxTime = 5
    MaxGen = 2
SYMMETRY SymmetryAll
INVARIANTS
    CredentialFence
    OneUpstreamCaller
    OneCurrentToken
    ExpiryOrder
PROPERTIES
    IssueFromLiveOnly
    ImplementsLedger
    IssuedWithinFamily
    AbsoluteNeverExtends
\* The family ends for good and the clock is bounded.
CHECK_DEADLOCK FALSE
