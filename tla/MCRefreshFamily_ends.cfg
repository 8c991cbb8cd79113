\* Fair requests of a slow provider, whose tokens the lookup's own client may
\* renew; no symmetry: every request comes to its end.
SPECIFICATION MCFairSpec
CONSTANTS
    r1 = r1
    r2 = r2
    t1 = t1
    t2 = t2
    t3 = t3
    None = None
    Requests = {r1, r2}
    Tokens = {t1, t2}
    Profiles <- RenewingProfile
    CodeTTL = 1
    IdleTTL = 3
    AbsoluteTTL = 3
    AccessTTL = 2
    ClaimTTL = 2
    UpstreamMargin = 1
    RenewWindow = 1
    ExpiryDelta = 1
    Latency = 2
    MaxTime = 3
    MaxGen = 1
PROPERTIES
    RequestsEnd
\* The family ends for good and the clock is bounded.
CHECK_DEADLOCK FALSE
