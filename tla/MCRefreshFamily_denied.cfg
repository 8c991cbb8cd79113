\* What the policy documentation says of a denied client.
SPECIFICATION Spec
CONSTANTS
    r1 = r1
    r2 = r2
    t1 = t1
    t2 = t2
    t3 = t3
    None = None
    Requests = {r1}
    Tokens = {t1, t2}
    Profiles <- RenewingProfile
    CodeTTL = 1
    IdleTTL = 2
    AbsoluteTTL = 3
    AccessTTL = 2
    ClaimTTL = 2
    UpstreamMargin = 1
    RenewWindow = 1
    ExpiryDelta = 0
    Latency = 1
    MaxTime = 3
    MaxGen = 1
INVARIANTS
    ClientDenialRevokes
\* The family ends for good and the clock is bounded.
CHECK_DEADLOCK FALSE
