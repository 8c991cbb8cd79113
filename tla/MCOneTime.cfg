\* Two requests with three proofs and room for two of them; or two verifications
\* of two challenges of one address; or two pages over three grants of two
\* addresses.
SPECIFICATION MCSpec
CONSTANTS
    r1 = r1
    r2 = r2
    q1 = q1
    q2 = q2
    q3 = q3
    c1 = c1
    c2 = c2
    s1 = s1
    s2 = s2
    s3 = s3
    e1 = e1
    e2 = e2
    p1 = p1
    p2 = p2
    None = None
    Requests = {r1, r2}
    Proofs = {q1, q2, q3}
    MaxEntries = 2
    Past = 2
    Future = 1
    Challenges = {c1, c2}
    MaxAttempts = 2
    Quota = 2
    Hour = 3
    Cooldown = 1
    TTL = 2
    MaxTime = 4
    MaxCodes = 3
    SIDs = {s1, s2, s3}
    Emails = {e1, e2}
    Owner <- MCOwner
    Pages = {p1, p2}
    IdleTTL = 1
    AbsoluteTTL = 3
    ActionTTL = 2
    BatchSize = 1
SYMMETRY Symmetry
INVARIANTS
    HourlyQuota
    GuessesPerCode
    SingleUse
    OwnGrantsOnly
    ShownActionsWork
PROPERTIES
    NoReplayInWindow
\* Codes, identifiers and the clock are bounded.
CHECK_DEADLOCK FALSE
