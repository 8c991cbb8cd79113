\* What the documentation says of a challenge whose attempts are used up.
SPECIFICATION Spec
CONSTANTS
    None = None
    Requests = {r1}
    Challenges = {c1}
    MaxAttempts = 2
    Quota = 2
    Hour = 3
    Cooldown = 1
    TTL = 2
    MaxTime = 5
    MaxCodes = 3
PROPERTIES
    LockedForGood
\* Codes, identifiers and the clock are bounded.
CHECK_DEADLOCK FALSE
