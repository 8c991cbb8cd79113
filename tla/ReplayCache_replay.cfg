\* What the DPoP documentation says of a replay.
SPECIFICATION Spec
CONSTANTS
    Requests = {r1, r2}
    Proofs = {p1, p2}
    MaxEntries = 2
    Past = 2
    Future = 1
    MaxTime = 5
INVARIANTS
    ReplayAlwaysRejected
\* The clock is bounded.
CHECK_DEADLOCK FALSE
