\* Two connectors, two encryption keys and every document made of them; or a
\* connector of each type, whose provider answers soon or slowly.
CONSTANTS
    ConnectorIDs = {c1, c2}
    Keys = {k1, k2}
    Documents <- MCDocuments
    None = None
    Types = {"google", "github", "generic"}
    Lifetimes = {0, 31, 60}
    Latencies = {0, 1, 10, 19}
    ShortLifetimes = {0, 5, 31}
    LongLatencies = {0, 23}
    Pauses = {1, 29}
    RenewWindow = 30
    ExpiryDelta = 10
    Budget = 25
    Patience = 60
    MaxGen = 3
SYMMETRY MCSymmetry
SPECIFICATION MCSpec
INVARIANTS
    UndisturbedSignInSucceeds
    SignInBacked
    RotationRecorded
    OutagesKeepFamily
