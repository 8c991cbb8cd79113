CONSTANTS
    Types = {"google", "github", "generic"}
    Lifetimes = {60}
    Latencies = {0, 23}
    Pauses = {1, 29}
    RenewWindow = 30
    ExpiryDelta = 10
    Budget = 25
    Patience = 60
    MaxGen = 3
SPECIFICATION Spec
INVARIANTS RotationRecorded
