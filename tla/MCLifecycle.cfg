\* One process with three certificates in its files and two requests; or one
\* replica and two migration jobs of three releases.
CONSTANTS
    Requests = {r1, r2}
    Certificates = {1, 2, 3}
    KeyOf <- MCKeyOf
    None = None
    Replicas = {r1}
    Jobs = {j1, j2}
    Newest = 3
SPECIFICATION MCSpec
INVARIANTS
    CleanupFindsStore
    StartsOnItsTables
PROPERTIES
    RotationServed
    SignalEnds
    StaleReplicaNotReady
