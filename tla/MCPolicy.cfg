\* Two callers of a client cache of one entry; or two verifications with the
\* keys of two issuers in a cache of one; or an exchange beside a change of the policy.
SPECIFICATION MCSpec
CONSTANTS
    c1 = c1
    c2 = c2
    k1 = k1
    k2 = k2
    v1 = v1
    v2 = v2
    i1 = i1
    i2 = i2
    None = None
    Unset = Unset
    Clients = {k1, k2}
    Callers = {c1, c2}
    MaxEntries = 1
    TTL = 2
    NegativeTTL = 1
    QueryTimeout = 1
    MaxTime = 3
    MaxChanges = 1
    Issuers = {i1, i2}
    MaxCached = 1
    CacheTTL = 1
    RefreshWait = 2
    FetchTimeout = 1
    KeysMaxTime = 3
    MaxRotations = 1
    Prompt = TRUE
    Requests = {r1}
    Values = {v1, v2}
    Rows <- MCRows
    StaticRows <- MCStaticRows
    MaxAge = 1
    MaxPolicyChanges = 1
SYMMETRY Symmetry
INVARIANTS
    MapAndListAgree
    AnswerAge
    KeysFresh
    OnlyBinding
    TokenCurrent
    StaticIssuerKeys
PROPERTIES
    ForcedLoadsSpaced
