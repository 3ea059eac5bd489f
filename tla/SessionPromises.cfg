SPECIFICATION PSpec
CONSTANTS
    None = None
    Users = {u1}
    SessionIds = {s1, s2}
    Jtis = {j1, j2, j3, j4}
    Requests = {r1, r2}
    LegacyTokens = {}
    AccessTTL = 1
    EstablishedAfter = 0
    MaxTime = 1
    RedisFails = FALSE
INVARIANTS
    EverySessionSignedOut
