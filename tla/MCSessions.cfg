SPECIFICATION Spec
CONSTANTS
    None = None
    Users = {u1}
    SessionIds = {s1, s2}
    Jtis = {j1, j2, j3, j4}
    Requests = {r1, r2}
    LegacyTokens = {j1}
    AccessTTL = 1
    EstablishedAfter = 1
    MaxTime = 1
    RedisFails = FALSE
SYMMETRY Interchangeable
INVARIANTS
    AtMostOneUsableToken
    ExchangedOnce
    CutSessionsStayOut
PROPERTIES
    ImplementsChain
