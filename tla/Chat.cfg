SPECIFICATION Spec
CONSTANTS
    Users = {a, b}
    Owners = {a}
    PublicKeys = {k1, k2}
    Pins = {p1, p2}
    Asks = {r1, r2, r3}
    FirstBackups = {"none", "old", "password", "pin"}
    AttemptsPerRound = 2
    MaxAttempts = 3
    Sockets = {s1, s2}
    Dismissed = {s2}
    Watchers = {w}
    Messages = {m1, m2}
    PairOf <- MCPairOf
    Requests = {r1, r2, r3}
    MaxText = 2
    MaxTime = 1
    Mixes <- MCMixes
    None = None
SYMMETRY Symmetry
CHECK_DEADLOCK FALSE
INVARIANTS
    TypeOK
    SentAsMeant
    SeenIsStored
    FewTriesPerRound
    KeysBelongTogether
    ConnectionsAreKnown
