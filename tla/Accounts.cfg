SPECIFICATION Spec
CONSTANTS
    Requests = {r1, r2, r3}
    Sids = {s1, s2}
    MaxCodes = 2
    Points <- MCPoints
    CodeTTL = 2
    MaxTime = 3
    Mixes <- MCMixes
    None = None
SYMMETRY Symmetry
CHECK_DEADLOCK FALSE
INVARIANTS
    TypeOK
    CodesHold
    OldPasswordIsOut
    LeavingIsComplete
