SPECIFICATION Spec
CONSTANTS
    Users = {a, b}
    Pictures = {p1, p2}
    Names = {n1, n2}
    Requests = {r1, r2, r3}
    Reports = {1, 2}
    MaxFollowing = 1
    Mixes <- MCMixes
    None = None
SYMMETRY Symmetry
CHECK_DEADLOCK FALSE
INVARIANTS
    TypeOK
    CachedIsCurrent
    NoFollowAcrossBlock
    PictureIsThere
