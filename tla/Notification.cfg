SPECIFICATION PushSpec
CONSTANTS
    a = a
    b = b
    sa = sa
    sb = sb
    t1 = t1
    t2 = t2
    t3 = t3
    Users = {a, b}
    Sessions = {sa, sb}
    AccountOf <- MCAccountOf
    Tokens = {t1, t2, t3}
    Android = {t1, t2}
    Ids = {1, 2, 3, 4}
    Promotions = {p}
    Instances = {i1, i2}
    Requests = {r1, r2, r3}
    Runs = {k1, k2}
    MaxDevices = 2
    PageSize = 1
    Mixes <- MCMixes
    FirstRows <- MCFirstRows
    Nil = Nil
SYMMETRY Symmetry
CHECK_DEADLOCK FALSE
INVARIANTS
    PushTypeOK
    SignedOutIsForgotten
    PromotionReachesAll
    PushesReach
