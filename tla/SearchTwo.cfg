SPECIFICATION Spec
CONSTANTS
    i1 = i1
    i2 = i2
    market = market
    school = school
    Ids = {1, 2}
    Instances = {i1, i2}
    Finders = {d}
    MaxChanges = 2
    MaxFailures = 1
    Mixes <- MCMixes
    Running <- MCRunning
    FirstActive <- MCFirstActive
    None = None
    Spots = {1, 2}
    Categories = {market, school}
    Around <- MCAround
    Lookups = {l1, l2}
    Readers = {r1}
    FirstTags = {market}
    Nowhere = None
    Texts = {t1, t2, t3}
    Records = {q1, q2}
    Keep = 2
    Retention = 2
    MaxTime = 5
    NoRecord = None
CHECK_DEADLOCK FALSE
INVARIANT
    ChangesAreAppliedAgain
