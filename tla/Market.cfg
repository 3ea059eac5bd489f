SPECIFICATION Spec
CONSTANTS
    r1 = r1
    r2 = r2
    r3 = r3
    o = o
    u = u
    v = v
    s1 = s1
    s2 = s2
    Requests = {r1, r2, r3}
    Readers = {d}
    Owner = o
    People = {o, u, v}
    Followers = {u, v}
    Searches = {s1, s2}
    MaxSearches = 2
    Positions <- MCPositions
    GridStep = 2
    CellSize = 4
    MaxCells = 2
    Boxes <- MCBoxes
    Prices = {1, 2}
    Files = {f, g, h}
    Legacy = {h}
    MaxImages = 2
    Mixes <- MCMixes
    FirstListings <- MCFirstListings
    FirstSearches <- MCFirstSearches
    None = None
SYMMETRY Symmetry
CHECK_DEADLOCK FALSE
INVARIANTS
    TypeOK
    CachedIsCurrent
    OnTheMapIsHeard
    NoAlertTwice
    PhotosAreSound
PROPERTIES
    ListingStaysSound
