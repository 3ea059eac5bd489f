SPECIFICATION Spec
CONSTANTS
    None = None
    ann = ann
    bob = bob
    cat = cat
    annsPhone = annsPhone
    bobsPhone = bobsPhone
    bobsTablet = bobsTablet
    catsPhone = catsPhone
    first = first
    second = second
    People = {ann, bob, cat}
    Sockets = {annsPhone, bobsPhone}
    CallIds = {first, second}
    Handlers = {h1, h2}
    OwnerOf <- OwnerOfPhone
    CallerOf <- AnnCallsBoth
    CalleeOf <- BobAndCat
    Retried = {second}
    Crashes = FALSE
CHECK_DEADLOCK FALSE
SYMMETRY Alike
INVARIANTS
    OneCallPerPerson
    EndedOnce
    NobodyLeftBusy
    RingingHasTimer
PROPERTIES
    ImplementsLines
