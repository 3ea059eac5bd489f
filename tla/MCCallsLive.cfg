SPECIFICATION FairSpec
CONSTANTS
    None = None
    ann = ann
    bob = bob
    cat = cat
    annsPhone = annsPhone
    bobsPhone = bobsPhone
    bobsTablet = bobsTablet
    catsPhone = catsPhone
    first = first
    second = second
    People = {ann, bob, cat}
    Sockets = {annsPhone, bobsPhone}
    CallIds = {first}
    Handlers = {h1, h2}
    OwnerOf <- OwnerOfPhone
    CallerOf <- AnnCallsBoth
    CalleeOf <- BobAndCat
    Retried = {}
    Crashes = TRUE
CHECK_DEADLOCK FALSE
PROPERTIES
    NobodyBusyForEver
