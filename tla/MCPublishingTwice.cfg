SPECIFICATION PSpec
CONSTANTS
    None = None
    Checkouts = {k1, k2}
    Webhooks = {w1}
    Requests = {}
    Failures = {}
CHECK_DEADLOCK FALSE
INVARIANTS
    PaidIsPublished
