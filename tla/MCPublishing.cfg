SPECIFICATION PSpec
CONSTANTS
    None = None
    Checkouts = {k1, k2}
    Webhooks = {w1, w2}
    Requests = {o1}
    Failures = {"call", "create", "undo", "crash"}
CHECK_DEADLOCK FALSE
SYMMETRY Alike
INVARIANTS
    OneWebhookSettles
    PaidAloneIsPublished
