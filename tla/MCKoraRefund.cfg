\* Two requests, two keys, two pay-ins of two units, one event.
SPECIFICATION RefundSpec
CONSTANTS
    Payins = {c1, c2}
    Payouts = {}
    WithAccount = {c1, c2}
    RefundKeys = {k1, k2}
    Spellings = {"own"}
    Events = {e1}
    Handlers = {h1}
    FirstDelay = 1
    Expiry = 4
    None = None
    Requests = {r1, r2}
    Amount <- TwoUnits
SYMMETRY Symmetry
INVARIANTS OneCallPerKey CallMatchesRow RefundedIsPaidBack
CHECK_DEADLOCK FALSE
