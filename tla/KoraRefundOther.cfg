\* Two partial refunds of one pay-in, the event is about the older one.
SPECIFICATION RefundSpec
CONSTANTS
    Payins = {c1}
    Payouts = {}
    WithAccount = {c1}
    RefundKeys = {k1, k2}
    Spellings = {"own"}
    Events = {e1}
    Handlers = {h1}
    FirstDelay = 1
    Expiry = 4
    None = None
    Requests = {r1, r2}
    Amount <- TwoUnits
INVARIANT ReversalIsOwn
CHECK_DEADLOCK FALSE
