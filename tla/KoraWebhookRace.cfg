\* Two success events of one payout processed at the same time.
SPECIFICATION Spec
CONSTANTS
    Payins = {c1}
    Payouts = {p1}
    WithAccount = {c1, p1}
    RefundKeys = {k1}
    Spellings = {"own"}
    Events = {e1, e2}
    Handlers = {h1, h2}
    FirstDelay = 1
    Expiry = 4
    None = None
INVARIANT DebitOnce
