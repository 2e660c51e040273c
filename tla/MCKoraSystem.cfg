\* One pay-in, one payout, one refund, two workers, two events about any of the three.
SPECIFICATION SystemSpec
CONSTANTS
    Payins = {c1}
    Payouts = {p1}
    WithAccount = {c1, p1}
    RefundKeys = {k1}
    Spellings = {"own"}
    Events = {e1, e2}
    Handlers = {h1}
    FirstDelay = 0
    Expiry = 1
    None = None
    Amount <- UnitAmount
    Limit = 1
    InFlight = 1
    Requests = {r1}
    Workers = {w1, w2}
    Lease = 1
    MaxBackoff = 1
    MaxAttempts = 1
SYMMETRY Symmetry
INVARIANTS SystemTypeOK RefundOfCollected VerdictIsTrue
PROPERTIES StatusHasWriter AtomicLedger
CHECK_DEADLOCK FALSE
