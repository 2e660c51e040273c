\* One payout on a good day, under its own reference.
SPECIFICATION CalmSpec
CONSTANTS
    Payins = {}
    Payouts = {p1}
    WithAccount = {p1}
    RefundKeys = {}
    Spellings = {"own"}
    Events = {e1, e2}
    Handlers = {h1, h2}
    FirstDelay = 1
    Expiry = 4
    None = None
    Limit = 2
    InFlight = 2
    Amount <- UnitAmount
PROPERTY LateEventSettles
CHECK_DEADLOCK FALSE
