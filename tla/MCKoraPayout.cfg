\* Three payouts of one user, two requests at a time, under a limit of one.
SPECIFICATION PayoutSpec
CONSTANTS
    Payins = {}
    Payouts = {p1, p2, p3}
    WithAccount = {p1, p2, p3}
    RefundKeys = {}
    Spellings = {"own"}
    Events = {e1, e2}
    Handlers = {h1}
    FirstDelay = 1
    Expiry = 4
    None = None
    Limit = 1
    InFlight = 2
    Amount <- UnitAmount
SYMMETRY Symmetry
INVARIANTS SettledIsPaid RecordedUnlessDead CapBound
CHECK_DEADLOCK FALSE
